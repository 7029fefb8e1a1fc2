----------------------------- MODULE WebServer ------------------------------
(***************************************************************************)
(* AsyncWebServer with its lists of rewrites and handlers, which the       *)
(* firmware adds to and removes from while requests come in, and what a    *)
(* handler finds in a request: parameters, headers, a login.               *)
(* A url is a sequence of characters.  The name of a header is a pair: the *)
(* word and how it is spelled, which is not looked at.                     *)
(***************************************************************************)
EXTENDS Integers, FiniteSets, SequencesExt

CONSTANTS
    Rewrites,       \* [from, to, params, filter]
    Handlers,       \* routes [kind, uri, methods, filter] and pages
                    \* [kind, uri, files, login, dated, tagged, filter]
    Requests,       \* [method, url, params, via, login]
    Sizes, Dates,   \* of the stored page
    MaxSteps

ServerAssumption ==
    /\ MaxSteps \in Nat
    /\ \A h \in Handlers : h.kind \in {"route", "page"} /\ h.filter \in {"all", "sta", "ap"}
    /\ \A q \in Requests : q.via \in {"sta", "ap"}

VARIABLES
    heap,        \* the nodes of the lists by address
    root,        \* the first node of each list
    catchAll,    \* there is a function for what no handler takes
    page,        \* the stored page
    copy,        \* what a browser has of it
    exchange,    \* the last request and what became of it
    meant,       \* what the lists are to hold
    steps

serverVars == <<heap, root, catchAll, page, copy, exchange, meant, steps>>

NoNode == 0
NoCopy == [version |-> 0, size |-> 0, date |-> 0]
NoExchange == [by |-> "none"]
CatchAll == [kind |-> "catchAll"]

-----------------------------------------------------------------------------
(* LinkedList                                                                *)

\* The nodes from the first on, and their values.
Nodes(list) ==
    LET walk[n \in 0 .. Cardinality(DOMAIN heap)] ==
            IF n = 0 THEN IF root[list] = NoNode THEN <<>> ELSE <<root[list]>>
            ELSE LET w == walk[n - 1]
                 IN  IF w = <<>> \/ heap[Last(w)].next = NoNode THEN w
                     ELSE Append(w, heap[Last(w)].next)
    IN  walk[Cardinality(DOMAIN heap)]

ValuesOf(list) == [i \in DOMAIN Nodes(list) |-> heap[Nodes(list)[i]].value]

nth(seq, n) == IF n < Len(seq) THEN {seq[n + 1]} ELSE {}

\* The lowest address that is free.
NewNode == CHOOSE a \in 1 .. Cardinality(DOMAIN heap) + 1 :
               a \notin DOMAIN heap /\ \A b \in 1 .. a - 1 : b \in DOMAIN heap

add(list, value) ==
    LET grown == (NewNode :> [value |-> value, next |-> NoNode]) @@ heap
    IN  /\ heap' = IF Nodes(list) = <<>> THEN grown
                   ELSE [grown EXCEPT ![Last(Nodes(list))].next = NewNode]
        /\ root' = IF Nodes(list) = <<>> THEN [root EXCEPT ![list] = NewNode] ELSE root

RemoveUnlinked(list, value) ==    \* mutant: the node before is linked to nothing
    LET i == CHOOSE k \in DOMAIN Nodes(list) : heap[Nodes(list)[k]].value = value
        it == Nodes(list)[i]
    IN  /\ heap' = [a \in DOMAIN heap \ {it} |->
                      IF heap[a].next = it THEN [heap[a] EXCEPT !.next = NoNode] ELSE heap[a]]
        /\ root' = IF i = 1 THEN [root EXCEPT ![list] = heap[it].next] ELSE root

\* The first node with the value goes, and the object with it (_onRemove).
remove(list, value) ==
    LET i == CHOOSE k \in DOMAIN Nodes(list) : heap[Nodes(list)[k]].value = value
        it == Nodes(list)[i]
    IN  /\ heap' = [a \in DOMAIN heap \ {it} |->
                      IF heap[a].next = it THEN [heap[a] EXCEPT !.next = heap[it].next] ELSE heap[a]]
        /\ root' = IF i = 1 THEN [root EXCEPT ![list] = heap[it].next] ELSE root

-----------------------------------------------------------------------------
(* What a handler finds in a request                                         *)

\* ON_STA_FILTER and ON_AP_FILTER: by the address the client has connected to.
filter(of, q) == of.filter = "all" \/ of.filter = q.via

equalsIgnoreCase(name, other) == name[1] = other[1]
containsIgnoreCase(names, name) == \E i \in DOMAIN names : equalsIgnoreCase(names[i], name)

\* At most one element: the first that has the name.
getHeader(q, name) ==
    LET s == SelectSeq(q.headers, LAMBDA h : equalsIgnoreCase(h.name, name)) IN nth(s, 0)
getParam(q, name, post) ==
    LET s == SelectSeq(q.params, LAMBDA p : p.name = name /\ p.post = post) IN nth(s, 0)

header(q, name) == {h.value : h \in getHeader(q, name)}
arg(q, name) == LET s == SelectSeq(q.params, LAMBDA p : p.name = name) IN {p.value : p \in nth(s, 0)}

\* Every rewrite that matches what the ones before have made of the url.
Rewritten(q, r) ==
    IF r.from = q.url /\ filter(r, q) THEN [q EXCEPT !.url = r.to, !.params = @ \o r.params] ELSE q
_rewriteRequest(q) == FoldLeft(Rewritten, q, ValuesOf("rewrites"))

\* While the list is walked its nodes are deleted; the next one is read from
\* memory that has been given back and not been used again.
_removeNotInterestingHeaders(q, interesting) ==
    IF containsIgnoreCase(interesting, <<"ANY">>) THEN q
    ELSE [q EXCEPT !.headers = SelectSeq(@, LAMBDA h : containsIgnoreCase(interesting, h.name))]

-----------------------------------------------------------------------------
(* Handlers                                                                  *)

IsWild(uri) == uri # <<>> /\ Last(uri) = "*"

RouteCanHandle(h, q) ==
    /\ q.method \in h.methods
    /\ IF IsWild(h.uri) THEN IsPrefix(Front(h.uri), q.url)
       ELSE h.uri = <<>> \/ q.url = h.uri \/ IsPrefix(Append(h.uri, "/"), q.url)

PageCanHandle(h, q) ==
    q.method = "GET" /\ IsPrefix(h.uri, q.url) /\ SubSeq(q.url, Len(h.uri) + 1, Len(q.url)) \in h.files

canHandle(h, q) == IF h.kind = "route" THEN RouteCanHandle(h, q) ELSE PageCanHandle(h, q)

Interesting(h) ==
    IF h.kind = "route" THEN << <<"ANY">> >>
    ELSE (IF h.dated THEN << <<"if-modified-since", "server">> >> ELSE <<>>)
           \o (IF h.tagged THEN << <<"if-none-match", "server">> >> ELSE <<>>)

\* _attachHandler(): the first one, if there is one.
_attachHandler(q) ==
    LET s == SelectSeq(ValuesOf("handlers"), LAMBDA h : filter(h, q) /\ canHandle(h, q)) IN nth(s, 0)

\* AsyncStaticWebHandler::handleRequest(): the date before the tag, which is
\* the size of the file.
PageResponse(h, q) ==
    CASE h.login # <<>> /\ q.login # h.login -> 401
      [] h.dated /\ header(q, <<"if-modified-since", "server">>) = {page.date} -> 304
      [] h.tagged /\ header(q, <<"if-none-match", "server">>) = {page.size} -> 304
      [] OTHER -> 200

\* A request with the headers a browser sends that has a copy, spelled in its
\* own way and among others.
HeadersOf(c) ==
    << [name |-> <<"host", "browser">>, value |-> 0] >>
      \o (IF c.size = 0 THEN <<>> ELSE << [name |-> <<"if-none-match", "browser">>, value |-> c.size] >>)
      \o (IF c.date = 0 THEN <<>> ELSE << [name |-> <<"if-modified-since", "browser">>, value |-> c.date] >>)

Handled(q, hs) ==
    LET h == CHOOSE x \in hs : TRUE
        seen == _removeNotInterestingHeaders(q, IF hs = {} THEN << <<"ANY">> >> ELSE Interesting(h))
    IN  CASE hs = {} -> [by |-> CatchAll, code |-> IF catchAll THEN 200 ELSE 500, q |-> seen]
          [] hs # {} /\ h.kind = "route" -> [by |-> h, code |-> 200, q |-> seen]
          [] OTHER -> [by |-> h, code |-> PageResponse(h, seen), q |-> seen]

\* The browser keeps the page if the response tells it how to ask again.
Serve(r) ==
    LET q == _rewriteRequest([method |-> r.method, url |-> r.url, params |-> r.params,
                              via |-> r.via, login |-> r.login, headers |-> HeadersOf(copy)])
        x == Handled(q, _attachHandler(q))
    IN  /\ exchange' = [asked |-> r, by |-> x.by, code |-> x.code, q |-> x.q, had |-> copy,
                     page |-> page, meant |-> meant, catchAll |-> catchAll]
        /\ copy' = IF x.by.kind = "page" /\ x.code = 200 /\ (x.by.dated \/ x.by.tagged)
                   THEN [version |-> page.version, size |-> IF x.by.tagged THEN page.size ELSE 0,
                         date |-> IF x.by.dated THEN page.date ELSE 0]
                   ELSE copy
        /\ UNCHANGED <<heap, root, catchAll, page, meant>>

-----------------------------------------------------------------------------
(* The firmware                                                              *)

In(list, value) == \E i \in DOMAIN meant[list] : meant[list][i] = value

\* on(), serveStatic(), rewrite(): an object of its own each.
Adds(list, value) ==
    /\ ~In(list, value) /\ add(list, value)
    /\ meant' = [meant EXCEPT ![list] = Append(@, value)]
    /\ UNCHANGED <<catchAll, page, copy, exchange>>

\* removeHandler(), removeRewrite()
Removes(list, value) ==
    /\ In(list, value) /\ remove(list, value)
    /\ meant' = [meant EXCEPT ![list] = SelectSeq(@, LAMBDA v : v # value)]
    /\ UNCHANGED <<catchAll, page, copy, exchange>>

onNotFound ==
    catchAll' = TRUE /\ UNCHANGED <<heap, root, page, copy, exchange, meant>>

reset ==
    /\ heap' = <<>> /\ root' = [l \in DOMAIN root |-> NoNode] /\ catchAll' = FALSE
    /\ meant' = [l \in DOMAIN meant |-> <<>>]
    /\ UNCHANGED <<page, copy, exchange>>

\* The page is stored anew, and setLastModified() called with a later date.
Stores(size, date) ==
    /\ date > page.date
    /\ page' = [version |-> page.version + 1, size |-> size, date |-> date]
    /\ UNCHANGED <<heap, root, catchAll, copy, exchange, meant>>

ServerInit ==
    /\ heap = <<>> /\ root = [l \in {"rewrites", "handlers"} |-> NoNode] /\ catchAll = FALSE
    /\ page = [version |-> 1, size |-> Min(Sizes), date |-> Min(Dates)]
    /\ copy = NoCopy /\ exchange = NoExchange
    /\ meant = [l \in {"rewrites", "handlers"} |-> <<>>] /\ steps = 0

ServerNext ==
    /\ steps < MaxSteps /\ steps' = steps + 1
    /\ \/ \E h \in Handlers : Adds("handlers", h) \/ Removes("handlers", h)
       \/ \E r \in Rewrites : Adds("rewrites", r) \/ Removes("rewrites", r)
       \/ onNotFound \/ reset
       \/ \E n \in Sizes, d \in Dates : Stores(n, d)
       \/ \E q \in Requests : Serve(q)

-----------------------------------------------------------------------------
(* Properties                                                                *)

\* Handlers that could take a url.
MayTake(h, q) ==
    /\ h.filter \in {"all", q.via}
    /\ IF h.kind = "page" THEN q.method = "GET" /\ \E f \in h.files : q.url = h.uri \o f
       ELSE /\ q.method \in h.methods
            /\ \/ h.uri \in {<<>>, q.url} \/ IsPrefix(h.uri \o <<"/">>, q.url)
               \/ IsWild(h.uri) /\ IsPrefix(Front(h.uri), q.url)

\* The url and the parameters once the rewrites have been gone through.
Meant(q, rewrites) ==
    LET at[i \in 0 .. Len(rewrites)] ==
            IF i = 0 THEN [url |-> q.url, params |-> q.params]
            ELSE LET p == at[i - 1]
                     r == rewrites[i]
                 IN  IF r.from = p.url /\ r.filter \in {"all", q.via}
                     THEN [url |-> r.to, params |-> p.params \o r.params] ELSE p
    IN  at[Len(rewrites)]

\* The last request, with what was registered and stored when it came.
AnsweredBy(x) ==
    LET q     == Meant(x.asked, x.meant["rewrites"])
        able  == {i \in DOMAIN x.meant["handlers"] :
                    MayTake(x.meant["handlers"][i], [x.asked EXCEPT !.url = q.url])}
    IN  /\ x.q.url = q.url
        /\ x.by = IF able = {} THEN CatchAll ELSE x.meant["handlers"][Min(able)]
        /\ x.by = CatchAll => x.code = IF x.catchAll THEN 200 ELSE 500
        /\ \A i \in DOMAIN q.params :
             LET same == {j \in DOMAIN q.params : q.params[j].name = q.params[i].name}
                 form == {j \in same : q.params[j].post = q.params[i].post}
             IN  /\ arg(x.q, q.params[i].name) = {q.params[Min(same)].value}
                 /\ getParam(x.q, q.params[i].name, q.params[i].post) = {q.params[Min(form)]}

\* Whatever has been added and removed, the lists are what they are meant to
\* be, and so is the answer to the last request: it is by the first handler
\* that takes it, which finds the parameters that came with it and with
\* rewrites by name; a page is for its login only; and "not modified" is said
\* to a browser that has the page as it is, or one of the same size where the
\* size is all that is looked at.
RequestsAreAnswered ==
    /\ \A l \in DOMAIN meant : ValuesOf(l) = meant[l]
    /\ exchange # NoExchange =>
         LET x == exchange
         IN  /\ AnsweredBy(x)
             /\ x.by.kind = "page" =>
                  /\ x.code = 401 <=> x.by.login \notin {<<>>, x.asked.login}
                  /\ x.code = 304 => x.had.version = x.page.version \/ (x.by.tagged /\ x.had.size = x.page.size)
                  /\ x.code = 200 /\ (x.by.dated \/ x.by.tagged) =>
                       x.had.version # x.page.version \/ (x.had.size = 0 /\ ~x.by.dated) \/ (x.had.date = 0 /\ ~x.by.tagged)
=============================================================================
