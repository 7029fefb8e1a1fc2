------------------------------ MODULE WebPages ------------------------------
(***************************************************************************)
(* The portal's web server: which handler gets a request, and which file   *)
(* the handler of stored pages answers with.  A page is stored plain,      *)
(* compressed or both; which of the two is looked for first follows the    *)
(* last eight pages, whoever asked for them.                               *)
(*                                                                         *)
(* A url or path is a sequence of names; it ends with "" for a directory   *)
(* and with ".gz" for a compressed file.                                   *)
(***************************************************************************)
EXTENDS Integers, FiniteSets, SequencesExt

CONSTANTS
    Stored,      \* paths of the files in SPIFFS
    Routes,      \* server->on(), in order: records of a method and a url
    Visits,      \* requests: records of a method, a url and a type
    Extension    \* behind the last dot of a name, as a function; "" without one

PagesAssumption == \A q \in Visits : q.url # <<>>

VARIABLES
    gzipStats,   \* 8 bits: which of the last pages were compressed
    gzipFirst,   \* look for the compressed file first
    visit,       \* the last request
    answer       \* and what it was answered with

pageVars == <<gzipStats, gzipFirst, visit, answer>>

NoVisit == [method |-> "none", url |-> <<"">>, type |-> "http"]
NoAnswer == [by |-> "none"]

PagesInit ==
    gzipStats = 248 /\ gzipFirst = FALSE /\ visit = NoVisit /\ answer = NoAnswer

-----------------------------------------------------------------------------
(* AsyncStaticWebHandler                                                     *)

Gzip(path) == Append(path, ".gz")
IsGzip(path) == Last(path) = ".gz"

_countBits(value) == Cardinality({i \in 0 .. 7 : ((value \div 2^i) % 2) = 1})

\* The files of _fileExists() that are there, in the order they are tried.
Files(path) ==
    LET order == IF gzipFirst THEN <<Gzip(path), path>> ELSE <<path, Gzip(path)>>
    IN  SelectSeq(order, LAMBDA file : file \in Stored)

IsDirectory(url) == Last(url) = ""

\* index.html below the url, with or without a slash behind it.
DefaultOf(url) ==
    Append(IF IsDirectory(url) THEN Front(url) ELSE url, "index.html")

\* The paths _getFile() tries.
Paths(url) == (IF IsDirectory(url) THEN <<>> ELSE <<url>>) \o <<DefaultOf(url)>>

\* Every candidate: a path without ".gz" and the file it was found in.
Candidates(url) ==
    FlattenSeq([i \in DOMAIN Paths(url) |->
        [j \in DOMAIN Files(Paths(url)[i]) |->
            [path |-> Paths(url)[i], file |-> Files(Paths(url)[i])[j]]]])

PageCanHandle(q) == q.method = "GET" /\ q.type = "http" /\ Candidates(q.url) # <<>>

\* The eight bits move on, and a majority of compressed pages decides.
Count(file) ==
    LET stats == ((2 * gzipStats) % 256) + (IF IsGzip(file) THEN 1 ELSE 0)
    IN  /\ gzipStats' = stats
        /\ gzipFirst' = (stats = 255 \/ (stats # 0 /\ _countBits(stats) > 4))

\* The content type, from the path without the ".gz" that was found with it.
_setContentType(path) ==
    LET extension == Extension[Last(path)]
    IN  CASE IsGzip(path) -> "application/x-gzip"
          [] extension \in {"html", "htm"} -> "text/html"
          [] extension \in {"css", "xml"} -> "text/" \o extension
          [] extension = "js" -> "application/javascript"
          [] extension \in {"json", "pdf", "zip"} -> "application/" \o extension
          [] extension \in {"png", "gif"} -> "image/" \o extension
          [] extension \in {"eot", "woff", "woff2", "ttf"} -> "font/" \o extension
          [] extension = "jpg" -> "image/jpeg"
          [] extension = "ico" -> "image/x-icon"
          [] extension = "svg" -> "image/svg+xml"
          [] OTHER -> "text/plain"

\* AsyncFileResponse: a compressed file is announced as such, unless that is
\* what was asked for.
FileResponse(found) ==
    [by |-> "page", path |-> found.path, file |-> found.file,
     type |-> _setContentType(found.path),
     gzip |-> IsGzip(found.file) /\ ~IsGzip(found.path)]

-----------------------------------------------------------------------------
(* AsyncWebServer                                                            *)

\* AsyncCallbackWebHandler: the url itself or one below it.
RouteCanHandle(route, q) ==
    route.method = q.method /\ IsPrefix(route.url, q.url)

RoutesFor(q) == {i \in DOMAIN Routes : RouteCanHandle(Routes[i], q)}

WsCanHandle(q) == q.method = "GET" /\ q.url = <<"ws">> /\ q.type = "ws"
EventsCanHandle(q) == q.method = "GET" /\ q.url = <<"events">>

\* CaptiveRequestHandler: a page that sends the browser to the device.
Captive == [by |-> "captive", type |-> "text/html"]

\* _attachHandler(): the handlers in the order they were added, with those of
\* the modules among the routes.  In the portal the device has no address of
\* its own in another network, so that the filter of the captive handler lets
\* everything through, and nothing is left for onNotFound().
Behind(q) ==
    CASE EventsCanHandle(q) -> [by |-> "events"]
      [] ~EventsCanHandle(q) /\ RoutesFor(q) # {} ->
           [by |-> "route", url |-> Routes[CHOOSE i \in RoutesFor(q) :
                                             \A j \in RoutesFor(q) : i <= j].url]
      [] OTHER -> Captive

Visit(q) ==
    /\ visit' = q
    /\ IF ~WsCanHandle(q) /\ PageCanHandle(q)
       THEN LET found == Head(Candidates(q.url))
            IN  answer' = FileResponse(found) /\ Count(found.file)
       ELSE /\ answer' = IF WsCanHandle(q) THEN [by |-> "ws"] ELSE Behind(q)
            /\ UNCHANGED <<gzipStats, gzipFirst>>

PagesNext == \E q \in Visits : Visit(q)

-----------------------------------------------------------------------------
(* Properties                                                                *)

StoredForms(path) == {path, Gzip(path)} \cap Stored

\* A page is answered whatever was asked for before: the first of its paths
\* that is stored in any form, as one of these forms, with the encoding of
\* the form it has and the type of the page in it, an archive only if that was
\* asked for; and only what no page answers reaches the handlers behind.
PagesAreServed ==
    LET url    == visit.url
        stored == SelectSeq(Paths(url), LAMBDA path : StoredForms(path) # {})
        page   == visit.method = "GET" /\ visit.type = "http" /\ stored # <<>>
    IN  /\ (answer.by = "page") <=> page
        /\ page =>
             /\ answer.path = Head(stored) /\ answer.file \in StoredForms(answer.path)
             /\ answer.gzip <=> (answer.file # answer.path)
             /\ (answer.type = "application/x-gzip") <=> IsGzip(url)
=============================================================================
