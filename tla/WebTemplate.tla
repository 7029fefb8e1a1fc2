---------------------------- MODULE WebTemplate -----------------------------
(***************************************************************************)
(* The templates of AsyncAbstractResponse: the names between two percent   *)
(* signs in a page are replaced by values while the page goes out in       *)
(* pieces, each in a buffer of its own size, with a cache of what did not  *)
(* fit and of what was read ahead.  A text is a sequence of characters.    *)
(***************************************************************************)
EXTENDS Integers, SequencesExt

CONSTANTS
    NameLength,    \* TEMPLATE_PARAM_NAME_LENGTH (32 in the code)
    Values         \* the AwsTemplateProcessor: from names to values

TemplateAssumption == NameLength \in Nat \ {0} /\ \A name \in DOMAIN Values : name # <<>>

TEMPLATE_PLACEHOLDER == "%"

_callback(name) == IF name \in DOMAIN Values THEN Values[name] ELSE <<>>

\* memchr(): the first one from i, or 0.
NextPlaceholder(text, i) ==
    LET at == {k \in i .. Len(text) : text[k] = TEMPLATE_PLACEHOLDER}
    IN  IF at = {} THEN 0 ELSE Min(at)

\* A buffer in which nothing has been replaced: room is its size, data what is
\* in it.  lost says that a value has been cut, see Substitute.
Fresh == [room |-> 0, data |-> <<>>, cache |-> <<>>, content |-> <<>>, lost |-> FALSE]

Prefix(text, n) == SubSeq(text, 1, IF n < Len(text) THEN n ELSE Len(text))

\* The next n bytes or as many as there are, and what is left behind them.
Ahead(b, n) == Prefix(b.cache \o b.content, n)
_readDataFromCacheOrContent(b, n) ==
    [b EXCEPT !.cache = SubSeq(b.cache, n + 1, Len(b.cache)),
              !.content = IF n > Len(b.cache) THEN SubSeq(b.content, n - Len(b.cache) + 1, Len(b.content))
                          ELSE @]

\* Reads behind the data up to n bytes.
Refill(b, n) == [_readDataFromCacheOrContent(b, n) EXCEPT !.data = @ \o Ahead(b, n)]

\* Of two percent signs the second one goes.
Unescape(b, end) ==
    Refill([b EXCEPT !.data = SubSeq(b.data, 1, end - 1) \o SubSeq(b.data, end + 1, Len(b.data))], 1)

\* The bytes from start to end make place for the value of a name: what is
\* behind them moves, into the cache if it must; a value longer than the buffer
\* is continued from the cache; room that becomes free is filled.  With a value
\* longer than the room behind start, and a buffer that was not full, len stays
\* what it was, and what has been written behind it is not sent.
Substitute(b, start, end, value) ==
    LET len    == Len(b.data)
        copied == IF Len(value) < b.room - start + 1 THEN Len(value) ELSE b.room - start + 1
        all    == SubSeq(b.data, 1, start - 1) \o SubSeq(value, 1, copied)
                    \o SubSeq(b.data, end + 1, len)
        fits   == Prefix(all, b.room)
        beyond == SubSeq(all, b.room + 1, Len(all))
        rest   == SubSeq(value, copied + 1, Len(value))
    IN  CASE rest # <<>> ->
               [b EXCEPT !.data = Prefix(fits, len), !.cache = rest \o beyond \o @,
                         !.lost = @ \/ len < Len(fits)]
          [] rest = <<>> /\ copied < end + 1 - start -> Refill([b EXCEPT !.data = all], b.room - Len(all))
          [] OTHER -> [b EXCEPT !.data = fits, !.cache = beyond \o @]

\* The closing placeholder is looked for in what comes after the buffer, as
\* far as a name may be long.
ReadAhead(b, start) ==
    LET tail  == SubSeq(b.data, start + 1, Len(b.data))
        ahead == Ahead(b, NameLength + 1 - Len(tail))
        close == NextPlaceholder(ahead, 1)
        read  == [_readDataFromCacheOrContent(b, Len(ahead)) EXCEPT
                    !.cache = SubSeq(ahead, close + 1, Len(ahead)) \o @]
    IN  [buffer |-> IF ahead = <<>> THEN b ELSE read,
         found |-> close # 0, name |-> tail \o SubSeq(ahead, 1, close - 1)]

\* The loop, from the placeholder at or behind i.  After a replacement it goes
\* on at the same place.
RECURSIVE ProcessFrom(_, _)
ProcessFrom(b, i) ==
    LET start == NextPlaceholder(b.data, i)
        end   == NextPlaceholder(b.data, start + 1)
        name  == SubSeq(b.data, start + 1, IF end - 1 - start > NameLength THEN start + NameLength ELSE end - 1)
        ahead == ReadAhead(b, start)
    IN  CASE start = 0 -> b
          [] start # 0 /\ end = start + 1 -> ProcessFrom(Unescape(b, end), start + 1)
          [] start # 0 /\ end > start + 1 ->
               ProcessFrom(Substitute(b, start, end, _callback(name)), start)
          [] start # 0 /\ end = 0 /\ Len(b.data) - start + 1 < NameLength + 2 /\ ahead.found ->
               IF ahead.name = <<>> THEN ProcessFrom(ahead.buffer, start)
               ELSE ProcessFrom(Substitute(ahead.buffer, start, Len(b.data), _callback(ahead.name)), start)
          [] start # 0 /\ end = 0 /\ Len(b.data) - start + 1 < NameLength + 2 /\ ~ahead.found ->
               ProcessFrom(ahead.buffer, start + 1)
          [] OTHER -> ProcessFrom(b, start + 1)

_fillBufferAndProcessTemplates(b, room) ==
    ProcessFrom(Refill([b EXCEPT !.room = room, !.data = <<>>], room), 1)

\* AsyncAbstractResponse::_ack() with chunks: until one is empty.  The first
\* one shares its buffer with the head.
RECURSIVE Chunks(_, _, _)
Chunks(b, room, then) ==
    LET filled == _fillBufferAndProcessTemplates(b, room)
        rest   == Chunks(filled, then, then)
    IN  IF filled.data = <<>> THEN [out |-> <<>>, lost |-> filled.lost]
        ELSE [out |-> filled.data \o rest.out, lost |-> filled.lost \/ rest.lost]

-----------------------------------------------------------------------------
(* What a page with templates is                                             *)

RECURSIVE Expanded(_)
Expanded(text) ==
    LET start == NextPlaceholder(text, 1)
        end   == NextPlaceholder(text, start + 1)
        rest  == Expanded(SubSeq(text, end + 1, Len(text)))
        plain == SubSeq(text, 1, start - 1)
    IN  CASE start = 0 \/ end = 0 -> text
          [] start # 0 /\ end = start + 1 -> plain \o <<TEMPLATE_PLACEHOLDER>> \o rest
          [] OTHER -> plain \o _callback(SubSeq(text, start + 1, end - 1)) \o rest

Escapes(text) == \E i \in 1 .. Len(text) - 1 : text[i] = "%" /\ text[i + 1] = "%"

\* However a page is cut by the buffers it goes out in, and wherever its
\* placeholders and values meet their ends: what is sent is the page with each
\* name replaced.  Escaped signs are right in a buffer that holds the page;
\* where the two come apart the second one is lost and the first read again.
PageIsExpanded(text, first, then) ==
    LET sent == Chunks([Fresh EXCEPT !.content = text], first, then)
    IN  ~sent.lost /\ (Escapes(text) => Len(text) <= first) => sent.out = Expanded(text)
=============================================================================
