----------------------------- MODULE FileEditor ------------------------------
(***************************************************************************)
(* SPIFFSEditor of the web server library: files are uploaded in pieces,   *)
(* created, deleted and listed by several requests at a time, which share  *)
(* the handler and the file system.  Texts are sequences of characters.    *)
(***************************************************************************)
EXTENDS Naturals, FiniteSets, SequencesExt

CONSTANTS
    Names,       \* names of files
    Editors,     \* requests under way
    UploadPieces,      \* in an upload
    Room,        \* pieces the file system has room for
    MaxLength,   \* SPIFFS_MAXLENGTH_FILEPATH
    MaxEdits     \* bound on the requests made

EditorAssumption == UploadPieces \in Nat \ {0} /\ Room \in Nat /\ MaxLength \in Nat \ {0, 1}

VARIABLES
    account,        \* what the handler was made with: "none", a "name" or "both"
    disk,           \* the files: a function from some names to their pieces
    authenticated,  \* _authenticated of the handler
    edits,          \* for each request what it is, or NoEdit
    reply,          \* the last request answered, with its code
    made,           \* requests made
    \* history
    disturbed       \* uploads whose file another request has touched, or that ran out of room

editorVars == <<account, disk, authenticated, edits, reply, made, disturbed>>

NoEdit == [method |-> "none"]

\* A piece is the number of the request that has written it, and its own: none
\* has written what is there at first.
Old == <<0, 0>>

EditorInit ==
    /\ account \in {"none", "name", "both"}
    /\ disk \in UNION {[names -> {<<Old>>}] : names \in SUBSET Names}
    /\ authenticated = FALSE /\ edits = [r \in Editors |-> NoEdit]
    /\ reply = NoEdit /\ made = 0 /\ disturbed = {}

-----------------------------------------------------------------------------
(* The list of excluded files                                                *)

\* matchWild() goes back to behind the last star and tries one character more.
matchWild(pattern, testee) ==
    LET At(s, i) == IF i \in DOMAIN s THEN s[i] ELSE "end"
        run[p \in Nat, t \in Nat, star \in Nat, from \in Nat] ==
            IF t > Len(testee) THEN \A i \in p .. Len(pattern) : pattern[i] = "*"
            ELSE IF At(pattern, p) \in {"?", testee[t]} THEN run[p + 1, t + 1, star, from]
            ELSE IF At(pattern, p) = "*" THEN run[p + 1, t, p, t]
            ELSE IF star > 0 THEN run[star + 1, from + 1, star, from + 1]
            ELSE FALSE
    IN  run[1, 1, 0, 0]

\* loadExcludeList(): a carriage return is left out, a line has MaxLength
\* characters with its end, the last of which is overwritten, and an empty one
\* ends the list.
loadExcludeList(text) ==
    LET Take(reading, c) ==
            LET line == IF c = "CR" THEN reading.line ELSE Append(reading.line, c)
                over == c \in {"LF", "end"} \/ Len(line) >= MaxLength
            IN  CASE ~reading.open \/ ~over -> [reading EXCEPT !.line = line]
                  [] reading.open /\ over /\ reading.overflowed ->
                       [reading EXCEPT !.line = <<>>, !.overflowed = c # "LF"]
                  [] reading.open /\ over /\ ~reading.overflowed ->
                       [reading EXCEPT !.line = <<>>, !.overflowed = Len(line) >= MaxLength,
                           !.open = Len(line) > 1,
                           !.items = IF Len(line) > 1 THEN <<Front(line)>> \o @ ELSE @]
        start == [line |-> <<>>, overflowed |-> FALSE, open |-> TRUE, items |-> <<>>]
        last  == FoldLeft(Take, start, text)
    IN  (IF last.open /\ text # <<>> /\ Last(text) # "LF" THEN Take(last, "end") ELSE last).items

isExcluded(text, name) == \E item \in ToSet(loadExcludeList(text)) : matchWild(item, name)

-----------------------------------------------------------------------------
(* Requests; login tells whether one has the right name and password.        *)

Allowed(login) == account # "both" \/ login

Put(files, name, pieces) == [n \in DOMAIN files \cup {name} |-> IF n = name THEN pieces ELSE files[n]]

HasRoom(files) == MapThenSumSet(LAMBDA n : Len(files[n]), DOMAIN files) < Room

Uploading(name) == {r \in Editors : edits[r].method = "UPLOAD" /\ edits[r].name = name}

Begin(r, name, login) ==
    /\ edits[r] = NoEdit /\ made < MaxEdits /\ made' = made + 1
    /\ edits' = [edits EXCEPT ![r] = [method |-> "UPLOAD", name |-> name, login |-> login, sent |-> 0,
                                      tempFile |-> FALSE, id |-> made + 1]]
    /\ UNCHANGED <<account, disk, authenticated, reply, disturbed>>

\* handleUpload() with the next piece: the first opens the file, which empties
\* it; the last closes it.
handleUpload(r) ==
    LET e      == edits[r]
        opens  == e.sent = 0 /\ (account = "none" \/ e.login)
        opened == IF opens THEN Put(disk, e.name, <<>>) ELSE disk
        writes == (authenticated \/ opens) /\ (e.tempFile \/ opens)
        fits   == HasRoom(opened) /\ e.name \in DOMAIN opened
    IN  /\ e.method = "UPLOAD" /\ e.sent < UploadPieces
        /\ authenticated' = (authenticated \/ opens)
        /\ disk' = IF writes /\ fits
                   THEN Put(opened, e.name, Append(opened[e.name], <<e.id, e.sent + 1>>)) ELSE opened
        /\ edits' = [edits EXCEPT ![r].sent = @ + 1,
                                  ![r].tempFile = (@ \/ opens) /\ e.sent + 1 < UploadPieces]
        /\ disturbed' = disturbed \cup (IF opens \/ writes THEN Uploading(e.name) \ {r} ELSE {})
                                  \cup (IF writes /\ ~fits THEN {r} ELSE {})
        /\ UNCHANGED <<account, reply, made>>

AnswerWith(r, e, code, files) ==
    /\ reply' = [method |-> e.method, code |-> code, login |-> e.login, disturbed |-> r \in disturbed,
                 id |-> e.id, content |-> IF e.name \in DOMAIN files THEN files[e.name] ELSE <<>>]
    /\ disk' = files

\* handleRequest() behind the last piece: the file is there, whoever wrote it.
handlePost(r) ==
    LET e == edits[r]
    IN  /\ e.method = "UPLOAD" /\ e.sent = UploadPieces
        /\ AnswerWith(r, e, IF ~Allowed(e.login) THEN 401
                            ELSE IF e.name \in DOMAIN disk THEN 200 ELSE 500, disk)
        /\ edits' = [edits EXCEPT ![r] = NoEdit] /\ disturbed' = disturbed \ {r}
        /\ UNCHANGED <<account, authenticated, made>>

\* The other requests are handled at once: PUT creates a file of one byte, and
\* GET of a file that is not there is left to other handlers.
handleRequest(r, method, name, login) ==
    LET e == [method |-> method, name |-> name, login |-> login, id |-> made + 1]
        there == name \in DOMAIN disk
        touched == Uploading(name)
    IN  /\ edits[r] = NoEdit /\ made < MaxEdits /\ made' = made + 1
        /\ \/ /\ ~Allowed(login) /\ (method = "GET" => there)
              /\ AnswerWith(r, e, 401, disk) /\ UNCHANGED disturbed
           \/ /\ Allowed(login) /\ method = "GET" /\ there
              /\ AnswerWith(r, e, 200, disk) /\ UNCHANGED disturbed
           \/ /\ Allowed(login) /\ method = "DELETE"
              /\ AnswerWith(r, e, 200, [n \in DOMAIN disk \ {name} |-> disk[n]])
              /\ disturbed' = disturbed \cup touched
           \/ /\ Allowed(login) /\ method = "PUT" /\ there
              /\ AnswerWith(r, e, 200, disk) /\ UNCHANGED disturbed
           \/ /\ Allowed(login) /\ method = "PUT" /\ ~there
              /\ IF HasRoom(disk) THEN AnswerWith(r, e, 200, Put(disk, name, <<(<<e.id, 0>>)>>))
                 ELSE AnswerWith(r, e, 500, disk)
              /\ disturbed' = disturbed \cup touched
        /\ UNCHANGED <<account, authenticated, edits>>

EditorNext ==
    \E r \in Editors :
        \/ handleUpload(r) \/ handlePost(r)
        \/ \E name \in Names, login \in BOOLEAN :
              Begin(r, name, login)
              \/ \E method \in {"GET", "DELETE", "PUT"} : handleRequest(r, method, name, login)

-----------------------------------------------------------------------------
(* Properties                                                                *)

\* An upload that is confirmed is in the file, whole and in order, unless
\* another request has touched the file or there was no room; one that is
\* refused has left no piece there.
UploadsAreWhole ==
    reply.method = "UPLOAD" =>
        /\ reply.code = 200 /\ (account = "none" \/ reply.login) /\ ~reply.disturbed =>
             reply.content = [i \in 1 .. UploadPieces |-> <<reply.id, i>>]
        /\ ~(account = "none" \/ reply.login) =>
             \A i \in DOMAIN reply.content : reply.content[i][1] # reply.id

\* A star stands for any text, a question mark for one character.
StarsMatch(pattern, testee) ==
    LET match[p \in Nat, t \in Nat] ==
            IF p > Len(pattern) THEN t > Len(testee)
            ELSE IF pattern[p] = "*" THEN match[p + 1, t] \/ (t <= Len(testee) /\ match[p, t + 1])
            ELSE t <= Len(testee) /\ pattern[p] \in {"?", testee[t]} /\ match[p + 1, t + 1]
    IN  matchWild(pattern, testee) <=> match[1, 1]

\* The list of excluded files has the lines before an empty one, cut where the
\* buffer ends; the line behind one that fits it exactly is lost.
LinesAreExcluded(text) ==
    LET lines == FoldLeft(LAMBDA ls, c : CASE c = "LF" -> Append(ls, <<>>)
                                           [] c = "CR" -> ls
                                           [] OTHER -> [ls EXCEPT ![Len(ls)] = Append(@, c)],
                          <<<<>>>>, text)
        from[i \in Nat] ==
            IF i > Len(lines) \/ lines[i] = <<>> THEN <<>>
            ELSE <<SubSeq(lines[i], 1, IF Len(lines[i]) < MaxLength THEN Len(lines[i]) ELSE MaxLength - 1)>>
                 \o from[IF Len(lines[i]) = MaxLength - 1 THEN i + 2 ELSE i + 1]
    IN  loadExcludeList(text) = Reverse(from[1])
=============================================================================
