------------------------------ MODULE ConfigFile ------------------------------
(***************************************************************************)
(* The configuration manager: fields that are collected in memory and      *)
(* written, together with those the file already has, when they are        *)
(* committed; and saveConfig(), which commits the parameters of a request. *)
(* The file is opened for writing, which empties it, before it is written. *)
(***************************************************************************)
EXTENDS Integers, FiniteSets, SequencesExt

CONSTANTS
    Fields,         \* names of fields
    FieldValues,
    MaxSaves        \* bound: requests and restarts

ConfigAssumption == MaxSaves \in Nat /\ FieldValues # {}

Missing == [is |-> "missing"]
Broken  == [is |-> "broken"]      \* no document, such as an empty file
File(f) == [is |-> "file", fields |-> f]

VARIABLES
    file,
    items,       \* the fields in memory
    commit,      \* "down", "idle", or "writing", with the file open
    document,        \* the fields load_config() has read
    saves,
    wanted,      \* the fields completed requests have sent
    spoiled      \* a restart has met the file open, or it was no document from the start

configVars == <<file, items, commit, document, saves, wanted, spoiled>>

None == [k \in {} |-> 0]

ConfigInit ==
    /\ file \in {Missing, Broken, File(None)}
    /\ items = None /\ commit = "down" /\ document = None /\ saves = 0
    /\ wanted = None /\ spoiled = (file = Broken)

\* The fields of b, and those of a that b has not.
Over(a, b) == [k \in DOMAIN a \cup DOMAIN b |-> IF k \in DOMAIN b THEN b[k] ELSE a[k]]

\* init(): a file that is not there is written without fields, one that is there
\* is not looked at.
init ==
    /\ commit = "down" /\ items' = None
    /\ IF file = Missing THEN commit' = "writing" /\ document' = None /\ file' = Broken
       ELSE commit' = "idle" /\ UNCHANGED <<document, file>>
    /\ UNCHANGED <<saves, wanted, spoiled>>

add_field(fields, param) == Over(fields, [k \in {param.name} |-> param.value])

\* saveConfig(): every parameter of the body is added, then all is committed:
\* load_config() reads the file, which is opened for writing if it is a
\* document.  If not, nothing is written and the answer is the same.
saveConfig(params) ==
    /\ commit = "idle" /\ saves < MaxSaves
    /\ saves' = saves + 1
    /\ items' = FoldLeft(add_field, items, SelectSeq(params, LAMBDA p : p.post))
    /\ IF file.is = "file"
       THEN commit' = "writing" /\ document' = file.fields /\ file' = Broken
       ELSE UNCHANGED <<commit, document, file>>
    /\ UNCHANGED <<wanted, spoiled>>

PrintedItems == File(items)    \* mutant: what the file had is forgotten

\* The fields are set in the document, and it is printed.
Printed == File(Over(document, items))

CommitEnds ==
    /\ commit = "writing" /\ commit' = "idle"
    /\ file' = Printed
    /\ wanted' = Over(wanted, items)
    /\ UNCHANGED <<items, document, saves, spoiled>>

Restart ==
    /\ commit # "down" /\ saves < MaxSaves
    /\ saves' = saves + 1
    /\ commit' = "down" /\ spoiled' = (spoiled \/ commit = "writing")
    /\ UNCHANGED <<file, items, document, wanted>>

ConfigNext ==
    \/ init \/ CommitEnds \/ Restart
    \/ \E names \in SUBSET Fields, value \in FieldValues, post \in BOOLEAN :
          saveConfig([i \in 1 .. Cardinality(names) |->
                         [name |-> SetToSeq(names)[i], value |-> value, post |-> post]])

\* Every field has the value the last completed request gave it, over any number
\* of requests and restarts, as long as no restart meets the file open; then the
\* file is no document any more, and no later request brings it back.
ConfigIsKept ==
    /\ ~spoiled /\ commit = "idle" => file.is = "file"
    /\ file.is = "file" => \A k \in DOMAIN wanted : k \in DOMAIN file.fields /\ file.fields[k] = wanted[k]
    /\ spoiled => file = Broken
=============================================================================
