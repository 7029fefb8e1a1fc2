----------------------------- MODULE AdminPages ------------------------------
(***************************************************************************)
(* The administration pages in the owner's browser: the form for the       *)
(* network the device joins, with its calls to the device under way, and   *)
(* the form for MQTT, from what is loaded into it to what it sends.        *)
(*                                                                         *)
(* A call of api/index.js that fails is only logged: its promise is never  *)
(* settled, so that neither then() nor catch() of the page runs.           *)
(***************************************************************************)
EXTENDS Naturals, SequencesExt

CONSTANTS
    SSIDs,        \* the networks there are, in alphabetical order
    Passwords,    \* what the owner may type
    MaxPresses    \* bound on what the owner does

VARIABLES
    form,      \* the fields of the STA page
    scans,     \* calls of getSTAConfig() under way
    timers,    \* timeouts of 1 ms, in order
    posts,     \* calls of saveSTAConfig() under way, in order
    stored,    \* the credentials the device has stored
    presses,
    \* history
    submitted, \* what the form showed whenever it was submitted
    refreshed, \* the list was asked for again
    failed     \* a call was not answered

adminVars == <<form, scans, timers, posts, stored, presses, submitted, refreshed, failed>>

Null == "null"    \* what a FormData makes of null, and of undefined
Undefined == "undefined"
Unset == [ssid |-> "", password |-> ""]

-----------------------------------------------------------------------------
(* The STA page.  It asks for the list when it is mounted.                   *)

AdminInit ==
    /\ form = [toggle |-> TRUE, select_sta_ssid |-> Null, manual_sta_ssid |-> Null,
               sta_password |-> Null, disable_submit |-> TRUE, isLoadAPList |-> TRUE,
               ap_list |-> {}, ssid |-> ""]
    /\ scans = 1 /\ timers = <<>> /\ posts = <<>> /\ stored = Unset
    /\ presses = 0 /\ submitted = {} /\ refreshed = FALSE /\ failed = FALSE

\* Nobody types or presses anything in the millisecond before a submission.
Press(changed) ==
    /\ presses < MaxPresses /\ presses' = presses + 1
    /\ \A i \in DOMAIN timers : timers[i].kind # "submit"
    /\ form' = changed

reloadAP ==
    /\ Press([form EXCEPT !.isLoadAPList = TRUE, !.disable_submit = TRUE])
    /\ scans' = scans + 1 /\ refreshed' = TRUE
    /\ UNCHANGED <<timers, posts, stored, submitted, failed>>

\* The list of networks and the password are disabled together with the button.
FillIn ==
    /\ \/ form.toggle /\ ~form.disable_submit
            /\ \E s \in form.ap_list : Press([form EXCEPT !.select_sta_ssid = s])
       \/ ~form.toggle /\ \E s \in ToSet(SSIDs) : Press([form EXCEPT !.manual_sta_ssid = s])
       \/ ~form.disable_submit /\ \E p \in Passwords : Press([form EXCEPT !.sta_password = p])
       \/ Press([form EXCEPT !.toggle = ~@])
    /\ UNCHANGED <<scans, timers, posts, stored, submitted, refreshed, failed>>

Shown == IF form.toggle THEN form.select_sta_ssid ELSE form.manual_sta_ssid

onSubmit ==
    /\ ~form.disable_submit
    /\ Press([form EXCEPT !.disable_submit = TRUE, !.ssid = Shown])
    /\ timers' = Append(timers, [kind |-> "submit"])
    /\ submitted' = submitted \cup {[ssid |-> Shown, password |-> form.sta_password]}
    /\ UNCHANGED <<scans, posts, stored, refreshed, failed>>

ScanAnswered(list) ==
    /\ scans > 0 /\ scans' = scans - 1
    /\ timers' = Append(timers, [kind |-> "list", json |-> list])
    /\ UNCHANGED <<form, posts, stored, presses, submitted, refreshed, failed>>

ScanFails ==
    /\ scans > 0 /\ scans' = scans - 1 /\ failed' = TRUE
    /\ UNCHANGED <<form, timers, posts, stored, presses, submitted, refreshed>>

\* The list grows with every answer; its first network is selected again, and
\* the password is cleared.
Listed ==
    /\ timers # <<>> /\ Head(timers).kind = "list" /\ timers' = Tail(timers)
    /\ LET list == form.ap_list \cup Head(timers).json
           output == SelectSeq(SSIDs, LAMBDA s : s \in list)
       IN  form' = [form EXCEPT !.ap_list = list, !.sta_password = "",
                                !.select_sta_ssid = IF output = <<>> THEN Undefined ELSE Head(output),
                                !.isLoadAPList = FALSE, !.disable_submit = FALSE]
    /\ UNCHANGED <<scans, posts, stored, presses, submitted, refreshed, failed>>

\* saveSTAConfig()
Post ==
    /\ timers # <<>> /\ Head(timers).kind = "submit" /\ timers' = Tail(timers)
    /\ posts' = Append(posts, [ssid |-> form.ssid, password |-> form.sta_password])
    /\ UNCHANGED <<form, scans, stored, presses, submitted, refreshed, failed>>

\* The device stores the credentials, and answers only if it is connected by
\* then; otherwise it sleeps.
Saved ==
    /\ posts # <<>> /\ posts' = Tail(posts) /\ stored' = Head(posts)
    /\ \/ form' = [form EXCEPT !.disable_submit = FALSE] /\ UNCHANGED failed
       \/ failed' = TRUE /\ UNCHANGED form
    /\ UNCHANGED <<scans, timers, presses, submitted, refreshed>>

PostFails ==
    /\ posts # <<>> /\ posts' = Tail(posts) /\ failed' = TRUE
    /\ UNCHANGED <<form, scans, timers, stored, presses, submitted, refreshed>>

AdminNext ==
    \/ reloadAP \/ FillIn \/ onSubmit \/ ScanFails \/ Listed \/ Post \/ Saved \/ PostFails
    \/ \E list \in SUBSET ToSet(SSIDs) : ScanAnswered(list)

-----------------------------------------------------------------------------
(* The MQTT page.  A text is a word, "" or Undefined; lwt is a text or, as   *)
(* "false", the value false.  others are the fields that are not looked at.  *)

Or(text, default) == IF text \in {"", Undefined} THEN default ELSE text

\* hash is random, another one at each place.
Initially(hash) ==
    [hash |-> hash, clientId |-> "clientId-" \o hash, deviceName |-> hash, prefix |-> "",
     lwt |-> "0", others |-> "defaults"]

mounted(page, json, hash) ==
    [page EXCEPT !.clientId = Or(json.clientId, "clientId-" \o hash),
                 !.deviceName = Or(json.deviceName, hash),
                 !.prefix = json.prefix, !.lwt = json.lwt, !.others = json.others]

onSubmitMqtt(page) ==
    [clientId |-> Or(page.clientId, "clientId-" \o page.hash), deviceName |-> Or(page.deviceName, page.hash),
     prefix |-> Or(page.prefix, ""), lwt |-> IF page.lwt = "false" THEN "0" ELSE "1",
     others |-> page.others]

\* After a submission, from what has been stored.
fetchConfig(page, json, hash) ==
    [page EXCEPT !.clientId = Or(json.clientId, hash), !.deviceName = Or(json.deviceName, hash),
                 !.prefix = json.prefix, !.lwt = json.lwt, !.others = json.others]

-----------------------------------------------------------------------------
(* Properties                                                                *)

\* The device stores what the form showed when it was submitted, with the
\* password cleared if a list came in between; without a Refresh there is one
\* submission at a time; and the button stays disabled only for a call under
\* way or one that was not answered.
FormIsKept ==
    LET submissions == Len(posts) + Cardinality({i \in DOMAIN timers : timers[i].kind = "submit"})
    IN  /\ \A c \in ToSet(posts) \cup {stored} :
              c # Unset => \E s \in submitted : c.ssid = s.ssid /\ c.password \in {s.password, ""}
        /\ submissions > 1 => refreshed
        /\ form.disable_submit => scans > 0 \/ timers # <<>> \/ posts # <<>> \/ failed

\* What has been stored by one visit is what another sends when it is submitted
\* as it was loaded, except that it turns the will on; a field that is there is
\* never replaced, and no identifier or name is empty.
StoredAgain(json, hash, again) ==
    LET sent   == onSubmitMqtt(mounted(Initially(hash), json, again))
        after  == onSubmitMqtt(fetchConfig(mounted(Initially(hash), json, again), sent, again))
        resent == onSubmitMqtt(mounted(Initially(again), sent, hash))
    IN  /\ resent = [sent EXCEPT !.lwt = "1"] /\ after = resent
        /\ \A f \in {"clientId", "deviceName", "prefix"} :
              json[f] \notin {"", Undefined} => sent[f] = json[f]
        /\ sent.clientId # "" /\ sent.deviceName # "" /\ sent.others = json.others
        /\ (sent.lwt = "0") <=> (json.lwt = "false")
=============================================================================
