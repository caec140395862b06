----------------------------- MODULE ReplyStream -----------------------------
(***************************************************************************)
(* What a TerminalServer promises to the sender of each request, seen from *)
(* outside: the stages 1-6 of the comment at the head of                   *)
(* libraries/protocol/src/server.ts and the messages that go with them.    *)
(* Requests move independently; one step of the server may move several.   *)
(***************************************************************************)
EXTENDS Sequences

CONSTANTS Requests, Refusals, Failures

VARIABLES
    phase,   \* phase[r]: how far the conversation about r has come
    says     \* says[r]: the messages the last step sent about r

vars == <<phase, says>>

Init ==
    /\ phase = [r \in Requests |-> "fresh"]
    /\ says = [r \in Requests |-> <<>>]

Goes(r, from, to, messages) ==
    /\ phase[r] = from
    /\ phase'[r] = to
    /\ says'[r] = messages

\* A refused request gets one error and is closed at once.
Refused(r) == \E code \in Refusals : Goes(r, "fresh", "closed", <<code, "done">>)

\* An admitted one waits, hearing heartbeats, or starts without waiting.
Admitted(r) ==
    \/ Goes(r, "fresh", "waiting", <<>>)
    \/ Goes(r, "fresh", "running", <<"in_processing">>)

Waits(r) ==
    \/ Goes(r, "waiting", "waiting", <<"heartbeat">>)
    \/ Goes(r, "waiting", "running", <<"in_processing">>)
    \/ Goes(r, "waiting", "cancelled", <<>>)

\* The handler answers; the stream is closed once, after at most one failure.
Runs(r) ==
    \/ \E kind \in {"frame", "res"} : Goes(r, "running", "running", <<kind>>)
    \/ Goes(r, "running", "closed", <<"done">>)
    \/ \E code \in Failures : Goes(r, "running", "closed", <<code, "done">>)

\* A request may start and be closed within the removal of its service, after
\* what its handler says at once.
Answers == {<<>>, <<"frame">>, <<"res">>, <<"frame", "res">>}

Rushes(r) ==
    \E answer \in Answers :
        \/ Goes(r, "waiting", "closed", <<"in_processing">> \o answer \o <<"done">>)
        \/ \E code \in Failures :
            Goes(r, "waiting", "closed", <<"in_processing">> \o answer \o <<code, "done">>)

Rests(r) == phase'[r] = phase[r] /\ says'[r] = <<>>

Next ==
    \A r \in Requests :
        Refused(r) \/ Admitted(r) \/ Waits(r) \/ Runs(r) \/ Rushes(r) \/ Rests(r)

Spec == Init /\ [][Next]_vars
=============================================================================
