------------------------------ MODULE StatePoll ------------------------------
(***************************************************************************)
(* What the screen's poll of GET /api/demo/state does behind the limiter:  *)
(* it asks whether Evolt is reachable (Reachable, demo/evolt.go).  The     *)
(* answer is cached with the time of the probe it came from.  A poll that  *)
(* finds the time too old refreshes it and then probes, outside the mutex, *)
(* so that the others are served the old answer meanwhile.                 *)
(*                                                                         *)
(* A probe ends with whatever Evolt answers, or with "unreachable" when it *)
(* times out or the screen that polled goes away, which cancels it.        *)
(***************************************************************************)
EXTENDS RateLimiter

CONSTANTS
  Fresh,   \* how long a probe is not repeated
  Timeout  \* how long a probe takes at most

ASSUME ProbeAssumption == Timeout \in Nat /\ Fresh \in Nat /\ Timeout < Fresh

VARIABLES
  checked,  \* when the last probe began
  ok,       \* the answer of the last probe that ended
  began,    \* history: when that probe began
  since     \* history: when the probe a poll runs began

probe == <<checked, ok, began, since>>
pvars == <<rvars, probe>>

PollInit ==
  /\ Init
  /\ checked = -Fresh
  /\ ok = FALSE
  /\ began = -Fresh
  /\ since = [q \in Procs |-> 0]

\* A probe runs into its timeout.
PollTick ==
  /\ Tick
  /\ \A q \in Procs : pc[q] = "probe" => clock < since[q] + Timeout
  /\ UNCHANGED probe

\* The answer of a poll that finds the time recent enough is ok as it is.
Cached(q) ==
  /\ clock - checked < Fresh
  /\ Serve(q)
  /\ UNCHANGED probe

\* Mutant: the time is refreshed when the probe has ended.
StampLater(q) ==
  /\ pc[q] = "serve"
  /\ clock - checked >= Fresh
  /\ since' = [since EXCEPT ![q] = clock]
  /\ pc' = [pc EXCEPT ![q] = "probe"]
  /\ UNCHANGED <<clock, buckets, caller, stamp, window, checked, ok, began>>

\* A poll that finds it too old refreshes it first and probes then.  (A URL that
\* cannot be made a request of, an error of the configuration, is left out.)
StartProbe(q) ==
  /\ pc[q] = "serve"
  /\ clock - checked >= Fresh
  /\ checked' = clock
  /\ since' = [since EXCEPT ![q] = clock]
  /\ pc' = [pc EXCEPT ![q] = "probe"]
  /\ UNCHANGED <<clock, buckets, caller, stamp, window, ok, began>>

\* Mutant: a probe that is cut off leaves the answer as it is.
KeepAnswer(q) ==
  /\ pc[q] = "probe"
  /\ \/ \E answer \in BOOLEAN : ok' = answer /\ began' = since[q]
     \/ UNCHANGED <<ok, began>>
  /\ since' = [since EXCEPT ![q] = 0]
  /\ pc' = [pc EXCEPT ![q] = "idle"]
  /\ UNCHANGED <<clock, buckets, caller, stamp, window, checked>>

EndProbe(q) ==
  /\ pc[q] = "probe"
  /\ \E answer \in BOOLEAN : ok' = answer
  /\ began' = since[q]
  /\ since' = [since EXCEPT ![q] = 0]
  /\ pc' = [pc EXCEPT ![q] = "idle"]
  /\ UNCHANGED <<clock, buckets, caller, stamp, window, checked>>

PollNext ==
  \/ PollTick
  \/ OpenWindow /\ UNCHANGED probe
  \/ \E q \in Procs :
       \/ (Arrive(q) \/ Allow(q)) /\ UNCHANGED probe
       \/ Cached(q) \/ StartProbe(q) \/ EndProbe(q)

PollSpec == PollInit /\ [][PollNext]_pvars

-----------------------------------------------------------------------------
(* Properties. *)

\* "One request pays for the refresh": no two polls probe at the same time,
\* however many find the answer too old.
OneProbe == \A q, r \in Procs : pc[q] = "probe" /\ pc[r] = "probe" => q = r

\* A poll is served an answer older than Fresh only while another is probing,
\* which is for Timeout at most.  (How old it is then is not bounded: after a
\* pause between polls it is as old as the pause, or was never asked for.)
OldOnlyWhileProbing ==
  [][\A q \in Procs :
       (pc[q] = "serve" /\ pc'[q] = "idle") =>
         clock - began < Fresh \/ \E r \in Procs : pc[r] = "probe"]_pvars
=============================================================================
