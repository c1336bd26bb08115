----------------------------- MODULE ScaledTrace -----------------------------
(***************************************************************************)
(* _scale_events of k8s_sim/experiment.py: how a sweep makes a lighter or  *)
(* heavier trace of a recorded one, by leaving events out or by adding     *)
(* copies shifted a little.  What it returns is what the event loop is     *)
(* given, which relies on its order and on its pod ids.                    *)
(*                                                                         *)
(* An event is known by the recorded event it stems from and by the number *)
(* of the copy, of which its pod id is made; pod and duration are those of *)
(* the recorded one.  Time is counted in ticks, Second of them making     *)
(* one second.  Factors are fractions that a float represents exactly.     *)
(* Names Name_Bug: see EventRuntime.                                       *)
(***************************************************************************)
EXTENDS Integers, Sequences, FiniteSets, FiniteSetsExt, Ordering

CONSTANTS
  Factors,    \* scale factors, as <<numerator, denominator>>
  Second,     \* ticks in a second
  None        \* Python's None

VARIABLES
  base,     \* the recorded submit times, sorted; whoever scales sets them
  factor,   \* the scale factor; never changes
  out,      \* the list that will be returned
  copies,   \* copies made so far, the loop's i
  pc        \* "start", "duplicate", "done" or "raised"

arguments == <<base, factor>>
vars == <<arguments, out, copies, pc>>

Init ==
  /\ factor \in Factors
  /\ out = <<>>
  /\ copies = 0
  /\ pc = "start"

-----------------------------------------------------------------------------
Event(of, copy, time) == [of |-> of, copy |-> copy, submit_time |-> time]
Original(k) == Event(k, None, base[k])
Events == [k \in DOMAIN base |-> Original(k)]

Larger == factor[1] > factor[2]
Smaller == factor[1] < factor[2]

Unscaled ==
  /\ pc = "start" /\ ~Larger /\ ~Smaller
  /\ out' = Events
  /\ pc' = "done"
  /\ UNCHANGED <<arguments, copies>>

\* At least one is kept.
KeptNumber_MayBeNone == (Len(base) * factor[1]) \div factor[2]
KeptNumber == Max({1, (Len(base) * factor[1]) \div factor[2]})

\* Any of the events, without replacement; np.sort restores their order.
Subsample ==
  /\ pc = "start" /\ Smaller /\ KeptNumber <= Len(base)
  /\ \E idx \in kSubset(KeptNumber, DOMAIN base) :
       LET kept == Ascending(idx)
       IN  out' = [k \in DOMAIN kept |-> Original(kept[k])]
  /\ pc' = "done"
  /\ UNCHANGED <<arguments, copies>>

\* rng.choice takes no more than there are.
SubsampleRaises ==
  /\ pc = "start" /\ Smaller /\ KeptNumber > Len(base)
  /\ pc' = "raised"
  /\ UNCHANGED <<arguments, out, copies>>

StartCopying ==
  /\ pc = "start" /\ Larger
  /\ out' = Events
  /\ pc' = "duplicate"
  /\ UNCHANGED <<arguments, copies>>

ExtraNeeded == (Len(base) * (factor[1] - factor[2])) \div factor[2]

Source(i) == (i % Len(base)) + 1

\* rng.uniform(0, 1.0)
Duplicate ==
  /\ pc = "duplicate" /\ copies < ExtraNeeded
  /\ \E jitter \in 0 .. Second - 1 :
       out' = Append(out, Event(Source(copies), copies, base[Source(copies)] + jitter))
  /\ copies' = copies + 1
  /\ UNCHANGED <<arguments, pc>>

Times == [k \in DOMAIN out |-> out[k].submit_time]

\* Equal times are swapped.
SortedOut_Unstable ==
  LET latestFirst == SortedBy(out, [k \in DOMAIN out |-> 0 - Times[k]])
  IN  [k \in DOMAIN out |-> latestFirst[Len(out) + 1 - k]]

\* list.sort, which is stable.
SortedOut == SortedBy(out, Times)

SortOut ==
  /\ pc = "duplicate" /\ copies = ExtraNeeded
  /\ out' = SortedOut
  /\ pc' = "done"
  /\ UNCHANGED <<arguments, copies>>

Next == Unscaled \/ Subsample \/ SubsampleRaises \/ StartCopying \/ Duplicate \/ SortOut
=============================================================================
