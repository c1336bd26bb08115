---------------------------- MODULE SweepTraces ----------------------------
(***************************************************************************)
(* From a table of jobs or a file to the trace a run is given: a loader of *)
(* GputraceBridge, then _scale_events (experiment.py:93-96) on the events  *)
(* it returns.  The sweep reads files; README.md:92-105 and                *)
(* gputrace_bridge.py:87-89 describe the use of tables.                    *)
(*                                                                         *)
(* The properties are about the whole way.  A scaled event stems from a    *)
(* recorded one, and that from a job or a row.                             *)
(***************************************************************************)
EXTENDS GputraceBridge

CONSTANTS
  Factors,    \* scale factors, as <<numerator, denominator>>
  Second,     \* ticks in a second
  None        \* Python's None

ASSUME SweepTracesAssumption ==
  /\ Factors \subseteq (Nat \ {0}) \X (Nat \ {0})
  /\ Second \in Nat \ {0}
  /\ None \notin Nat

VARIABLES
  factor,               \* the scale factor; never changes
  out, copies, scaling  \* of ScaledTrace: out, copies, pc

scaleVars == <<factor, out, copies, scaling>>
sweepVars == <<vars, scaleVars>>

base == [k \in DOMAIN events |-> events[k].submit_time]

S == INSTANCE ScaledTrace WITH pc <- scaling

SweepInit == Init /\ S!Init

Load == Next /\ UNCHANGED scaleVars

Scale ==
  /\ Loaded
  /\ UNCHANGED vars
  /\ S!Next

SweepNext == Load \/ Scale

SweepSpec == SweepInit /\ [][SweepNext]_sweepVars

-----------------------------------------------------------------------------
(* Properties.                                                             *)

Scaled == scaling = "done"

\* The pod id of a scaled event: that of the recorded one, or f"{src.pod.pod_id}_dup{i}".
IdOf(e) ==
  LET id == events[e.of].pod_id
  IN  IF e.copy = None THEN id ELSE [id EXCEPT !.dups = Append(@, e.copy)]

\* Scaling gives the event loop what it requires of its input: every event stems
\* from a row, events are sorted by submit_time, and no pod id comes twice that
\* does not come from the trace: of two events with one id, which belong to
\* different rows, one at least is recorded; so two copies never share an id, even
\* if the rows they were made of do.  Nothing is left only of nothing, and only of
\* nothing can no sample be taken (event_runtime.py:131, 153-156;
\* experiment.py:57-62, 68-80).
Runnable ==
  /\ scaling = "raised" => events = <<>>
  /\ Scaled =>
       /\ out = <<>> => events = <<>>
       /\ \A k \in DOMAIN out : out[k].of \in DOMAIN events
       /\ \A k, l \in DOMAIN out : k < l =>
            /\ out[k].submit_time <= out[l].submit_time
            /\ IdOf(out[k]) = IdOf(out[l]) =>
                 out[k].of # out[l].of /\ None \in {out[k].copy, out[l].copy}

\* A copy never precedes the event it was made of, and of two jobs submitted
\* at one instant the one listed first in the table is still offered first:
\* the loop, which breaks ties by position, treats them as in the recorded
\* trace, after two sorts and a subsample (gputrace_bridge.py:112,
\* experiment.py:61, 79).
OriginalsKeepTheirTurn ==
  Scaled =>
    \A k, l \in DOMAIN out :
      /\ out[k].of = out[l].of /\ out[k].copy = None /\ out[l].copy # None => k < l
      /\ out[k].copy = None /\ out[l].copy = None
           /\ out[k].submit_time = out[l].submit_time /\ k < l =>
             events[out[k].of].job < events[out[l].of].job
=============================================================================
