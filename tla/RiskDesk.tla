------------------------------- MODULE RiskDesk -------------------------------
(***************************************************************************)
(* Risk behind one producer: the surface in the runner's mailbox becomes   *)
(* the newest value of its cache slot (risk/application/surface_cache.py), *)
(* and the report is computed from that slot at once                       *)
(* (risk/application/compute_report.py), its freshness judged on the age   *)
(* of the snapshot (risk/domain/freshness_policy.py).                      *)
(***************************************************************************)
EXTENDS CalibrationCycle

CONSTANTS
  Book,           \* expiry instants of the positions
  Warn, Reject    \* warn_seconds and reject_seconds

ASSUME DeskAssumption ==
  /\ Book \subseteq Nat
  /\ Warn \in Nat \ {0} /\ Reject \in Nat /\ Warn < Reject

VARIABLES
  cache,     \* LastValueSurfaceProvider: the producer's slot, or NoSurface
  report,    \* the last RiskReport written, or NoReport
  refused    \* (ghost) id of the last surface the handler raised on, 0 if none

deskVars == <<cache, report, refused>>
vars == <<cycleVars, deskVars>>

Decisions == {"NORMAL", "DEGRADED", "REJECT"}
Report == [src : Nat, ts : Nat, freshness : Decisions, lines : SUBSET Book, data : Nat]
                                                               \* data (ghost)
NoReport == [src |-> 0, ts |-> 0, freshness |-> "REJECT", lines |-> {}, data |-> 0]

DeskInit == Init /\ cache = NoSurface /\ report = NoReport /\ refused = 0

\* evaluate(): both boundaries are DEGRADED, a negative age is NORMAL.
Freshness(ts) ==
  IF now - ts < Warn THEN "NORMAL" ELSE IF now - ts <= Reject THEN "DEGRADED" ELSE "REJECT"

\* SurfaceView.__post_init__: every expiry strictly after the instant described.
Viewable(surface) == \A e \in surface.rows : e > surface.ts

\* _value(): the positions that have not expired by the snapshot's instant.
Lines(surface) == {p \in Book : p > surface.ts}

\* compute(): stamped no earlier than its input; too old, or with nothing left to value,
\* it says there is no valid surface.
ReportOn(surface) ==
  LET valued == Freshness(surface.ts) # "REJECT" /\ Lines(surface) # {}
  IN  [src |-> surface.src,
       ts |-> IF now >= surface.ts THEN now ELSE surface.ts,
       freshness |-> IF valued THEN Freshness(surface.ts) ELSE "REJECT",
       lines |-> IF valued THEN Lines(surface) ELSE {},
       data |-> surface.data]

\* The report handler, in one step of the loop: cache the surface, value the book.  A
\* surface without a view raises before either, and the runner counts it.
TakeSurface ==
  /\ outbox # NoSurface
  /\ outbox' = NoSurface
  /\ IF Viewable(outbox)
       THEN /\ cache' = outbox
            /\ report' = ReportOn(outbox)
            /\ UNCHANGED refused
       ELSE /\ refused' = outbox.src
            /\ UNCHANGED <<cache, report>>
  /\ UNCHANGED <<now, stamp, lastId, inbox, task, warm, lastGood, answer>>

Next == TakeSurface \/ (CycleNext /\ UNCHANGED deskVars)

Spec == DeskInit /\ [][Next]_vars

FairSpec == Spec /\ WF_vars(StartFit /\ UNCHANGED deskVars)
                 /\ WF_vars(Finish /\ UNCHANGED deskVars)
                 /\ WF_vars(TakeSurface)

--------------------------------------------------------------------------------
(* Properties.                                                             *)

TypeOK ==
  /\ CycleTypeOK
  /\ cache \in Surface \cup {NoSurface}
  /\ report \in Report
  /\ refused \in Nat

\* A rejected report is not revived by republishing: only the surface of a snapshot the
\* report had not seen can make it valid again (freshness_policy.py on ADR-006).
RecoveryNeedsNewSurface ==
  [][ report.freshness = "REJECT" /\ report'.freshness # "REJECT" =>
        report'.src > report.src ]_vars

\* The slot never goes back to an older fit than it held, although refused cycles republish
\* old surfaces and the mailbox drops some: "last value wins" is also newest wins.
CacheMovesForward == [][ cache'.src >= cache.src ]_vars

\* The age a report is judged on is no less than the age of the data it rests on: a market
\* that stopped quoting is reported as such ("an operator ... concludes the market data
\* stopped", freshness_policy.py).
NormalMeansRecentData ==
  report.freshness = "NORMAL" => report.ts - report.data < Warn

\* A surface that reaches Risk gets a report: one that cannot be translated is a market
\* condition, "so the use case is where it is handled" (risk/application/acl.py).
EverySurfaceReported == refused = 0

\* What makes them inductive: two surfaces of one fit describe one instant, wherever each
\* of them waits; the report is about the cached one; and a rejection is for good, the age
\* of a surface only growing.
SameInstant(one, other) ==
  one # NoSurface /\ other # NoSurface /\ one.src = other.src => one.ts = other.ts

SurfacesAgree ==
  /\ cache.src <= lastGood.src
  /\ outbox # NoSurface => cache.src <= outbox.src
  /\ SameInstant(lastGood, cache) /\ SameInstant(outbox, cache) /\ SameInstant(lastGood, outbox)

RejectedForGood ==
  /\ report.src = cache.src
  /\ report.freshness = "REJECT" /\ cache # NoSurface =>
       now - cache.ts > Reject \/ Lines(cache) = {}

DeskInv == CycleInv /\ TypeOK /\ SurfacesAgree /\ RejectedForGood
================================================================================
