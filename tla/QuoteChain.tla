------------------------------- MODULE QuoteChain -------------------------------
(***************************************************************************)
(* The chain of one market (market_data/domain/quote_chain.py): the last   *)
(* observation of every contract, the universe believed live, the forward  *)
(* of every expiry and the mids the next move is measured against.         *)
(*                                                                         *)
(* Data: a mid is an integer, 0 when the observation has none worth        *)
(* publishing (_usable_mid); a forward only matters by being known.  Which *)
(* published quotes carry a flag depends on the clock and on neighbours:   *)
(* any of them may.                                                        *)
(***************************************************************************)
EXTENDS SnapshotPolicy, FiniteSets

CONSTANTS
  Contracts,      \* every InstrumentId the venue may ever list
  Foreign,        \* those of another underlying
  ExpiryOf,       \* expiry instant of each contract
  Mids            \* mids an observation may carry; 0 stands for no usable mid

ASSUME ChainAssumption ==
  /\ IsFiniteSet(Contracts)
  /\ Foreign \subseteq Contracts
  /\ ExpiryOf \in [Contracts -> Nat]
  /\ Mids \subseteq Nat

VARIABLES
  mids,        \* _observations: the mid of each contract, or Unseen
  chainLive,   \* _live
  forwards,    \* _forwards: the expiries whose forward is known
  baseline     \* _baseline_mids: 0 for a contract that has none

chainVars == <<mids, chainLive, forwards, baseline>>

Unseen == -1

Expiries == {ExpiryOf[c] : c \in Contracts}
Observed == {c \in Contracts : mids[c] # Unseen}

ChainInit ==
  /\ mids = [c \in Contracts |-> Unseen]
  /\ chainLive = {}
  /\ forwards = {}
  /\ baseline = [c \in Contracts |-> 0]

Unregistered(c, mid, hasForward) ==
  /\ c \notin Foreign
  /\ mids' = [mids EXCEPT ![c] = mid]
  /\ forwards' = IF hasForward THEN forwards \cup {ExpiryOf[c]} ELSE forwards
  /\ UNCHANGED chainLive

\* apply(): record the update, register its contract, keep the forward it carries.
ApplyQuote(c, mid, hasForward) ==
  /\ c \notin Foreign
  /\ mids' = [mids EXCEPT ![c] = mid]
  /\ chainLive' = chainLive \cup {c}
  /\ forwards' = IF hasForward THEN forwards \cup {ExpiryOf[c]} ELSE forwards

BaselineOutlives(inventory) ==
  /\ inventory \cap Foreign = {}
  /\ chainLive' = inventory
  /\ mids' = [c \in Contracts |-> IF c \in inventory THEN mids[c] ELSE Unseen]
  /\ forwards' = forwards \cap {ExpiryOf[c] : c \in inventory}
  /\ UNCHANGED baseline

\* set_live_instruments(): the inventory replaces the universe, and what died is
\* forgotten: its observation, its baseline, and the forward of an expiry left empty.
SetLive(inventory) ==
  /\ inventory \cap Foreign = {}
  /\ chainLive' = inventory
  /\ mids' = [c \in Contracts |-> IF c \in inventory THEN mids[c] ELSE Unseen]
  /\ baseline' = [c \in Contracts |->
                    IF c \in Observed \ inventory THEN 0 ELSE baseline[c]]
  /\ forwards' = forwards \cap {ExpiryOf[c] : c \in inventory}

\* reset_move_baseline(), over the mids m.
UsableMids(m) == [c \in Contracts |-> IF m[c] > 0 THEN m[c] ELSE 0]

Material(from, to) ==
  (IF to >= from THEN to - from ELSE from - to) * MoveDen >= MoveNum * from

MovedSinceLastUpdate(m, base) ==
  \E c \in Contracts : mids[c] > 0 /\ m[c] > 0 /\ Material(mids[c], m[c])

\* max_relative_move_since_baseline() >= the threshold; the maximum starts at 0.0,
\* so a threshold of zero is met by a chain with no baseline at all.
Moved(m, base) ==
  \/ MoveNum = 0
  \/ \E c \in Contracts : base[c] > 0 /\ m[c] > 0 /\ Material(base[c], m[c])

\* _build_slices(): the quotes a snapshot at `now` carries -- usable, unexpired, and
\* of an expiry whose forward is known.
Published(m, fwd, now) ==
  {c \in Contracts : m[c] > 0 /\ ExpiryOf[c] > now /\ ExpiryOf[c] \in fwd}

\* _stats_from() at `now`, and what ChainStats.__post_init__ demands of its figures; the
\* admissible quotes are some of the published ones.
Known(live) == Cardinality(live)
Total(m) == Cardinality({c \in Contracts : m[c] # Unseen})
Covered(m, fwd, now) == Cardinality(Published(m, fwd, now))

Constructible(m, live, fwd, now) ==
  /\ Covered(m, fwd, now) <= Known(live)
  /\ Covered(m, fwd, now) <= Total(m)
  /\ Total(m) <= Known(live)
================================================================================
