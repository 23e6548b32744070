----------------------------- MODULE ReplayBuffer -----------------------------
(***************************************************************************)
(* The memory of the neural producer                                       *)
(* (neural_surface/domain/replay_buffer.py): recent observations, held per *)
(* cell of the moneyness-tenor plane, bounded in number and in age.  Pure: *)
(* every operation is a function of a buffer, [cell -> sequence of         *)
(* samples in the order they entered], an empty cell being an absent one.  *)
(***************************************************************************)
EXTENDS Integers, FiniteSets, SequencesExt

CONSTANTS
  Cells,         \* the cells of StratificationSpec
  Capacity,      \* capacity_per_cell
  Horizon        \* max_age_seconds

\* StratificationSpec.__post_init__
ASSUME BufferAssumption ==
  /\ IsFiniteSet(Cells) /\ Cells # {}
  /\ Capacity \in Nat \ {0}
  /\ Horizon \in Nat \ {0}

(* An observation: where it lies, the venue instant it was made at, and the snapshot   *)
(* that brought it.                                                                    *)
Sample == [cell : Cells, at : Int, src : Nat]

Empty == [c \in Cells |-> <<>>]

\* The earliest inserted of the oldest by ts_observed.
Oldest(held) ==
  CHOOSE i \in DOMAIN held :
    \A j \in DOMAIN held : held[i].at < held[j].at \/ (held[i].at = held[j].at /\ i <= j)

\* add(): a full cell gives up its own oldest, and the newcomer always enters.
Add(buffer, sample) ==
  LET held == buffer[sample.cell]
      room == IF Len(held) >= Capacity THEN RemoveAt(held, Oldest(held)) ELSE held
  IN  [buffer EXCEPT ![sample.cell] = Append(room, sample)]

\* extend(): one at a time, in the order given.
Extend(buffer, samples) ==
  LET after[n \in 0..Len(samples)] ==
        IF n = 0 THEN buffer ELSE Add(after[n - 1], samples[n])
  IN  after[Len(samples)]

\* The comprehension of prune(): strictly older than the horizon goes, a sample of the
\* future stays.
Recent(held, now) ==
  LET kept[n \in 0..Len(held)] ==
        IF n = 0 THEN <<>>
        ELSE IF now - held[n].at <= Horizon THEN Append(kept[n - 1], held[n])
        ELSE kept[n - 1]
  IN  kept[Len(held)]

Prune(buffer, now) == [c \in Cells |-> Recent(buffer[c], now)]

Held(buffer) == UNION {Range(buffer[c]) : c \in Cells}

Places(buffer) == UNION {{<<c, i>> : i \in DOMAIN buffer[c]} : c \in Cells}
Taken(draw, c) == Cardinality({place \in draw : place[1] = c})

\* What sample() promises: no place twice, all that was asked for or all there is, and no
\* cell ahead of another by more than one unless that other has nothing left.
Draws(buffer, size) ==
  {draw \in SUBSET Places(buffer) :
     /\ \/ Cardinality(draw) = size
        \/ Cardinality(draw) < size /\ draw = Places(buffer)
     /\ \A c, d \in Cells :
          Taken(draw, c) < Len(buffer[c]) => Taken(draw, d) <= Taken(draw, c) + 1}
================================================================================
