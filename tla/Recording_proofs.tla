---------------------------- MODULE Recording_proofs ----------------------------
(***************************************************************************)
(* Proofs about what the commands of entrypoints/cli.py do with a market.  *)
(*                                                                         *)
(* Recording, for any contracts, file length and clock: the file is ahead  *)
(* of the loop by at most the one update it has not taken, and a replay    *)
(* rebuilds the chain of the session at every point the two share.         *)
(*                                                                         *)
(* Startup, for any files, flags and recordings: an engine that starts     *)
(* values every position, records or replays one market at most, and       *)
(* compares exactly what it runs.                                          *)
(***************************************************************************)
EXTENDS Recording, Startup, WellFoundedInduction, TLAPS

USE RecordingAssumption

--------------------------------------------------------------------------------
(* The invariant: what the file holds, what the loop has of it, and what a *)
(* replay has read back.                                                   *)

Line ==
  [kind : {"header"}, universe : SUBSET Contracts]
    \cup [kind : {"quote"}, contract : Contracts, at : Nat]
    \cup {Torn}
QuoteLine == {l \in Line : l.kind = "quote"}

RecordTypeOK ==
  /\ disk \in Seq(Line)
  /\ session \in {"opening", "streaming", "over"}
  /\ now \in Nat
  /\ held = <<>> \/ \E q \in QuoteLine : held = <<q>>
  /\ live \in SUBSET Contracts
  /\ latest \in [Contracts -> Nat]
  /\ consumed \in Seq(QuoteLine)
  /\ moved \in BOOLEAN
  /\ replay \in {"none", "streaming", "ended", "failed", "refused"}
  /\ line \in 0..Len(disk)
  /\ stopped \in BOOLEAN
  /\ liveAgain \in SUBSET Contracts
  /\ latestAgain \in [Contracts -> Nat]
  /\ replayed \in Seq(QuoteLine)

\* s begins t, place by place.
Begins(s, t) == Len(s) <= Len(t) /\ \A i \in 1..Len(s) : s[i] = t[i]

\* upTo holds the quotes of every prefix of the file, and each begins those of the file.
Marks(upTo, lines) ==
  upTo = [n \in 0..Len(lines) |->
            IF n = 0 THEN <<>>
            ELSE IF lines[n].kind = "quote" THEN Append(upTo[n - 1], lines[n])
            ELSE upTo[n - 1]]
Reading(lines) ==
  LET upTo == QuotesAlong(lines) IN
    /\ Marks(upTo, lines)
    /\ \A other : Marks(other, lines) => other = upTo
    /\ \A n \in 0..Len(lines) :
         upTo[n] \in Seq(QuoteLine) /\ Begins(upTo[n], upTo[Len(lines)])

\* A chain that has taken the updates s from nothing: each contract's last quote.
LastOf(c, s, when) ==
  \E i \in 1..Len(s) :
    /\ s[i].contract = c /\ when = s[i].at
    /\ \A j \in 1..Len(s) : j > i => s[j].contract # c
NoneOf(c, s) == \A i \in 1..Len(s) : s[i].contract # c
Folded(quotes, s) == \A c \in Contracts : (NoneOf(c, s) /\ quotes[c] = 0) \/ LastOf(c, s, quotes[c])
Named(s) == {s[i].contract : i \in 1..Len(s)}

\* What the loop has is what was written, but for the one update it has not taken.
Written ==
  /\ Quotes = consumed \o held
  /\ session = "opening" => disk = <<>> /\ held = <<>>
  /\ session = "streaming" => disk # <<>> /\ disk[1].kind = "header"

\* Until a rediscovery moves the universe, the chain is the first header and the updates taken.
Chained ==
  /\ session = "opening" => live = {} /\ ~moved
  /\ \A c \in Contracts : c \notin live => latest[c] = 0
  /\ ~moved => Folded(latest, consumed)
  /\ ~moved /\ disk # <<>> /\ disk[1].kind = "header"
       => live = disk[1].universe \cup Named(consumed)

\* The replayed chain is the first header and the quotes read so far.
ReadBack ==
  /\ replay # "none" => session = "over"
  /\ replay = "none" => replayed = <<>> /\ line = 0
  /\ Folded(latestAgain, replayed)
  /\ Begins(replayed, Quotes)
  /\ replay = "streaming" => replayed = QuotesAlong(disk)[line]
  /\ replay \in {"streaming", "ended", "failed"} =>
       /\ disk # <<>> /\ disk[1].kind = "header"
       /\ liveAgain = disk[1].universe \cup Named(replayed)

RecordInv == RecordTypeOK /\ Reading(disk) /\ Written /\ Chained /\ ReadBack

--------------------------------------------------------------------------------
(* Sequences.                                                              *)

LEMMA AppendFacts ==
  ASSUME NEW S, NEW s \in Seq(S), NEW e \in S
  PROVE  /\ Append(s, e) \in Seq(S) /\ Len(Append(s, e)) = Len(s) + 1
         /\ Append(s, e)[Len(s) + 1] = e
         /\ \A i \in 1..Len(s) : Append(s, e)[i] = s[i]
         /\ Begins(s, Append(s, e))
         /\ Append(s, e) # <<>>
         /\ s # <<>> => Append(s, e)[1] = s[1]
<1> DEFINE t == Append(s, e)
<1>1. /\ t \in Seq(S) /\ Len(t) = Len(s) + 1 /\ Len(s) \in Nat
      /\ t[Len(s) + 1] = e
      /\ \A i \in 1..Len(s) : t[i] = s[i]
  OBVIOUS
<1> HIDE DEF t
<1>2. Begins(s, t) /\ t # <<>>
  BY <1>1 DEF Begins
<1>3. ASSUME s # <<>> PROVE t[1] = s[1]
  <2>1. 1 \in 1..Len(s)
    BY <1>3
  <2>2. QED
    BY <1>1, <2>1
<1>4. QED
  BY <1>1, <1>2, <1>3 DEF t

LEMMA BeginsAll ==
  ASSUME NEW S, NEW s \in Seq(S)
  PROVE  Begins(s, s) /\ Begins(<<>>, s)
BY DEF Begins

LEMMA BeginsOn ==
  ASSUME NEW S, NEW s \in Seq(S), NEW t \in Seq(S), NEW u \in Seq(S), Begins(s, t), Begins(t, u)
  PROVE  Begins(s, u)
BY DEF Begins

LEMMA BeginsSame ==
  ASSUME NEW S, NEW s \in Seq(S), NEW t \in Seq(S), NEW u \in Seq(S),
         Begins(s, u), Begins(t, u), Len(s) = Len(t)
  PROVE  s = t
BY DEF Begins

LEMMA BeginsIsPrefix ==
  ASSUME NEW S, NEW s \in Seq(S), NEW t \in Seq(S), Begins(s, t)
  PROVE  IsPrefix(s, t)
<1>1. Len(s) <= Len(t) /\ Len(s) \in Nat /\ Len(t) \in Nat
  BY DEF Begins
<1>2. SubSeq(s, 1, Len(s)) \in Seq(S) /\ SubSeq(t, 1, Len(s)) \in Seq(S)
  BY <1>1
<1>3. /\ Len(SubSeq(s, 1, Len(s))) = Len(s) /\ Len(SubSeq(t, 1, Len(s))) = Len(s)
      /\ \A i \in 1..Len(s) : SubSeq(s, 1, Len(s))[i] = s[i] /\ SubSeq(t, 1, Len(s))[i] = t[i]
  BY <1>1
<1>4. SubSeq(s, 1, Len(s)) = SubSeq(t, 1, Len(s))
  BY <1>2, <1>3 DEF Begins
<1>5. QED
  BY <1>1, <1>4 DEF IsPrefix

--------------------------------------------------------------------------------
(* What reading a file line by line gives.                                 *)

\* A function that reads as QuotesAlong does, and the only one, is QuotesAlong.
LEMMA OnlyReading ==
  ASSUME NEW lines, NEW upTo, Marks(upTo, lines),
         \A other : Marks(other, lines) => other = upTo
  PROVE  QuotesAlong(lines) = upTo
<1> DEFINE chosen == CHOOSE f : Marks(f, lines)
<1>1. Marks(chosen, lines)
  OBVIOUS
<1>2. QuotesAlong(lines) = chosen
  BY Zenon DEF QuotesAlong, Marks
<1>3. QED
  BY <1>1, <1>2

LEMMA ReadingNothing == Reading(<<>>)
<1> DEFINE upTo == [n \in 0..0 |-> <<>>]
<1>1. Len(<<>>) = 0
  OBVIOUS
<1>2. Marks(upTo, <<>>)
  BY <1>1 DEF Marks
<1>3. ASSUME NEW other, Marks(other, <<>>) PROVE other = upTo
  BY <1>1, <1>3 DEF Marks
<1>4. QuotesAlong(<<>>) = upTo
  BY <1>2, <1>3, OnlyReading
<1>5. \A n \in 0..0 : upTo[n] \in Seq(QuoteLine) /\ Begins(upTo[n], upTo[0])
  BY DEF Begins
<1> HIDE DEF upTo
<1>6. QED
  BY <1>1, <1>2, <1>3, <1>4, <1>5 DEF Reading

\* A line more leaves what was read of the lines before it, and adds itself if it is a quote.
LEMMA ReadingOn ==
  ASSUME NEW lines \in Seq(Line), NEW e \in Line, Reading(lines)
  PROVE  LET old == QuotesAlong(lines)
             new == QuotesAlong(Append(lines, e))
         IN  /\ Reading(Append(lines, e))
             /\ \A n \in 0..Len(lines) : new[n] = old[n]
             /\ new[Len(lines) + 1] = IF e.kind = "quote" THEN Append(old[Len(lines)], e)
                                      ELSE old[Len(lines)]
<1> DEFINE old == QuotesAlong(lines)
           N == Len(lines)
           more == Append(lines, e)
           last == IF e.kind = "quote" THEN Append(old[N], e) ELSE old[N]
           new == [n \in 0..(N + 1) |-> IF n = N + 1 THEN last ELSE old[n]]
<1>1. /\ N \in Nat /\ more \in Seq(Line) /\ Len(more) = N + 1 /\ more[N + 1] = e
      /\ \A i \in 1..N : more[i] = lines[i]
  BY AppendFacts
<1>2. /\ Marks(old, lines) /\ \A other : Marks(other, lines) => other = old
      /\ \A n \in 0..N : old[n] \in Seq(QuoteLine) /\ Begins(old[n], old[N])
  BY DEF Reading
<1>3. \A n \in 0..N : old[n] = IF n = 0 THEN <<>>
                               ELSE IF lines[n].kind = "quote" THEN Append(old[n - 1], lines[n])
                               ELSE old[n - 1]
  BY <1>2 DEF Marks
<1>4. last \in Seq(QuoteLine) /\ Begins(old[N], last) /\ Begins(last, last)
  <2>1. old[N] \in Seq(QuoteLine) /\ Begins(old[N], old[N])
    BY <1>1, <1>2
  <2>2. CASE e.kind = "quote"
    <3>1. e \in QuoteLine
      BY <2>2 DEF QuoteLine
    <3> DEFINE read == old[N]
    <3> HIDE DEF old
    <3>2. read \in Seq(QuoteLine)
      BY <2>1
    <3> HIDE DEF read
    <3>3. Append(read, e) \in Seq(QuoteLine) /\ Begins(read, Append(read, e))
      BY <3>1, <3>2, AppendFacts
    <3>4. Begins(Append(read, e), Append(read, e))
      BY <3>3, BeginsAll
    <3>5. QED
      BY <2>2, <3>3, <3>4 DEF read
  <2>3. CASE e.kind # "quote"
    BY <2>1, <2>3
  <2>4. QED
    BY <2>2, <2>3
<1> HIDE DEF old, last
<1>5. /\ \A n \in 0..N : new[n] = old[n]
      /\ new[N + 1] = last
  BY <1>1
<1>6. \A n \in 0..(N + 1) :
        new[n] = IF n = 0 THEN <<>>
                 ELSE IF more[n].kind = "quote" THEN Append(new[n - 1], more[n])
                 ELSE new[n - 1]
  <2> SUFFICES ASSUME NEW n \in 0..(N + 1)
               PROVE  new[n] = IF n = 0 THEN <<>>
                               ELSE IF more[n].kind = "quote" THEN Append(new[n - 1], more[n])
                               ELSE new[n - 1]
    OBVIOUS
  <2> HIDE DEF new, more
  <2>1. CASE n = N + 1
    <3>1. new[n] = last /\ n # 0 /\ new[n - 1] = old[N] /\ more[n] = e
      BY <1>1, <1>5, <2>1
    <3>2. QED
      BY <3>1 DEF last
  <2>2. CASE n = 0
    BY <1>1, <1>3, <1>5, <2>2
  <2>3. CASE n \in 1..N
    <3>1. new[n] = old[n] /\ n \in 0..N /\ n # 0 /\ new[n - 1] = old[n - 1] /\ more[n] = lines[n]
      BY <1>1, <1>5, <2>3
    <3>2. QED
      BY <1>3, <3>1
  <2>4. QED
    BY <1>1, <2>1, <2>2, <2>3
<1>7. Marks(new, more)
  <2> HIDE DEF more
  <2>1. QED
    BY <1>1, <1>6 DEF Marks
<1>8. ASSUME NEW other, Marks(other, more) PROVE other = new
  <2> HIDE DEF more
  <2> DEFINE cut == [n \in 0..N |-> other[n]]
  <2>1. /\ other = [n \in 0..(N + 1) |-> other[n]]
        /\ \A n \in 0..(N + 1) :
             other[n] = IF n = 0 THEN <<>>
                        ELSE IF more[n].kind = "quote" THEN Append(other[n - 1], more[n])
                        ELSE other[n - 1]
    BY <1>1, <1>8 DEF Marks
  <2>2. \A n \in 0..N : cut[n] = other[n]
    OBVIOUS
  <2>3. \A n \in 0..N :
          cut[n] = IF n = 0 THEN <<>>
                   ELSE IF lines[n].kind = "quote" THEN Append(cut[n - 1], lines[n])
                   ELSE cut[n - 1]
    <3> SUFFICES ASSUME NEW n \in 0..N, n # 0
                 PROVE  cut[n] = IF lines[n].kind = "quote" THEN Append(cut[n - 1], lines[n])
                                 ELSE cut[n - 1]
      BY <1>1, <2>1
    <3>1. n \in 0..(N + 1) /\ n \in 1..N /\ n - 1 \in 0..N
      BY <1>1
    <3>2. cut[n] = other[n] /\ cut[n - 1] = other[n - 1] /\ more[n] = lines[n]
      BY <1>1, <3>1
    <3> HIDE DEF cut
    <3>3. QED
      BY <2>1, <3>1, <3>2
  <2>4. cut = [n \in 0..N |-> cut[n]]
    OBVIOUS
  <2>5. Marks(cut, lines)
    <3> HIDE DEF cut
    <3>1. QED
      BY <2>3, <2>4 DEF Marks
  <2>6. cut = old
    BY <1>2, <2>5
  <2>7. other[N + 1] = last
    <3>1. N + 1 \in 0..(N + 1) /\ N + 1 # 0 /\ (N + 1) - 1 = N /\ N \in 0..N
      BY <1>1
    <3>2. other[N] = old[N]
      BY <2>2, <2>6, <3>1
    <3>3. other[N + 1] = IF more[N + 1].kind = "quote" THEN Append(other[(N + 1) - 1], more[N + 1])
                         ELSE other[(N + 1) - 1]
      BY <2>1, <3>1
    <3>4. QED
      BY <1>1, <3>1, <3>2, <3>3 DEF last
  <2>8. \A n \in 0..(N + 1) : other[n] = new[n]
    <3> SUFFICES ASSUME NEW n \in 0..(N + 1) PROVE other[n] = new[n]
      OBVIOUS
    <3> HIDE DEF new
    <3>1. n = N + 1 \/ n \in 0..N
      BY <1>1
    <3>2. n \in 0..N => other[n] = old[n]
      BY <2>2, <2>6
    <3>3. QED
      BY <1>5, <2>7, <3>1, <3>2
  <2>9. QED
    BY <2>1, <2>8
<1>9. QuotesAlong(more) = new
  <2> HIDE DEF new, more
  <2>1. QED
    BY <1>7, <1>8, OnlyReading
<1>10. \A n \in 0..(N + 1) : new[n] \in Seq(QuoteLine) /\ Begins(new[n], new[N + 1])
  <2> SUFFICES ASSUME NEW n \in 0..(N + 1)
               PROVE  new[n] \in Seq(QuoteLine) /\ Begins(new[n], new[N + 1])
    OBVIOUS
  <2> HIDE DEF new
  <2>1. CASE n = N + 1
    BY <1>4, <1>5, <2>1
  <2>2. CASE n \in 0..N
    <3>1. /\ new[n] = old[n] /\ old[n] \in Seq(QuoteLine) /\ Begins(old[n], old[N])
          /\ old[N] \in Seq(QuoteLine)
      BY <1>1, <1>2, <1>5, <2>2
    <3>2. QED
      BY <1>4, <1>5, <3>1, BeginsOn
  <2>3. QED
    BY <1>1, <2>1, <2>2
<1>11. Reading(more)
  <2> HIDE DEF new, more
  <2>1. QED
    BY <1>1, <1>7, <1>8, <1>9, <1>10 DEF Reading
<1>12. QED
  <2> HIDE DEF new
  <2>1. QED
    BY <1>5, <1>9, <1>11 DEF old, last

--------------------------------------------------------------------------------
(* What taking an update does to a chain.                                  *)

LEMMA QuoteFacts ==
  ASSUME NEW q \in QuoteLine
  PROVE  q \in Line /\ q.kind = "quote" /\ q.contract \in Contracts /\ q.at \in Nat
BY DEF QuoteLine, Line, Torn

LEMMA NamedTaken ==
  ASSUME NEW s \in Seq(QuoteLine), NEW q \in QuoteLine
  PROVE  Named(Append(s, q)) = Named(s) \cup {q.contract}
<1> DEFINE t == Append(s, q)
<1>1. /\ Len(t) = Len(s) + 1 /\ t[Len(s) + 1] = q /\ Len(s) \in Nat
      /\ \A i \in 1..Len(s) : t[i] = s[i]
  BY AppendFacts
<1> HIDE DEF t
<1>2. ASSUME NEW i \in 1..Len(t) PROVE t[i].contract \in Named(s) \cup {q.contract}
  <2>1. i \in 1..Len(s) \/ i = Len(s) + 1
    BY <1>1
  <2>2. QED
    BY <1>1, <2>1 DEF Named
<1>3. ASSUME NEW i \in 1..Len(s) PROVE s[i].contract \in Named(t)
  <2>1. i \in 1..Len(t) /\ t[i] = s[i]
    BY <1>1
  <2>2. QED
    BY <2>1 DEF Named
<1>4. q.contract \in Named(t)
  <2>1. Len(s) + 1 \in 1..Len(t)
    BY <1>1
  <2>2. QED
    BY <1>1, <2>1 DEF Named
<1>5. Named(t) \subseteq Named(s) \cup {q.contract}
  BY <1>2 DEF Named
<1>6. Named(s) \cup {q.contract} \subseteq Named(t)
  BY <1>3, <1>4 DEF Named
<1>7. QED
  BY <1>5, <1>6 DEF t

LEMMA FoldedNothing == Folded([c \in Contracts |-> 0], <<>>)
BY DEF Folded, NoneOf

LEMMA FoldedTaken ==
  ASSUME NEW s \in Seq(QuoteLine), NEW q \in QuoteLine,
         NEW quotes \in [Contracts -> Nat], Folded(quotes, s)
  PROVE  Folded([quotes EXCEPT ![q.contract] = q.at], Append(s, q))
<1> DEFINE t == Append(s, q)
           after == [quotes EXCEPT ![q.contract] = q.at]
<1>1. /\ Len(t) = Len(s) + 1 /\ t[Len(s) + 1] = q /\ Len(s) \in Nat
      /\ \A i \in 1..Len(s) : t[i] = s[i]
  BY AppendFacts
<1>2. after[q.contract] = q.at /\ \A c \in Contracts : c # q.contract => after[c] = quotes[c]
  BY QuoteFacts
<1> HIDE DEF t, after
<1>3. SUFFICES ASSUME NEW c \in Contracts
               PROVE  (NoneOf(c, t) /\ after[c] = 0) \/ LastOf(c, t, after[c])
  BY DEF Folded, t, after
<1>4. CASE c = q.contract
  <2>1. /\ Len(s) + 1 \in 1..Len(t)
        /\ t[Len(s) + 1].contract = c /\ after[c] = t[Len(s) + 1].at
        /\ \A j \in 1..Len(t) : ~(j > Len(s) + 1)
    BY <1>1, <1>2, <1>4
  <2>2. LastOf(c, t, after[c])
    BY <2>1 DEF LastOf
  <2>3. QED
    BY <2>2
<1>5. CASE c # q.contract /\ NoneOf(c, s) /\ quotes[c] = 0
  <2>1. ASSUME NEW i \in 1..Len(t) PROVE t[i].contract # c
    <3>1. i \in 1..Len(s) \/ i = Len(s) + 1
      BY <1>1
    <3>2. QED
      BY <1>1, <1>5, <3>1 DEF NoneOf
  <2>2. QED
    BY <1>2, <1>5, <2>1 DEF NoneOf
<1>6. CASE c # q.contract /\ LastOf(c, s, quotes[c])
  <2>1. PICK i \in 1..Len(s) : /\ s[i].contract = c /\ quotes[c] = s[i].at
                               /\ \A j \in 1..Len(s) : j > i => s[j].contract # c
    BY <1>6 DEF LastOf
  <2>2. i \in 1..Len(t) /\ t[i].contract = c /\ after[c] = t[i].at
    BY <1>1, <1>2, <1>6, <2>1
  <2>3. ASSUME NEW j \in 1..Len(t), j > i PROVE t[j].contract # c
    <3>1. j \in 1..Len(s) \/ j = Len(s) + 1
      BY <1>1
    <3>2. QED
      BY <1>1, <1>6, <2>1, <2>3, <3>1
  <2>4. LastOf(c, t, after[c])
    BY <2>2, <2>3 DEF LastOf
  <2>5. QED
    BY <2>4
<1>7. QED
  BY <1>4, <1>5, <1>6 DEF Folded

\* Two chains that took the same updates hold the same quotes.
LEMMA FoldedSame ==
  ASSUME NEW s \in Seq(QuoteLine), NEW f \in [Contracts -> Nat], NEW g \in [Contracts -> Nat],
         Folded(f, s), Folded(g, s)
  PROVE  f = g
<1>1. ASSUME NEW c \in Contracts PROVE f[c] = g[c]
  <2>1. CASE NoneOf(c, s)
    <3>1. \A when : ~LastOf(c, s, when)
      BY <2>1 DEF NoneOf, LastOf
    <3>2. QED
      BY <3>1 DEF Folded
  <2>2. CASE ~NoneOf(c, s)
    <3>1. LastOf(c, s, f[c]) /\ LastOf(c, s, g[c])
      BY <2>2 DEF Folded
    <3>2. PICK i \in 1..Len(s) : /\ s[i].contract = c /\ f[c] = s[i].at
                                 /\ \A j \in 1..Len(s) : j > i => s[j].contract # c
      BY <3>1 DEF LastOf
    <3>3. PICK k \in 1..Len(s) : /\ s[k].contract = c /\ g[c] = s[k].at
                                 /\ \A j \in 1..Len(s) : j > k => s[j].contract # c
      BY <3>1 DEF LastOf
    <3>4. i = k
      <4>1. i \in Int /\ k \in Int /\ ~(i > k) /\ ~(k > i)
        BY <3>2, <3>3
      <4>2. QED
        BY <4>1
    <3>5. QED
      BY <3>2, <3>3, <3>4
  <2>3. QED
    BY <2>1, <2>2
<1>2. QED
  BY <1>1

--------------------------------------------------------------------------------
(* RecordInv is inductive.                                                 *)

LEMMA RecordInitInv == Init => RecordInv
<1> SUFFICES ASSUME Init PROVE RecordInv
  OBVIOUS
<1>1. /\ disk = <<>> /\ held = <<>> /\ consumed = <<>>
      /\ replayed = <<>> /\ replay = "none" /\ line = 0
  BY DEF Init
<1>2. RecordTypeOK
  <2>1. disk \in Seq(Line) /\ consumed \in Seq(QuoteLine) /\ replayed \in Seq(QuoteLine)
        /\ line \in 0..Len(disk)
    BY <1>1
  <2>2. latest \in [Contracts -> Nat] /\ latestAgain \in [Contracts -> Nat]
    BY DEF Init
  <2>3. QED
    BY <1>1, <2>1, <2>2 DEF Init, RecordTypeOK
<1>3. Reading(disk)
  BY <1>1, ReadingNothing
<1>4. Quotes = <<>>
  <2>1. Marks(QuotesAlong(<<>>), <<>>) /\ Len(<<>>) = 0
    BY ReadingNothing DEF Reading
  <2>2. QuotesAlong(<<>>)[0] = <<>>
    BY <2>1 DEF Marks
  <2>3. QED
    BY <1>1, <2>1, <2>2 DEF Quotes
<1>5. Written
  BY <1>1, <1>4 DEF Written, Init
<1>6. Folded(latest, consumed) /\ Folded(latestAgain, replayed)
  BY <1>1, FoldedNothing DEF Init
<1>7. Chained
  BY <1>1, <1>6 DEF Chained, Init
<1>8. Begins(replayed, Quotes)
  BY <1>1, <1>4 DEF Begins
<1>9. ReadBack
  BY <1>1, <1>6, <1>8 DEF ReadBack
<1>10. QED
  BY <1>2, <1>3, <1>5, <1>7, <1>9 DEF RecordInv

\* The quotes of the file, and of every prefix of it.
LEMMA QuotesHeld ==
  ASSUME RecordTypeOK, Reading(disk)
  PROVE  /\ Quotes \in Seq(QuoteLine) /\ Len(disk) \in Nat
         /\ \A n \in 0..Len(disk) : /\ QuotesAlong(disk)[n] \in Seq(QuoteLine)
                                    /\ Begins(QuotesAlong(disk)[n], Quotes)
<1>1. Len(disk) \in Nat /\ Len(disk) \in 0..Len(disk)
  BY DEF RecordTypeOK
<1>2. QED
  BY <1>1 DEF Reading, Quotes

\* A line written is the last of the file and leaves those before it.
LEMMA WriteKeeps ==
  ASSUME RecordTypeOK, Reading(disk), NEW e \in Line, Write(e)
  PROVE  /\ disk' \in Seq(Line) /\ disk' # <<>> /\ Len(disk') = Len(disk) + 1
         /\ disk = <<>> => disk'[1] = e
         /\ disk # <<>> => disk'[1] = disk[1]
         /\ Reading(disk')
         /\ Quotes' = IF e.kind = "quote" THEN Append(Quotes, e) ELSE Quotes
         /\ Quotes' \in Seq(QuoteLine)
<1>1. disk \in Seq(Line) /\ disk' = Append(disk, e)
  BY DEF RecordTypeOK, Write
<1>2. /\ disk' \in Seq(Line) /\ disk' # <<>> /\ Len(disk') = Len(disk) + 1
      /\ disk'[Len(disk) + 1] = e
      /\ disk # <<>> => disk'[1] = disk[1]
  BY <1>1, AppendFacts
<1>3. disk = <<>> => disk'[1] = e
  BY <1>2
<1>4. Reading(disk')
  BY <1>1, ReadingOn
<1>5. QuotesAlong(disk')[Len(disk) + 1] = IF e.kind = "quote"
                                          THEN Append(QuotesAlong(disk)[Len(disk)], e)
                                          ELSE QuotesAlong(disk)[Len(disk)]
  BY <1>1, ReadingOn
<1>6. Quotes' = IF e.kind = "quote" THEN Append(Quotes, e) ELSE Quotes
  BY <1>2, <1>5 DEF Quotes
<1>7. Quotes' \in Seq(QuoteLine)
  <2>1. Quotes \in Seq(QuoteLine)
    BY QuotesHeld
  <2>2. CASE e.kind = "quote"
    <3>1. e \in QuoteLine
      BY <2>2 DEF QuoteLine
    <3>2. QED
      BY <1>6, <2>1, <2>2, <3>1, AppendFacts
  <2>3. CASE e.kind # "quote"
    BY <1>6, <2>1, <2>3
  <2>4. QED
    BY <2>2, <2>3
<1>8. QED
  BY <1>2, <1>3, <1>4, <1>6, <1>7

\* While the session runs nothing is replayed, so its steps leave the replay as it is.
LEMMA ReplayWaits ==
  ASSUME RecordInv, session # "over", UNCHANGED playback, Quotes' \in Seq(QuoteLine)
  PROVE  /\ replay = "none" /\ line = 0 /\ replayed = <<>>
         /\ ReadBack'
<1>1. replay = "none" /\ line = 0 /\ replayed = <<>> /\ Folded(latestAgain, replayed)
  BY DEF RecordInv, ReadBack
<1>2. replay' = "none" /\ line' = 0 /\ replayed' = <<>> /\ latestAgain' = latestAgain
  BY <1>1 DEF playback
<1>3. Begins(replayed', Quotes')
  BY <1>2, BeginsAll
<1>4. Folded(latestAgain', replayed')
  BY <1>1, <1>2
<1>5. QED
  BY <1>1, <1>2, <1>3, <1>4 DEF ReadBack

LEMMA HeaderFacts ==
  ASSUME NEW universe \in SUBSET Contracts
  PROVE  /\ Header(universe) \in Line /\ Header(universe).kind = "header"
         /\ Header(universe).universe = universe
BY DEF Header, Line

LEMMA QuoteMade ==
  ASSUME NEW c \in Contracts, NEW when \in Nat
  PROVE  Quote(c, when) \in QuoteLine /\ Quote(c, when) \in Line /\ Quote(c, when).kind = "quote"
BY DEF Quote, QuoteLine, Line

LEMMA TornFacts == Torn \in Line /\ Torn.kind = "torn"
BY DEF Torn, Line

LEMMA DiscoverInv ==
  ASSUME RecordInv, NEW universe \in SUBSET Contracts, Discover(universe)
  PROVE  RecordInv'
<1> DEFINE e == Header(universe)
<1> USE DEF RecordInv
<1>1. e \in Line /\ e.kind = "header" /\ e.universe = universe
  BY HeaderFacts
<1> HIDE DEF e
<1>2. /\ session = "opening" /\ disk = <<>> /\ held = <<>> /\ consumed = consumed'
      /\ Write(e) /\ live' = universe /\ session' = "streaming"
      /\ UNCHANGED <<now, held, latest, consumed, moved>> /\ UNCHANGED playback
  BY DEF Discover, Written, e
<1>3. /\ disk' \in Seq(Line) /\ disk' # <<>> /\ disk'[1] = e /\ Reading(disk')
      /\ Len(disk') = Len(disk) + 1
      /\ Quotes' = Quotes /\ Quotes' \in Seq(QuoteLine)
  BY <1>1, <1>2, WriteKeeps
<1>4. ReadBack' /\ replay = "none" /\ line = 0 /\ replayed = <<>>
  BY <1>2, <1>3, ReplayWaits
<1>5. RecordTypeOK'
  <2>1. line' \in 0..Len(disk')
    <3>1. line' = 0 /\ Len(disk') \in Nat
      BY <1>2, <1>3, <1>4 DEF playback
    <3>2. QED
      BY <3>1
  <2>2. QED
    BY <1>2, <1>3, <2>1 DEF RecordTypeOK, playback
<1>6. Quotes = <<>> /\ consumed = <<>>
  <2>1. Len(disk) = 0 /\ Marks(QuotesAlong(disk), disk)
    BY <1>2 DEF Reading
  <2>2. Quotes = <<>>
    BY <2>1 DEF Marks, Quotes
  <2>3. Quotes = consumed \o <<>> /\ consumed \in Seq(QuoteLine)
    BY <1>2 DEF Written, RecordTypeOK
  <2>4. QED
    BY <2>2, <2>3
<1>7. Written'
  BY <1>1, <1>2, <1>3, <1>6 DEF Written
<1>8. Chained'
  <2>1. ~moved /\ live = {} /\ Folded(latest, consumed)
    BY <1>2 DEF Chained
  <2>2. \A c \in Contracts : latest[c] = 0
    BY <1>2, <2>1 DEF Chained
  <2>3. Named(consumed) = {}
    BY <1>6 DEF Named
  <2>4. live' = disk'[1].universe \cup Named(consumed')
    BY <1>1, <1>2, <1>3, <2>3
  <2>5. Folded(latest', consumed')
    BY <1>2, <2>1
  <2>6. QED
    BY <1>2, <2>2, <2>4, <2>5 DEF Chained
<1>9. QED
  BY <1>3, <1>4, <1>5, <1>7, <1>8

\* set_live_instruments() with the live set as it is forgets nothing.
LEMMA ForgetNothing ==
  ASSUME RecordTypeOK, Chained
  PROVE  Forget(latest, live) = latest
<1>1. \A c \in Contracts : Forget(latest, live)[c] = latest[c]
  BY DEF Forget, Chained
<1>2. QED
  BY <1>1 DEF Forget, RecordTypeOK

LEMMA RediscoverInv ==
  ASSUME RecordInv, NEW universe \in SUBSET Contracts, Rediscover(universe)
  PROVE  RecordInv'
<1> DEFINE e == Header(universe)
<1> USE DEF RecordInv
<1>1. e \in Line /\ e.kind = "header" /\ e.universe = universe
  BY HeaderFacts
<1> HIDE DEF e
<1>2. /\ session = "streaming" /\ disk # <<>> /\ disk[1].kind = "header" /\ held = <<>>
      /\ Write(e) /\ live' = universe /\ latest' = Forget(latest, universe)
      /\ moved' = (moved \/ universe # live)
      /\ UNCHANGED <<session, now, held, consumed>> /\ UNCHANGED playback
  BY DEF Rediscover, Written, e
<1>3. /\ disk' \in Seq(Line) /\ disk' # <<>> /\ disk'[1] = disk[1] /\ Reading(disk')
      /\ Len(disk') = Len(disk) + 1
      /\ Quotes' = Quotes /\ Quotes' \in Seq(QuoteLine)
  BY <1>1, <1>2, WriteKeeps
<1>4. ReadBack' /\ replay = "none" /\ line = 0 /\ replayed = <<>>
  BY <1>2, <1>3, ReplayWaits
<1>5. RecordTypeOK'
  <2>1. line' \in 0..Len(disk')
    <3>1. line' = 0 /\ Len(disk') \in Nat
      BY <1>2, <1>3, <1>4 DEF playback
    <3>2. QED
      BY <3>1
  <2>2. latest' \in [Contracts -> Nat]
    BY <1>2 DEF Forget, RecordTypeOK
  <2>3. moved' \in BOOLEAN
    BY <1>2 DEF RecordTypeOK
  <2>4. QED
    BY <1>2, <1>3, <2>1, <2>2, <2>3 DEF RecordTypeOK, playback
<1>6. Written'
  BY <1>2, <1>3 DEF Written
<1>7. Chained'
  <2>1. \A c \in Contracts : c \notin live' => latest'[c] = 0
    BY <1>2 DEF Forget
  <2>2. ASSUME ~moved' PROVE /\ Folded(latest', consumed')
                             /\ live' = disk'[1].universe \cup Named(consumed')
    <3>1. ~moved /\ live' = live
      BY <1>2, <2>2
    <3>2. latest' = latest
      BY <1>2, <3>1, ForgetNothing
    <3>3. QED
      BY <1>2, <1>3, <3>1, <3>2 DEF Chained
  <2>3. QED
    BY <1>2, <2>1, <2>2 DEF Chained
<1>8. QED
  BY <1>3, <1>4, <1>5, <1>6, <1>7

LEMMA TapInv ==
  ASSUME RecordInv, NEW c \in Contracts, Tap(c)
  PROVE  RecordInv'
<1> DEFINE q == Quote(c, now)
<1> USE DEF RecordInv
<1>1. q \in Line /\ q \in QuoteLine /\ q.kind = "quote"
  BY QuoteMade DEF RecordTypeOK
<1> HIDE DEF q
<1>2. /\ session = "streaming" /\ disk # <<>> /\ disk[1].kind = "header" /\ held = <<>>
      /\ Write(q) /\ held' = <<q>>
      /\ UNCHANGED <<session, now, live, latest, consumed, moved>> /\ UNCHANGED playback
  BY DEF Tap, Written, q
<1>3. /\ disk' \in Seq(Line) /\ disk' # <<>> /\ disk'[1] = disk[1] /\ Reading(disk')
      /\ Len(disk') = Len(disk) + 1
      /\ Quotes' = Append(Quotes, q) /\ Quotes' \in Seq(QuoteLine)
  BY <1>1, <1>2, WriteKeeps
<1>4. ReadBack' /\ replay = "none" /\ line = 0 /\ replayed = <<>>
  BY <1>2, <1>3, ReplayWaits
<1>5. RecordTypeOK'
  <2>1. line' \in 0..Len(disk')
    <3>1. line' = 0 /\ Len(disk') \in Nat
      BY <1>2, <1>3, <1>4 DEF playback
    <3>2. QED
      BY <3>1
  <2>2. QED
    BY <1>1, <1>2, <1>3, <2>1 DEF RecordTypeOK, playback
<1>6. Quotes' = consumed' \o held'
  <2>1. consumed \in Seq(QuoteLine) /\ Quotes = consumed \o <<>>
    BY <1>2 DEF RecordTypeOK, Written
  <2>2. Quotes = consumed
    BY <2>1
  <2>3. Append(consumed, q) = consumed \o <<q>>
    BY <1>1, <2>1
  <2>4. QED
    BY <1>2, <1>3, <2>2, <2>3
<1>7. Written'
  BY <1>2, <1>3, <1>6 DEF Written
<1>8. Chained'
  BY <1>2, <1>3 DEF Chained
<1>9. QED
  BY <1>3, <1>4, <1>5, <1>7, <1>8

LEMMA TakeInv ==
  ASSUME RecordInv, Take
  PROVE  RecordInv'
<1> DEFINE q == held[1]
<1> USE DEF RecordInv
<1>1. held = <<q>> /\ q \in QuoteLine
  <2>1. held # <<>>
    BY DEF Take
  <2>2. PICK p \in QuoteLine : held = <<p>>
    BY <2>1 DEF RecordTypeOK
  <2>3. QED
    BY <2>2
<1> HIDE DEF q
<1>2. /\ session = "streaming" /\ disk # <<>> /\ disk[1].kind = "header"
      /\ held' = <<>> /\ latest' = [latest EXCEPT ![q.contract] = q.at]
      /\ live' = live \cup {q.contract} /\ consumed' = Append(consumed, q)
      /\ UNCHANGED <<disk, session, now, moved>> /\ UNCHANGED playback
  BY DEF Take, Written, q
<1>3. q.contract \in Contracts /\ q.at \in Nat
  BY <1>1, QuoteFacts
<1>4. Quotes' = Quotes /\ Quotes' \in Seq(QuoteLine)
  BY <1>2, QuotesHeld DEF Quotes
<1>5. ReadBack'
  BY <1>2, <1>4, ReplayWaits
<1>6. consumed \in Seq(QuoteLine) /\ consumed' \in Seq(QuoteLine)
  BY <1>1, <1>2, AppendFacts DEF RecordTypeOK
<1>7. RecordTypeOK'
  <2>1. latest' \in [Contracts -> Nat] /\ live' \in SUBSET Contracts
    BY <1>2, <1>3 DEF RecordTypeOK
  <2>2. QED
    BY <1>2, <1>6, <2>1 DEF RecordTypeOK, playback
<1>8. Written'
  <2>1. Quotes = consumed \o <<q>>
    BY <1>1 DEF Written
  <2>2. Quotes' = Append(consumed, q) \o <<>>
    BY <1>1, <1>4, <1>6, <2>1
  <2>3. QED
    BY <1>2, <2>2 DEF Written
<1>9. Chained'
  <2>1. \A c \in Contracts : c \notin live' => latest'[c] = 0
    BY <1>2, <1>3 DEF Chained, RecordTypeOK
  <2>2. ASSUME ~moved' PROVE /\ Folded(latest', consumed')
                             /\ live' = disk'[1].universe \cup Named(consumed')
    <3>1. Folded(latest, consumed) /\ live = disk[1].universe \cup Named(consumed)
      BY <1>2, <2>2 DEF Chained
    <3>2. latest \in [Contracts -> Nat]
      BY DEF RecordTypeOK
    <3>3. Folded(latest', consumed')
      BY <1>1, <1>2, <1>6, <3>1, <3>2, FoldedTaken
    <3>4. Named(consumed') = Named(consumed) \cup {q.contract}
      BY <1>1, <1>2, <1>6, NamedTaken
    <3>5. QED
      BY <1>2, <3>1, <3>3, <3>4
  <2>3. QED
    BY <1>2, <2>1, <2>2 DEF Chained
<1>10. Reading(disk')
  BY <1>2
<1>11. QED
  BY <1>5, <1>7, <1>8, <1>9, <1>10

\* What only moves the clock, or ends the session where it is.
LEMMA QuietInv ==
  ASSUME RecordInv, Tick \/ Stop
  PROVE  RecordInv'
<1> USE DEF RecordInv
<1>1. /\ session # "over" /\ (session' = session \/ session' = "over") /\ now' \in Nat
      /\ UNCHANGED <<disk, held, live, latest, consumed, moved>> /\ UNCHANGED playback
  BY DEF Tick, Stop, RecordTypeOK
<1>2. Quotes' = Quotes /\ Quotes' \in Seq(QuoteLine)
  BY <1>1, QuotesHeld DEF Quotes
<1>3. ReadBack'
  BY <1>1, <1>2, ReplayWaits
<1>4. RecordTypeOK'
  BY <1>1 DEF RecordTypeOK, playback
<1>5. Written' /\ Chained' /\ Reading(disk')
  BY <1>1, <1>2 DEF Written, Chained
<1>6. QED
  BY <1>3, <1>4, <1>5

LEMMA KillWritingInv ==
  ASSUME RecordInv, KillWriting
  PROVE  RecordInv'
<1> USE DEF RecordInv
<1>1. /\ session # "over" /\ held = <<>> /\ Write(Torn) /\ session' = "over"
      /\ UNCHANGED <<now, held, live, latest, consumed, moved>> /\ UNCHANGED playback
  BY DEF KillWriting
<1>2. /\ disk' \in Seq(Line) /\ disk' # <<>> /\ Reading(disk')
      /\ Len(disk') = Len(disk) + 1
      /\ disk = <<>> => disk'[1] = Torn
      /\ disk # <<>> => disk'[1] = disk[1]
      /\ Quotes' = Quotes /\ Quotes' \in Seq(QuoteLine)
  BY <1>1, TornFacts, WriteKeeps
<1>3. ReadBack' /\ replay = "none" /\ line = 0 /\ replayed = <<>>
  BY <1>1, <1>2, ReplayWaits
<1>4. RecordTypeOK'
  <2>1. line' \in 0..Len(disk')
    <3>1. line' = 0 /\ Len(disk') \in Nat
      BY <1>1, <1>2, <1>3 DEF playback
    <3>2. QED
      BY <3>1
  <2>2. QED
    BY <1>1, <1>2, <2>1 DEF RecordTypeOK, playback
<1>5. Written'
  BY <1>1, <1>2 DEF Written
<1>6. Chained'
  BY <1>1, <1>2, TornFacts DEF Chained
<1>7. QED
  BY <1>2, <1>3, <1>4, <1>5, <1>6

--------------------------------------------------------------------------------
(* The replayed run.                                                       *)

\* What a replay never touches.
LEMMA RecordedStays ==
  ASSUME RecordInv, UNCHANGED recorded
  PROVE  /\ Reading(disk') /\ Written' /\ Chained'
         /\ disk' = disk /\ Quotes' = Quotes /\ session' = session
         /\ Quotes \in Seq(QuoteLine)
<1>1. UNCHANGED <<disk, session, now, held, live, latest, consumed, moved>>
  BY DEF recorded
<1>2. Quotes' = Quotes
  BY <1>1 DEF Quotes
<1>3. QED
  BY <1>1, <1>2, QuotesHeld DEF RecordInv, Written, Chained

LEMMA OpenInv ==
  ASSUME RecordInv, Open
  PROVE  RecordInv'
<1> USE DEF RecordInv
<1>1. /\ session = "over" /\ replay = "none" /\ replayed = <<>> /\ line = 0
      /\ UNCHANGED recorded /\ UNCHANGED <<line, stopped, latestAgain, replayed>>
  BY DEF Open, ReadBack
<1>2. /\ Reading(disk') /\ Written' /\ Chained'
      /\ disk' = disk /\ Quotes' = Quotes /\ session' = session
      /\ Quotes \in Seq(QuoteLine)
  BY <1>1, RecordedStays
<1>3. Folded(latestAgain, replayed) /\ Begins(replayed, Quotes)
  BY DEF ReadBack
<1>4. CASE Readable
  <2>1. /\ replay' = "streaming" /\ liveAgain' = disk[1].universe
        /\ disk # <<>> /\ disk[1].kind = "header"
    BY <1>4 DEF Open, Readable, Inventory
  <2>2. disk[1].universe \in SUBSET Contracts
    <3>1. disk[1] \in Line
      BY <2>1 DEF RecordTypeOK
    <3>2. QED
      BY <2>1, <3>1 DEF Line, Torn
  <2>3. QuotesAlong(disk)[0] = <<>>
    <3>1. Marks(QuotesAlong(disk), disk) /\ 0 \in 0..Len(disk)
      BY QuotesHeld DEF Reading
    <3>2. QED
      BY <3>1 DEF Marks
  <2>4. RecordTypeOK'
    BY <1>1, <2>1, <2>2 DEF RecordTypeOK, recorded
  <2>5. Named(replayed) = {}
    BY <1>1 DEF Named
  <2>6. ReadBack'
    BY <1>1, <1>2, <1>3, <2>1, <2>3, <2>5 DEF ReadBack
  <2>7. QED
    BY <1>2, <2>4, <2>6
<1>5. CASE ~Readable
  <2>1. replay' = "refused" /\ UNCHANGED liveAgain
    BY <1>5 DEF Open
  <2>2. RecordTypeOK'
    BY <1>1, <2>1 DEF RecordTypeOK, recorded
  <2>3. ReadBack'
    BY <1>1, <1>2, <1>3, <2>1 DEF ReadBack
  <2>4. QED
    BY <1>2, <2>2, <2>3
<1>6. QED
  BY <1>4, <1>5

\* One line read: a quote is taken, and nothing else moves the chain.
LEMMA ReadLineInv ==
  ASSUME RecordInv, ReadLine
  PROVE  RecordInv'
<1> DEFINE next == disk[line + 1]
           along == QuotesAlong(disk)
<1> USE DEF RecordInv
<1>1. /\ replay = "streaming" /\ session = "over" /\ line < Len(disk) /\ line' = line + 1
      /\ UNCHANGED recorded /\ UNCHANGED stopped
      /\ disk # <<>> /\ disk[1].kind = "header"
      /\ liveAgain = disk[1].universe \cup Named(replayed)
      /\ replayed = along[line]
  BY DEF ReadLine, ReadBack
<1>2. /\ Reading(disk') /\ Written' /\ Chained'
      /\ disk' = disk /\ Quotes' = Quotes /\ session' = session
      /\ Quotes \in Seq(QuoteLine)
  BY <1>1, RecordedStays
<1>3. Folded(latestAgain, replayed) /\ Begins(replayed, Quotes)
  BY DEF ReadBack
<1>4. /\ line \in Nat /\ Len(disk) \in Nat /\ line + 1 \in 1..Len(disk) /\ next \in Line
      /\ replayed \in Seq(QuoteLine) /\ latestAgain \in [Contracts -> Nat]
  BY <1>1 DEF RecordTypeOK
<1>5. along[line + 1] = IF next.kind = "quote" THEN Append(along[line], next) ELSE along[line]
  <2>1. Marks(along, disk) /\ line + 1 \in 0..Len(disk) /\ line + 1 # 0 /\ (line + 1) - 1 = line
    BY <1>4 DEF Reading
  <2> HIDE DEF along
  <2>2. QED
    BY <2>1 DEF Marks
<1>6. along[line + 1] \in Seq(QuoteLine) /\ Begins(along[line + 1], Quotes)
  BY <1>4, QuotesHeld
<1>7. ASSUME Folded(latestAgain', replayed'), Begins(replayed', Quotes),
             replay' \in {"streaming", "ended", "failed"},
             replay' = "streaming" => replayed' = along[line + 1],
             liveAgain' = disk[1].universe \cup Named(replayed')
      PROVE  ReadBack'
  <2>1. QuotesAlong(disk)[line]' = along[line + 1]
    BY <1>1, <1>2
  <2> HIDE DEF along, next
  <2>2. QED
    BY <1>1, <1>2, <1>7, <2>1 DEF ReadBack
<1> HIDE DEF next, along
<1>8. CASE next.kind = "quote" /\ ~stopped
  <2>1. /\ next \in QuoteLine /\ replay' = replay
        /\ latestAgain' = [latestAgain EXCEPT ![next.contract] = next.at]
        /\ liveAgain' = liveAgain \cup {next.contract}
        /\ replayed' = Append(replayed, next)
    BY <1>4, <1>8 DEF ReadLine, QuoteLine, Undecodable, next
  <2>2. next.contract \in Contracts /\ next.at \in Nat
    BY <2>1, QuoteFacts
  <2>3. replayed' = along[line + 1] /\ replayed' \in Seq(QuoteLine)
    BY <1>1, <1>5, <1>6, <1>8, <2>1
  <2>4. Folded(latestAgain', replayed') /\ Named(replayed') = Named(replayed) \cup {next.contract}
    BY <1>3, <1>4, <2>1, FoldedTaken, NamedTaken
  <2>5. ReadBack'
    BY <1>1, <1>6, <1>7, <2>1, <2>3, <2>4
  <2>6. RecordTypeOK'
    <3>1. latestAgain' \in [Contracts -> Nat] /\ liveAgain' \in SUBSET Contracts
      BY <1>4, <2>1, <2>2 DEF RecordTypeOK
    <3>2. line' \in 0..Len(disk')
      BY <1>1, <1>2, <1>4
    <3>3. QED
      BY <1>1, <2>1, <2>3, <3>1, <3>2 DEF RecordTypeOK, recorded
  <2>7. QED
    BY <1>2, <2>5, <2>6
<1>9. CASE ~(next.kind = "quote" /\ ~stopped)
  <2>1. /\ UNCHANGED <<liveAgain, latestAgain, replayed>>
        /\ replay' \in {"streaming", "ended", "failed"}
        /\ replay' = "streaming" => next.kind # "quote"
    BY <1>1, <1>9 DEF ReadLine, Undecodable, next
  <2>2. ReadBack'
    BY <1>1, <1>3, <1>5, <1>7, <2>1
  <2>3. RecordTypeOK'
    <3>1. line' \in 0..Len(disk')
      BY <1>1, <1>2, <1>4
    <3>2. QED
      BY <1>1, <2>1, <3>1 DEF RecordTypeOK, recorded
  <2>4. QED
    BY <1>2, <2>2, <2>3
<1>10. QED
  BY <1>8, <1>9

\* The end of the file, or close() on the replay: the chain stays where it is.
LEMMA ReplayStopsInv ==
  ASSUME RecordInv, ReadEnd \/ StopReplay
  PROVE  RecordInv'
<1> USE DEF RecordInv
<1>1. /\ replay = "streaming" /\ replay' \in {"streaming", "ended"} /\ stopped' \in BOOLEAN
      /\ UNCHANGED recorded /\ UNCHANGED <<line, liveAgain, latestAgain, replayed>>
  BY DEF ReadEnd, StopReplay, RecordTypeOK
<1>2. /\ Reading(disk') /\ Written' /\ Chained'
      /\ disk' = disk /\ Quotes' = Quotes /\ session' = session
  BY <1>1, RecordedStays
<1>3. RecordTypeOK'
  BY <1>1 DEF RecordTypeOK, recorded
<1>4. QuotesAlong(disk)[line]' = QuotesAlong(disk)[line]
  BY <1>1, <1>2
<1>5. ReadBack'
  BY <1>1, <1>2, <1>4 DEF ReadBack
<1>6. QED
  BY <1>2, <1>3, <1>5

LEMMA RecordNextInv == RecordInv /\ [Next]_vars => RecordInv'
<1> SUFFICES ASSUME RecordInv, [Next]_vars PROVE RecordInv'
  OBVIOUS
<1>1. ASSUME NEW universe \in SUBSET Contracts, Discover(universe) \/ Rediscover(universe)
      PROVE  RecordInv'
  BY <1>1, DiscoverInv, RediscoverInv
<1>2. ASSUME NEW c \in Contracts, Tap(c) PROVE RecordInv'
  BY <1>2, TapInv
<1>3. CASE Take \/ Tick \/ Stop \/ KillWriting
  BY <1>3, TakeInv, QuietInv, KillWritingInv
<1>4. CASE Open \/ ReadLine \/ ReadEnd \/ StopReplay
  BY <1>4, OpenInv, ReadLineInv, ReplayStopsInv
<1>5. CASE UNCHANGED vars
  <2>1. UNCHANGED recorded /\ UNCHANGED playback
    BY <1>5 DEF vars
  <2>2. Reading(disk') /\ Written' /\ Chained'
    BY <2>1, RecordedStays
  <2>3. QED
    BY <2>1, <2>2 DEF RecordInv, RecordTypeOK, ReadBack, Quotes, recorded, playback
<1>6. QED
  BY <1>1, <1>2, <1>3, <1>4, <1>5 DEF Next

\* The updates the loop has taken begin those the file holds, which are one more at most.
LEMMA ConsumedBegins ==
  ASSUME RecordInv
  PROVE  /\ consumed \in Seq(QuoteLine) /\ Quotes \in Seq(QuoteLine)
         /\ Begins(consumed, Quotes) /\ Len(Quotes) <= Len(consumed) + 1
<1>1. /\ consumed \in Seq(QuoteLine) /\ Quotes = consumed \o held /\ Quotes \in Seq(QuoteLine)
      /\ held = <<>> \/ \E q \in QuoteLine : held = <<q>>
  BY QuotesHeld DEF RecordInv, RecordTypeOK, Written
<1>2. CASE held = <<>>
  <2>1. Quotes = consumed
    BY <1>1, <1>2
  <2>2. QED
    BY <1>1, <2>1 DEF Begins
<1>3. CASE \E q \in QuoteLine : held = <<q>>
  <2>1. PICK q \in QuoteLine : held = <<q>>
    BY <1>3
  <2>2. Quotes = Append(consumed, q)
    BY <1>1, <2>1
  <2>3. Begins(consumed, Quotes) /\ Len(Quotes) = Len(consumed) + 1 /\ Len(consumed) \in Nat
    BY <1>1, <2>2, AppendFacts
  <2>4. QED
    BY <1>1, <2>3
<1>4. QED
  BY <1>1, <1>2, <1>3

--------------------------------------------------------------------------------
(* Theorems.                                                               *)

\* The invariant holds of every recorded session and every replay of it, killed anywhere.
THEOREM RecordInvariant == Spec => []RecordInv
<1>1. Init => RecordInv
  BY RecordInitInv
<1>2. RecordInv /\ [Next]_vars => RecordInv'
  BY RecordNextInv
<1>3. QED
  BY <1>1, <1>2, PTL DEF Spec

\* Every variable of the session, the file and the replay has its type.
THEOREM RecordTypes == Spec => []RecordTypeOK
<1>1. RecordInv => RecordTypeOK
  BY DEF RecordInv
<1>2. QED
  BY <1>1, RecordInvariant, PTL

\* _record() writes before it yields: the loop never has an update the file does not hold, in
\* the same order, and the file is ahead by one update at most.
THEOREM FileIsAhead == Spec => []WrittenBeforeSeen
<1>1. RecordInv => WrittenBeforeSeen
  <2> SUFFICES ASSUME RecordInv PROVE WrittenBeforeSeen
    OBVIOUS
  <2>1. /\ consumed \in Seq(QuoteLine) /\ Quotes \in Seq(QuoteLine)
        /\ Begins(consumed, Quotes) /\ Len(Quotes) <= Len(consumed) + 1
    BY ConsumedBegins
  <2>2. IsPrefix(consumed, Quotes)
    BY <2>1, BeginsIsPrefix
  <2>3. QED
    BY <2>1, <2>2 DEF WrittenBeforeSeen
<1>2. QED
  BY <1>1, RecordInvariant, PTL

\* RecordedProvider gives the loop what RecordingProvider gave it: at every point the two runs
\* share, they have the same live set and the same quotes, unless a rediscovery moved the
\* universe while the session was recorded.
THEOREM ReplayRebuildsTheChain == Spec => []ReplayedChainIsTheSessions
<1>1. RecordInv => ReplayedChainIsTheSessions
  <2> SUFFICES ASSUME RecordInv, replay # "none", ~moved, Len(replayed) = Len(consumed),
                      replay # "refused"
               PROVE  replayed = consumed /\ latestAgain = latest /\ liveAgain = live
    BY DEF ReplayedChainIsTheSessions
  <2>1. /\ consumed \in Seq(QuoteLine) /\ replayed \in Seq(QuoteLine)
        /\ Quotes \in Seq(QuoteLine)
        /\ latest \in [Contracts -> Nat] /\ latestAgain \in [Contracts -> Nat]
        /\ replay \in {"streaming", "ended", "failed"}
    BY QuotesHeld DEF RecordInv, RecordTypeOK
  <2>2. Begins(replayed, Quotes)
    BY DEF RecordInv, ReadBack
  <2>3. Begins(consumed, Quotes)
    BY ConsumedBegins
  <2>4. replayed = consumed
    BY <2>1, <2>2, <2>3, BeginsSame
  <2>5. Folded(latest, consumed) /\ Folded(latestAgain, consumed)
    BY <2>4 DEF RecordInv, Chained, ReadBack
  <2>6. latestAgain = latest
    BY <2>1, <2>5, FoldedSame
  <2>7. liveAgain = live
    BY <2>1, <2>4 DEF RecordInv, Chained, ReadBack
  <2>8. QED
    BY <2>4, <2>6, <2>7
<1>2. QED
  BY <1>1, RecordInvariant, PTL

--------------------------------------------------------------------------------
(* What Where keeps of a sequence, by induction on how much of it was read. *)

Below == {pair \in Nat \X Nat : pair[1] < pair[2]}

LEMMA BelowIsWellFounded == IsWellFoundedOn(Below, Nat)
BY NatLessThanWellFounded DEF OpToRel, Below

LEMMA SetInduction ==
  ASSUME NEW T, 0 \in T, \A n \in Nat : n \in T => n + 1 \in T
  PROVE  Nat \subseteq T
<1> DEFINE Out == Nat \ T
<1>1. SUFFICES ASSUME Out # {} PROVE FALSE
  OBVIOUS
<1>2. PICK x \in Out : \A y \in Out : <<y, x>> \notin Below
  BY <1>1, BelowIsWellFounded, WFMin, Zenon
<1>3. \A y \in Out : ~(y < x)
  BY <1>2 DEF Below
<1>4. x # 0 /\ x - 1 \in Nat /\ x - 1 < x
  OBVIOUS
<1>5. QED
  BY <1>3, <1>4

LEMMA PrefixInduction ==
  ASSUME NEW N \in Nat, NEW T, 0 \in T, \A n \in 1..N : n - 1 \in T => n \in T
  PROVE  N \in T
<1> DEFINE U == {n \in Nat : n <= N => n \in T}
<1>1. 0 \in U
  OBVIOUS
<1>2. ASSUME NEW n \in Nat, n \in U PROVE n + 1 \in U
  <2>1. CASE n + 1 <= N
    <3>1. n \in T /\ n + 1 \in 1..N /\ (n + 1) - 1 = n
      BY <1>2, <2>1
    <3>2. QED
      BY <3>1
  <2>2. CASE ~(n + 1 <= N)
    BY <2>2
  <2>3. QED
    BY <2>1, <2>2
<1> HIDE DEF U
<1>3. Nat \subseteq U
  BY <1>1, <1>2, SetInduction
<1>4. QED
  BY <1>3 DEF U

\* g holds what is kept of the first m items, for every m up to n.
Keeping(g, items, kept, n) ==
  \A m \in 0..n : g[m] = IF m = 0 THEN <<>>
                         ELSE IF m \in kept THEN Append(g[m - 1], items[m]) ELSE g[m - 1]

LEMMA KeepingStarts ==
  ASSUME NEW g, NEW items, NEW kept, NEW n \in Nat, Keeping(g, items, kept, n)
  PROVE  /\ g[0] = <<>>
         /\ \A m \in 1..n : /\ m - 1 \in 0..n /\ m \in 0..n
                            /\ m \in kept => g[m] = Append(g[m - 1], items[m])
                            /\ m \notin kept => g[m] = g[m - 1]
<1>1. \A m \in 1..n : m # 0 /\ m \in 0..n /\ m - 1 \in 0..n
  OBVIOUS
<1>2. 0 \in 0..n
  OBVIOUS
<1>3. QED
  BY <1>1, <1>2, Zenon DEF Keeping

LEMMA KeepingExists ==
  ASSUME NEW items, NEW kept, NEW N \in Nat
  PROVE  \E g : g = [n \in 0..N |-> g[n]] /\ Keeping(g, items, kept, N)
<1> DEFINE T == {n \in 0..N : \E g : g = [m \in 0..n |-> g[m]] /\ Keeping(g, items, kept, n)}
<1>1. 0 \in T
  <2> DEFINE g == [m \in 0..0 |-> <<>>]
  <2>1. g = [m \in 0..0 |-> g[m]] /\ Keeping(g, items, kept, 0)
    BY DEF Keeping
  <2>2. QED
    BY <2>1
<1>2. ASSUME NEW n \in 1..N, n - 1 \in T PROVE n \in T
  <2>1. PICK g : g = [m \in 0..(n - 1) |-> g[m]] /\ Keeping(g, items, kept, n - 1)
    BY <1>2
  <2> DEFINE last == IF n \in kept THEN Append(g[n - 1], items[n]) ELSE g[n - 1]
             h == [m \in 0..n |-> IF m = n THEN last ELSE g[m]]
  <2> HIDE DEF last
  <2>2. h[n] = last /\ \A m \in 0..(n - 1) : h[m] = g[m] /\ m # n /\ m \in 0..n
    OBVIOUS
  <2>3. h = [m \in 0..n |-> h[m]]
    OBVIOUS
  <2> HIDE DEF h
  <2>4. Keeping(h, items, kept, n)
    <3> SUFFICES ASSUME NEW m \in 0..n
                 PROVE  h[m] = IF m = 0 THEN <<>>
                               ELSE IF m \in kept THEN Append(h[m - 1], items[m]) ELSE h[m - 1]
      BY DEF Keeping
    <3>1. CASE m = n
      <4>1. n # 0 /\ n - 1 \in 0..(n - 1)
        OBVIOUS
      <4>2. QED
        BY <2>2, <3>1, <4>1 DEF last
    <3>2. CASE m # n
      <4>1. m \in 0..(n - 1) /\ (m # 0 => m - 1 \in 0..(n - 1))
        BY <3>2
      <4>2. QED
        BY <2>1, <2>2, <4>1 DEF Keeping
    <3>3. QED
      BY <3>1, <3>2
  <2>5. QED
    BY <2>3, <2>4
<1> HIDE DEF T
<1>3. N \in T
  BY <1>1, <1>2, PrefixInduction
<1>4. QED
  BY <1>3 DEF T

LEMMA WhereIsKept ==
  ASSUME NEW items, NEW kept, Len(items) \in Nat
  PROVE  \E g : Keeping(g, items, kept, Len(items)) /\ Where(items, kept) = g[Len(items)]
<1> DEFINE N == Len(items)
           Read(g) == g = [n \in 0..N |->
                             IF n = 0 THEN <<>>
                             ELSE IF n \in kept THEN Append(g[n - 1], items[n]) ELSE g[n - 1]]
           chosen == CHOOSE g : Read(g)
<1>1. PICK g : g = [n \in 0..N |-> g[n]] /\ Keeping(g, items, kept, N)
  BY KeepingExists
<1>2. Read(g)
  <2>1. \A n \in 0..N : g[n] = IF n = 0 THEN <<>>
                               ELSE IF n \in kept THEN Append(g[n - 1], items[n]) ELSE g[n - 1]
    BY <1>1 DEF Keeping
  <2>2. QED
    BY <1>1, <2>1
<1>3. Read(chosen)
  BY <1>2
<1>4. Where(items, kept) = chosen[N]
  BY Zenon DEF Where
<1> HIDE DEF chosen
<1>5. Keeping(chosen, items, kept, N)
  <2> SUFFICES ASSUME NEW n \in 0..N
               PROVE  chosen[n] = IF n = 0 THEN <<>>
                                  ELSE IF n \in kept THEN Append(chosen[n - 1], items[n])
                                  ELSE chosen[n - 1]
    BY DEF Keeping
  <2>1. QED
    BY <1>3
<1>6. QED
  BY <1>4, <1>5

\* What is kept is a sequence, of exactly the items at the places kept.
LEMMA WhereKeeps ==
  ASSUME NEW S, NEW items \in Seq(S), NEW kept
  PROVE  /\ Where(items, kept) \in Seq(S)
         /\ \A j \in 1..Len(Where(items, kept)) :
              \E i \in 1..Len(items) : i \in kept /\ Where(items, kept)[j] = items[i]
         /\ \A i \in 1..Len(items) :
              i \in kept => \E j \in 1..Len(Where(items, kept)) : Where(items, kept)[j] = items[i]
<1> DEFINE N == Len(items)
<1>1. N \in Nat /\ \A i \in 1..N : items[i] \in S
  OBVIOUS
<1>2. PICK g : Keeping(g, items, kept, N) /\ Where(items, kept) = g[N]
  BY <1>1, WhereIsKept
<1>3. /\ g[0] = <<>>
      /\ \A m \in 1..N : /\ m - 1 \in 0..N /\ m \in 0..N
                         /\ m \in kept => g[m] = Append(g[m - 1], items[m])
                         /\ m \notin kept => g[m] = g[m - 1]
  BY <1>1, <1>2, KeepingStarts
<1> DEFINE Good(n) == /\ g[n] \in Seq(S)
                      /\ \A j \in 1..Len(g[n]) : \E i \in 1..n : i \in kept /\ g[n][j] = items[i]
                      /\ \A i \in 1..n : i \in kept => \E j \in 1..Len(g[n]) : g[n][j] = items[i]
           T == {n \in 0..N : Good(n)}
<1>4. 0 \in T
  <2>1. g[0] \in Seq(S) /\ Len(g[0]) = 0 /\ 0 \in 0..N
    BY <1>1, <1>3
  <2>2. QED
    BY <2>1
<1>5. ASSUME NEW n \in 1..N, n - 1 \in T PROVE n \in T
  <2> DEFINE s == g[n - 1]
             t == g[n]
  <2>1. /\ s \in Seq(S)
        /\ \A j \in 1..Len(s) : \E i \in 1..(n - 1) : i \in kept /\ s[j] = items[i]
        /\ \A i \in 1..(n - 1) : i \in kept => \E j \in 1..Len(s) : s[j] = items[i]
    BY <1>5
  <2>2. /\ n \in kept => t = Append(s, items[n])
        /\ n \notin kept => t = s
    BY <1>3
  <2>3. items[n] \in S /\ \A i \in 1..n : i \in 1..(n - 1) \/ i = n
    BY <1>1
  <2>4. n \in 0..N /\ \A i \in 1..(n - 1) : i \in 1..n
    BY <1>1
  <2> HIDE DEF s, t
  <2>5. CASE n \in kept
    <3>1. /\ t \in Seq(S) /\ Len(t) = Len(s) + 1 /\ t[Len(s) + 1] = items[n]
          /\ \A j \in 1..Len(s) : t[j] = s[j]
      <4> DEFINE e == items[n]
      <4>1. s \in Seq(S) /\ e \in S /\ t = Append(s, e)
        BY <2>1, <2>2, <2>3, <2>5
      <4> HIDE DEF e
      <4>2. /\ t \in Seq(S) /\ Len(t) = Len(s) + 1 /\ t[Len(s) + 1] = e
            /\ \A j \in 1..Len(s) : t[j] = s[j]
        BY <4>1, AppendFacts
      <4>3. QED
        BY <4>2 DEF e
    <3>2. Len(s) \in Nat
      BY <2>1
    <3>3. ASSUME NEW j \in 1..Len(t) PROVE \E i \in 1..n : i \in kept /\ t[j] = items[i]
      <4>1. CASE j \in 1..Len(s)
        <5>1. PICK i \in 1..(n - 1) : i \in kept /\ s[j] = items[i]
          BY <2>1, <4>1
        <5>2. QED
          BY <2>4, <3>1, <4>1, <5>1
      <4>2. CASE j = Len(s) + 1
        BY <2>5, <3>1, <4>2
      <4>3. QED
        BY <3>1, <3>2, <4>1, <4>2
    <3>4. ASSUME NEW i \in 1..n, i \in kept PROVE \E j \in 1..Len(t) : t[j] = items[i]
      <4>1. CASE i \in 1..(n - 1)
        <5>1. PICK j \in 1..Len(s) : s[j] = items[i]
          BY <2>1, <3>4, <4>1
        <5>2. j \in 1..Len(t) /\ t[j] = items[i]
          BY <3>1, <3>2, <5>1
        <5>3. QED
          BY <5>2
      <4>2. CASE i = n
        <5>1. Len(s) + 1 \in 1..Len(t)
          BY <3>1, <3>2
        <5>2. QED
          BY <3>1, <4>2, <5>1
      <4>3. QED
        BY <2>3, <4>1, <4>2
    <3>5. QED
      BY <2>4, <3>1, <3>3, <3>4 DEF t
  <2>6. CASE n \notin kept
    <3>1. t = s
      BY <2>2, <2>6
    <3>2. ASSUME NEW j \in 1..Len(t) PROVE \E i \in 1..n : i \in kept /\ t[j] = items[i]
      BY <2>1, <2>4, <3>1
    <3>3. ASSUME NEW i \in 1..n, i \in kept PROVE \E j \in 1..Len(t) : t[j] = items[i]
      BY <2>1, <2>3, <2>6, <3>1, <3>3
    <3>4. QED
      BY <2>1, <2>4, <3>1, <3>2, <3>3 DEF t
  <2>7. QED
    BY <2>5, <2>6
<1> HIDE DEF T
<1>6. N \in T
  BY <1>1, <1>4, <1>5, PrefixInduction
<1>7. QED
  BY <1>2, <1>6 DEF T

\* When one place at most is kept, one item at most is.
LEMMA WhereOne ==
  ASSUME NEW S, NEW items \in Seq(S), NEW kept, NEW k \in 1..Len(items),
         kept \cap (1..Len(items)) = {k}
  PROVE  Where(items, kept) = <<items[k]>>
<1> DEFINE N == Len(items)
<1>1. N \in Nat /\ \A i \in 1..N : items[i] \in S
  OBVIOUS
<1>2. PICK g : Keeping(g, items, kept, N) /\ Where(items, kept) = g[N]
  BY <1>1, WhereIsKept
<1>3. /\ g[0] = <<>>
      /\ \A m \in 1..N : /\ m - 1 \in 0..N /\ m \in 0..N
                         /\ m \in kept => g[m] = Append(g[m - 1], items[m])
                         /\ m \notin kept => g[m] = g[m - 1]
  BY <1>1, <1>2, KeepingStarts
<1> DEFINE T == {n \in 0..N : g[n] = IF k <= n THEN <<items[k]>> ELSE <<>>}
<1>4. 0 \in T
  BY <1>1, <1>3
<1>5. ASSUME NEW n \in 1..N, n - 1 \in T PROVE n \in T
  <2>1. g[n - 1] = IF k <= n - 1 THEN <<items[k]>> ELSE <<>>
    BY <1>5
  <2>2. n \in kept <=> n = k
    BY <1>1
  <2>3. CASE n = k
    <3>1. g[n - 1] = <<>> /\ g[n] = Append(g[n - 1], items[n])
      BY <1>3, <2>1, <2>2, <2>3
    <3>2. g[n] = <<items[k]>>
      BY <2>3, <3>1
    <3>3. QED
      BY <1>3, <2>3, <3>2
  <2>4. CASE n # k
    <3>1. g[n] = g[n - 1] /\ (k <= n <=> k <= n - 1)
      BY <1>1, <1>3, <2>2, <2>4
    <3>2. QED
      BY <1>3, <2>1, <3>1
  <2>5. QED
    BY <2>3, <2>4
<1> HIDE DEF T
<1>6. N \in T
  BY <1>1, <1>4, <1>5, PrefixInduction
<1>7. QED
  BY <1>1, <1>2, <1>6 DEF T

\* An item more, at a place kept, is the last of what is kept.
LEMMA WhereGrows ==
  ASSUME NEW S, NEW items \in Seq(S), NEW e \in S, NEW before, NEW after,
         \A i \in 1..Len(items) : i \in before <=> i \in after,
         Len(items) + 1 \in after
  PROVE  Where(Append(items, e), after) = Append(Where(items, before), e)
<1> DEFINE N == Len(items)
           more == Append(items, e)
<1>1. /\ N \in Nat /\ more \in Seq(S) /\ Len(more) = N + 1 /\ more[N + 1] = e
      /\ \A i \in 1..N : more[i] = items[i]
  BY AppendFacts
<1> HIDE DEF more
<1>2. PICK g : Keeping(g, items, before, N) /\ Where(items, before) = g[N]
  BY <1>1, WhereIsKept
<1>3. PICK h : Keeping(h, more, after, N + 1) /\ Where(more, after) = h[N + 1]
  BY <1>1, WhereIsKept
<1>4. /\ g[0] = <<>>
      /\ \A m \in 1..N : /\ m - 1 \in 0..N /\ m \in 0..N
                         /\ m \in before => g[m] = Append(g[m - 1], items[m])
                         /\ m \notin before => g[m] = g[m - 1]
  BY <1>1, <1>2, KeepingStarts
<1>5. /\ h[0] = <<>>
      /\ \A m \in 1..(N + 1) : /\ m \in after => h[m] = Append(h[m - 1], more[m])
                               /\ m \notin after => h[m] = h[m - 1]
  BY <1>1, <1>3, KeepingStarts
<1> DEFINE T == {n \in 0..N : h[n] = g[n]}
<1>6. 0 \in T
  BY <1>1, <1>4, <1>5
<1>7. ASSUME NEW n \in 1..N, n - 1 \in T PROVE n \in T
  <2>1. h[n - 1] = g[n - 1] /\ n \in 0..N /\ n \in 1..(N + 1) /\ more[n] = items[n]
    BY <1>1, <1>4, <1>7
  <2>2. n \in before <=> n \in after
    OBVIOUS
  <2>3. h[n] = g[n]
    BY <1>4, <1>5, <2>1, <2>2
  <2>4. QED
    BY <2>1, <2>3
<1> HIDE DEF T
<1>8. N \in T
  BY <1>1, <1>6, <1>7, PrefixInduction
<1>9. h[N] = g[N]
  BY <1>8 DEF T
<1>10. h[N + 1] = Append(h[(N + 1) - 1], more[N + 1]) /\ (N + 1) - 1 = N
  BY <1>1, <1>5
<1>11. QED
  BY <1>1, <1>2, <1>3, <1>9, <1>10 DEF more

--------------------------------------------------------------------------------
(* What holds on the way from a command line to a running engine.          *)

USE StartupAssumption

Building == at \in {"market", "producer", "running"}
Checked == Building \/ at \in {"driving", "writer"}
Configured == Checked \/ at = "checking"

IdsDistinct == Distinct([i \in DOMAIN config.markets |-> config.markets[i].id])

\* (The provers do not know that a literal is a STRING.)
LoopRecords ==
  [market : STRING, feed : STRING \cup {"recorded"}, book : SUBSET config.book,
   heartbeat : BOOLEAN, rediscovery : BOOLEAN]
ProducerRecords == [market : STRING, name : STRING]
ComparisonRecords == [market : STRING, baseline : STRING, challenger : STRING]

StartupTypeOK ==
  /\ verb \in {"run", "report", "record", "replay"}
  /\ file \in Files
  /\ onlyNames \in NamesFlags
  /\ at \in {"typed", "opening", "loading", "checking", "driving", "writer", "market",
             "producer", "running", "over"}
  /\ config.markets \in Seq(MarketTable) /\ config.names \in Seq(STRING)
  /\ tapes \in Nat
  /\ loops \in Seq(LoopRecords)
  /\ producers \in Seq(ProducerRecords)
  /\ comparisons \in Seq(ComparisonRecords)

\* A replay has opened its recording before it reads the file.
OpenedFirst ==
  verb = "replay" /\ at \notin {"typed", "opening", "over"} => header \in Recordings

\* The flags narrow the file and change nothing else of it; a replay keeps its own market.
NarrowedWell ==
  Configured =>
    /\ config.book = file.book
    /\ config.markets # <<>> /\ config.names # <<>>
    /\ IdsDistinct /\ Distinct(config.names)
    /\ WantedMarket # NoFlag => \A i \in 1..Len(config.markets) : config.markets[i].id = WantedMarket

\* The checks that were passed.
CheckedWell ==
  /\ Checked => NamesOneMarket /\ SameUnderlying
  /\ Building => EveryPositionQuoted

\* The markets of the file are built in its order, and nothing is before the first.
MarketsBuilt ==
  /\ Building =>
       /\ Len(loops) <= Len(config.markets)
       /\ \A i \in 1..Len(loops) :
            loops[i] = Loop(config.markets[i]) /\ loops[i].book # {}
  /\ at = "producer" => loops # <<>>
  /\ at = "running" => Len(loops) = Len(config.markets)
  /\ at \notin {"market", "producer", "running", "over"} =>
       loops = <<>> /\ producers = <<>> /\ comparisons = <<>> /\ tapes = 0

\* The file of --recording is emptied when its market is built.
TapesCounted ==
  /\ tapes <= IF verb = "record" THEN 1 ELSE 0
  /\ Building => tapes = IF verb = "record" THEN Len(loops) ELSE 0

ProducerAt(i, j) == [market |-> config.markets[i].id, name |-> config.names[j]]
Versus(i, j) ==
  [market |-> config.markets[i].id, baseline |-> config.names[1], challenger |-> config.names[j]]

\* Markets whose producers are all built.
Done == IF at = "producer" THEN Len(loops) - 1 ELSE Len(loops)

Compared(n) == {Versus(i, j) : i \in 1..n, j \in 2..Len(config.names)}

\* No producer is built twice, and each is of a market built.
ProducersPlaced ==
  /\ Distinct(producers)
  /\ \A n \in 1..Len(producers) : \E i \in 1..Len(loops) : producers[n].market = loops[i].market

\* The producers of the last market are of the first few names, in order.
FirstNames(mine) ==
  /\ Len(mine) <= Len(config.names)
  /\ \A j \in 1..Len(mine) : mine[j] = ProducerAt(Len(loops), j)

ProducersBuilt ==
  Building =>
    /\ ProducersPlaced
    /\ at = "producer" => FirstNames(Built(Last(loops).market))
    /\ Distinct(comparisons) /\ ToSet(comparisons) = Compared(Done)

StartupInv ==
  /\ StartupTypeOK /\ OpenedFirst /\ NarrowedWell /\ CheckedWell
  /\ MarketsBuilt /\ TapesCounted /\ ProducersBuilt

--------------------------------------------------------------------------------
(* StartupInv is inductive.                                                *)

LEMMA StartupInitInv == StartupInit => StartupInv
<1> SUFFICES ASSUME StartupInit PROVE StartupInv
  OBVIOUS
<1>1. StartupTypeOK
  <2>1. <<>> \in Seq(MarketTable) /\ <<>> \in Seq(STRING)
    OBVIOUS
  <2>2. config.markets = <<>> /\ config.names = <<>> /\ config.book = {}
    BY DEF StartupInit
  <2>3. /\ loops \in Seq(LoopRecords)
        /\ producers \in Seq(ProducerRecords)
        /\ comparisons \in Seq(ComparisonRecords)
    BY DEF StartupInit
  <2>4. QED
    BY <2>1, <2>2, <2>3 DEF StartupInit, StartupTypeOK
<1>2. at = "typed" /\ loops = <<>> /\ producers = <<>> /\ comparisons = <<>> /\ tapes = 0
  BY DEF StartupInit
<1>3. OpenedFirst /\ NarrowedWell /\ CheckedWell /\ MarketsBuilt /\ TapesCounted /\ ProducersBuilt
  BY <1>2 DEF OpenedFirst, NarrowedWell, CheckedWell, MarketsBuilt, TapesCounted, ProducersBuilt,
              Configured, Checked, Building
<1>4. QED
  BY <1>1, <1>3 DEF StartupInv

\* A command that is over, with at most one file emptied behind it.
LEMMA OverInv ==
  ASSUME StartupInv, at' = "over",
         UNCHANGED <<command, config, loops, producers, comparisons>>,
         tapes' \in Nat, tapes' <= IF verb = "record" THEN 1 ELSE 0
  PROVE  StartupInv'
<1>1. StartupTypeOK'
  BY DEF StartupInv, StartupTypeOK, LoopRecords, command
<1>2. verb' = verb
  BY DEF command
<1>3. OpenedFirst' /\ NarrowedWell' /\ CheckedWell' /\ MarketsBuilt' /\ TapesCounted' /\ ProducersBuilt'
  BY <1>2 DEF OpenedFirst, NarrowedWell, CheckedWell, MarketsBuilt, TapesCounted, ProducersBuilt,
              Configured, Checked, Building
<1>4. QED
  BY <1>1, <1>3 DEF StartupInv

LEMMA LeaveInv ==
  ASSUME StartupInv, NEW status, Leave(status)
  PROVE  StartupInv'
<1>1. /\ at' = "over" /\ UNCHANGED <<command, config, loops, producers, comparisons>>
      /\ tapes' = tapes
  BY DEF Leave
<1>2. tapes \in Nat /\ tapes <= IF verb = "record" THEN 1 ELSE 0
  BY DEF StartupInv, StartupTypeOK, TapesCounted
<1>3. QED
  BY <1>1, <1>2, OverInv

\* Before the file is read nothing is built.
LEMMA EarlyInv ==
  ASSUME StartupInv, at \in {"typed", "opening"}, at' \in {"opening", "loading"},
         verb = "replay" /\ at' = "loading" => header' \in Recordings,
         UNCHANGED <<command, config, tapes, loops, producers, comparisons>>
  PROVE  StartupInv'
<1>1. StartupTypeOK'
  BY DEF StartupInv, StartupTypeOK, LoopRecords, command
<1>2. verb' = verb /\ loops = <<>> /\ producers = <<>> /\ comparisons = <<>> /\ tapes = 0
  BY DEF command, StartupInv, MarketsBuilt
<1>3. OpenedFirst' /\ NarrowedWell' /\ CheckedWell' /\ MarketsBuilt' /\ TapesCounted' /\ ProducersBuilt'
  BY <1>2 DEF OpenedFirst, NarrowedWell, CheckedWell, MarketsBuilt, TapesCounted, ProducersBuilt,
              Configured, Checked, Building
<1>4. QED
  BY <1>1, <1>3 DEF StartupInv

LEMMA CheckLimitInv == ASSUME StartupInv, CheckLimit PROVE StartupInv'
<1>1. CASE limit = "bad"
  BY <1>1, LeaveInv DEF CheckLimit, Refuse
<1>2. CASE limit # "bad"
  <2>1. /\ at = "typed" /\ at' = IF verb = "replay" THEN "opening" ELSE "loading"
        /\ UNCHANGED <<command, config, tapes, loops, producers, comparisons>>
    BY <1>2 DEF CheckLimit
  <2>2. QED
    BY <2>1, EarlyInv
<1>3. QED
  BY <1>1, <1>2

LEMMA OpenRecordingInv == ASSUME StartupInv, OpenRecording PROVE StartupInv'
<1>1. CASE Refuse
  BY <1>1, LeaveInv DEF Refuse
<1>2. CASE ~Refuse
  <2>1. /\ at = "opening" /\ at' = "loading" /\ header' \in Recordings
        /\ UNCHANGED <<command, config, tapes, loops, producers, comparisons>>
    BY <1>2 DEF OpenRecording
  <2>2. QED
    BY <2>1, EarlyInv
<1>3. QED
  BY <1>1, <1>2

\* What a file that loads is known to be.
LEMMA FileFacts ==
  ASSUME StartupTypeOK
  PROVE  /\ file.markets \in Seq(MarketTable) /\ file.names \in Seq(STRING)
         /\ onlyNames = NoFlag \/ onlyNames \in Seq(STRING)
         /\ Len(file.markets) \in Nat
BY DEF StartupTypeOK

LEMMA LoadedIds ==
  ASSUME StartupTypeOK, Loads(file), NEW i \in 1..Len(file.markets), NEW j \in 1..Len(file.markets),
         file.markets[i].id = file.markets[j].id
  PROVE  i = j
<1> DEFINE ids == [n \in DOMAIN file.markets |-> file.markets[n].id]
<1>1. IsInjective(ids)
  BY DEF Loads, MarketsTaken, Distinct
<1>2. i \in DOMAIN ids /\ j \in DOMAIN ids /\ ids[i] = ids[j]
  BY FileFacts
<1>3. QED
  BY <1>1, <1>2 DEF IsInjective

\* --market keeps the one market it names, a replay the one of its recording.
LEMMA MarketsNarrowed ==
  ASSUME StartupTypeOK, Loads(file), MarketsLeft # <<>>
  PROVE  /\ MarketsLeft \in Seq(MarketTable)
         /\ Distinct([i \in DOMAIN MarketsLeft |-> MarketsLeft[i].id])
         /\ WantedMarket # NoFlag =>
              \A i \in 1..Len(MarketsLeft) : MarketsLeft[i].id = WantedMarket
<1> DEFINE kept == {i \in DOMAIN file.markets : file.markets[i].id = WantedMarket}
<1>1. file.markets \in Seq(MarketTable) /\ DOMAIN file.markets = 1..Len(file.markets)
  BY FileFacts
<1>2. CASE WantedMarket = NoFlag
  <2>1. MarketsLeft = file.markets
    BY <1>2 DEF MarketsLeft
  <2>2. Distinct([i \in DOMAIN file.markets |-> file.markets[i].id])
    BY DEF Loads, MarketsTaken
  <2>3. QED
    BY <1>1, <1>2, <2>1, <2>2
<1>3. CASE WantedMarket # NoFlag
  <2>1. MarketsLeft = Where(file.markets, kept)
    BY <1>3 DEF MarketsLeft
  <2> HIDE DEF kept
  <2>2. PICK k \in 1..Len(file.markets) : k \in kept
    <3>1. SUFFICES ASSUME \A k \in 1..Len(file.markets) : k \notin kept PROVE FALSE
      OBVIOUS
    <3>2. /\ Where(file.markets, kept) \in Seq(MarketTable)
          /\ \A j \in 1..Len(Where(file.markets, kept)) : \E i \in 1..Len(file.markets) : i \in kept
      BY <1>1, WhereKeeps
    <3>3. Len(Where(file.markets, kept)) = 0
      BY <3>1, <3>2
    <3>4. Where(file.markets, kept) = <<>>
      BY <3>2, <3>3
    <3>5. QED
      BY <2>1, <3>4
  <2>3. kept \cap (1..Len(file.markets)) = {k}
    <3>1. ASSUME NEW i \in kept PROVE i = k
      BY <1>1, <2>2, <3>1, LoadedIds DEF kept
    <3>2. QED
      BY <2>2, <3>1
  <2>4. MarketsLeft = <<file.markets[k]>> /\ file.markets[k].id = WantedMarket
    <3>1. Where(file.markets, kept) = <<file.markets[k]>>
      BY <1>1, <2>3, WhereOne
    <3>2. QED
      BY <2>1, <2>2, <3>1 DEF kept
  <2>5. file.markets[k] \in MarketTable
    BY <1>1
  <2> DEFINE m == file.markets[k]
  <2> HIDE DEF m
  <2>6. MarketsLeft = <<m>> /\ m \in MarketTable /\ m.id = WantedMarket
    BY <2>4, <2>5 DEF m
  <2>7. MarketsLeft \in Seq(MarketTable) /\ Len(MarketsLeft) = 1 /\ MarketsLeft[1] = m
        /\ DOMAIN MarketsLeft = 1..1
    BY <2>6
  <2>8. Distinct([i \in DOMAIN MarketsLeft |-> MarketsLeft[i].id])
    BY <2>7 DEF Distinct, IsInjective
  <2>9. QED
    BY <2>6, <2>7, <2>8
<1>4. QED
  BY <1>2, <1>3

LEMMA ConfigureInv == ASSUME StartupInv, Configure PROVE StartupInv'
<1> USE DEF StartupInv
<1>1. CASE ~Loads(file) \/ MarketsLeft = <<>> \/ ~NamesKnown
  BY <1>1, LeaveInv DEF Configure, Refuse
<1>2. CASE ~(~Loads(file) \/ MarketsLeft = <<>> \/ ~NamesKnown) /\ ~Distinct(NamesLeft)
  <2>1. Leave(1)
    BY <1>2 DEF Configure
  <2>2. QED
    BY <2>1, LeaveInv
<1>3. CASE ~(~Loads(file) \/ MarketsLeft = <<>> \/ ~NamesKnown) /\ Distinct(NamesLeft)
  <2>1. /\ at = "loading" /\ at' = "checking" /\ config' = Narrowed
        /\ UNCHANGED <<command, header, tapes, loops, producers, comparisons>>
    BY <1>3 DEF Configure
  <2>2. /\ verb' = verb /\ file' = file /\ onlyNames' = onlyNames
        /\ WantedMarket' = WantedMarket
    BY <2>1 DEF command, WantedMarket
  <2>3. /\ config'.markets = MarketsLeft /\ config'.names = NamesLeft /\ config'.book = file.book
    BY <2>1 DEF Narrowed
  <2>4. loops = <<>> /\ producers = <<>> /\ comparisons = <<>> /\ tapes = 0
    BY <2>1 DEF MarketsBuilt
  <2>5. NamesLeft \in Seq(STRING) /\ NamesLeft # <<>>
    BY <1>3, FileFacts DEF NamesLeft, NamesKnown
  <2>6. /\ MarketsLeft \in Seq(MarketTable)
        /\ Distinct([i \in DOMAIN MarketsLeft |-> MarketsLeft[i].id])
        /\ WantedMarket # NoFlag => \A i \in 1..Len(MarketsLeft) : MarketsLeft[i].id = WantedMarket
    BY <1>3, MarketsNarrowed
  <2>7. StartupTypeOK'
    <3>1. loops' \in Seq(LoopRecords')
      BY <2>1, <2>4
    <3>2. QED
      BY <2>1, <2>2, <2>3, <2>5, <2>6, <3>1 DEF StartupTypeOK
  <2>8. OpenedFirst'
    BY <2>1, <2>2 DEF OpenedFirst
  <2>9. NarrowedWell'
    <3>1. IdsDistinct'
      BY <2>3, <2>6 DEF IdsDistinct
    <3>2. QED
      BY <1>3, <2>2, <2>3, <2>5, <2>6, <3>1 DEF NarrowedWell
  <2>10. CheckedWell' /\ MarketsBuilt' /\ TapesCounted' /\ ProducersBuilt'
    BY <2>1, <2>2, <2>4 DEF CheckedWell, MarketsBuilt, TapesCounted, ProducersBuilt, Checked, Building
  <2>11. QED
    BY <2>7, <2>8, <2>9, <2>10
<1>4. QED
  BY <1>1, <1>2, <1>3

\* The steps that only check, or open the sink: the configuration stands and nothing is built.
LEMMA CheckingKeeps ==
  ASSUME StartupInv, at \in {"checking", "driving", "writer"}, at' \in {"driving", "writer", "market"},
         UNCHANGED <<command, config, header, tapes, loops, producers, comparisons>>,
         NamesOneMarket /\ SameUnderlying,
         at' = "market" => EveryPositionQuoted
  PROVE  StartupInv'
<1> USE DEF StartupInv
<1>1. /\ verb' = verb /\ file' = file /\ onlyNames' = onlyNames /\ onlyMarket' = onlyMarket
      /\ WantedMarket' = WantedMarket
  BY DEF command, WantedMarket
<1>2. loops = <<>> /\ producers = <<>> /\ comparisons = <<>> /\ tapes = 0
  BY DEF MarketsBuilt
<1>3. StartupTypeOK'
  BY <1>1 DEF StartupTypeOK, LoopRecords
<1>4. OpenedFirst'
  BY <1>1 DEF OpenedFirst
<1>5. NarrowedWell'
  BY <1>1 DEF NarrowedWell, Configured, Checked, Building, IdsDistinct
<1>6. CheckedWell'
  BY <1>1 DEF CheckedWell, Checked, Building, NamesOneMarket, SameUnderlying, EveryPositionQuoted
<1>7. MarketsBuilt' /\ TapesCounted'
  <2>1. Len(config.markets) \in Nat
    BY DEF StartupTypeOK
  <2>2. QED
    BY <1>1, <1>2, <2>1 DEF MarketsBuilt, TapesCounted, Building
<1>8. ProducersBuilt'
  <2>1. CASE at' # "market"
    BY <2>1 DEF ProducersBuilt, Building
  <2>2. CASE at' = "market"
    <3>1. Distinct(producers') /\ Distinct(comparisons')
      BY <1>2 DEF Distinct, IsInjective
    <3>2. ToSet(comparisons') = {}
      BY <1>2 DEF ToSet
    <3>3. Done' = 0
      BY <1>2, <2>2 DEF Done
    <3>4. Compared(Done)' = {}
      BY <3>3 DEF Compared
    <3>5. ProducersPlaced'
      BY <1>2, <3>1 DEF ProducersPlaced
    <3>6. QED
      BY <2>2, <3>1, <3>2, <3>4, <3>5 DEF ProducersBuilt
  <2>3. QED
    BY <2>1, <2>2
<1>9. QED
  BY <1>3, <1>4, <1>5, <1>6, <1>7, <1>8

LEMMA CheckMarketsInv == ASSUME StartupInv, CheckMarkets PROVE StartupInv'
<1>1. CASE ~NamesOneMarket \/ ~SameUnderlying
  BY <1>1, LeaveInv DEF CheckMarkets, Refuse
<1>2. CASE NamesOneMarket /\ SameUnderlying
  <2>1. /\ at = "checking" /\ at' = "driving"
        /\ UNCHANGED <<command, config, header, tapes, loops, producers, comparisons>>
    BY <1>2 DEF CheckMarkets
  <2>2. QED
    BY <1>2, <2>1, CheckingKeeps
<1>3. QED
  BY <1>1, <1>2

LEMMA OpenSinkInv == ASSUME StartupInv, OpenSink PROVE StartupInv'
<1>1. CASE Refuse
  BY <1>1, LeaveInv DEF Refuse
<1>2. CASE ~Refuse
  <2>1. /\ at = "driving" /\ at' = "writer"
        /\ UNCHANGED <<command, config, header, tapes, loops, producers, comparisons>>
    BY <1>2 DEF OpenSink
  <2>2. NamesOneMarket /\ SameUnderlying
    BY <2>1 DEF StartupInv, CheckedWell, Checked
  <2>3. QED
    BY <2>1, <2>2, CheckingKeeps
<1>3. QED
  BY <1>1, <1>2

LEMMA MakeWriterInv == ASSUME StartupInv, MakeWriter PROVE StartupInv'
<1>1. CASE Refuse
  BY <1>1, LeaveInv DEF Refuse
<1>2. CASE ~Refuse
  <2>1. /\ at = "writer" /\ at' = "market" /\ EveryPositionQuoted
        /\ UNCHANGED <<command, config, header, tapes, loops, producers, comparisons>>
    BY <1>2 DEF MakeWriter
  <2>2. NamesOneMarket /\ SameUnderlying
    BY <2>1 DEF StartupInv, CheckedWell, Checked
  <2>3. QED
    BY <2>1, <2>2, CheckingKeeps
<1>3. QED
  BY <1>1, <1>2

--------------------------------------------------------------------------------
(* The steps of build_pipeline().                                          *)

\* The loop of a market is called after it, and values the positions on its underlying.
LEMMA LoopFacts ==
  ASSUME NEW m
  PROVE  /\ Loop(m).market = m.id /\ Loop(m).book = BookFor(m) /\ Loop(m).feed = Feed(m)
         /\ Loop(m).heartbeat = (HasTimers /\ m.quiet)
         /\ Loop(m).rediscovery = (HasTimers /\ m.rediscovery)
<1> DEFINE beats == HasTimers /\ m.quiet
           asks == HasTimers /\ m.rediscovery
           made == [market |-> m.id, feed |-> Feed(m), book |-> BookFor(m),
                    heartbeat |-> beats, rediscovery |-> asks]
<1>1. Loop(m) = made
  BY DEF Loop
<1> HIDE DEF beats, asks
<1>2. /\ made.market = m.id /\ made.book = BookFor(m) /\ made.feed = Feed(m)
      /\ made.heartbeat = beats /\ made.rediscovery = asks
  OBVIOUS
<1> HIDE DEF made
<1>3. QED
  BY <1>1, <1>2 DEF beats, asks

LEMMA LoopTyped ==
  ASSUME NEW m \in MarketTable
  PROVE  Loop(m) \in LoopRecords
<1> DEFINE beats == HasTimers /\ m.quiet
           asks == HasTimers /\ m.rediscovery
<1>1. m.id \in STRING /\ m.provider \in STRING
  BY DEF MarketTable
<1>2. Feed(m) \in STRING \cup {"recorded"}
  <2>1. CASE verb = "replay"
    BY <2>1 DEF Feed
  <2>2. CASE verb # "replay"
    BY <1>1, <2>2 DEF Feed
  <2>3. QED
    BY <2>1, <2>2
<1>3. BookFor(m) \in SUBSET config.book
  BY DEF BookFor
<1>4. beats \in BOOLEAN /\ asks \in BOOLEAN
  OBVIOUS
<1>5. Loop(m) = [market |-> m.id, feed |-> Feed(m), book |-> BookFor(m),
                 heartbeat |-> beats, rediscovery |-> asks]
  BY DEF Loop
<1> HIDE DEF beats, asks
<1>6. QED
  BY <1>1, <1>2, <1>3, <1>4, <1>5 DEF LoopRecords

\* What is known of the configuration while the graph is built.
LEMMA BuildFacts ==
  ASSUME StartupInv, Building
  PROVE  /\ config.markets \in Seq(MarketTable) /\ config.names \in Seq(STRING)
         /\ Len(config.markets) \in Nat /\ Len(config.names) \in Nat \ {0}
         /\ Len(loops) \in Nat /\ Len(producers) \in Nat
         /\ Len(loops) <= Len(config.markets)
         /\ \A i \in 1..Len(loops) :
              /\ i \in 1..Len(config.markets)
              /\ loops[i] = Loop(config.markets[i]) /\ loops[i].market = config.markets[i].id
         /\ \A i, j \in 1..Len(config.markets) :
              config.markets[i].id = config.markets[j].id => i = j
         /\ \A i, j \in 1..Len(config.names) : config.names[i] = config.names[j] => i = j
<1> USE DEF StartupInv
<1>1. /\ config.markets \in Seq(MarketTable) /\ config.names \in Seq(STRING)
      /\ Len(config.markets) \in Nat /\ Len(config.names) \in Nat
      /\ Len(loops) \in Nat /\ Len(producers) \in Nat
      /\ DOMAIN config.markets = 1..Len(config.markets) /\ DOMAIN config.names = 1..Len(config.names)
  BY DEF StartupTypeOK
<1>2. config.names # <<>> /\ IdsDistinct /\ Distinct(config.names)
  BY DEF NarrowedWell, Configured, Checked
<1>3. Len(config.names) # 0
  BY <1>1, <1>2
<1>4. /\ Len(loops) <= Len(config.markets)
      /\ \A i \in 1..Len(loops) : loops[i] = Loop(config.markets[i])
  BY DEF MarketsBuilt
<1>5. \A i \in 1..Len(loops) : i \in 1..Len(config.markets) /\ loops[i].market = config.markets[i].id
  BY <1>1, <1>4, LoopFacts
<1>6. \A i, j \in 1..Len(config.markets) : config.markets[i].id = config.markets[j].id => i = j
  <2> DEFINE ids == [n \in DOMAIN config.markets |-> config.markets[n].id]
  <2>1. SUFFICES ASSUME NEW i \in 1..Len(config.markets), NEW j \in 1..Len(config.markets),
                        config.markets[i].id = config.markets[j].id
                 PROVE  i = j
    OBVIOUS
  <2>2. IsInjective(ids) /\ i \in DOMAIN ids /\ j \in DOMAIN ids /\ ids[i] = ids[j]
    BY <1>1, <1>2, <2>1 DEF IdsDistinct, Distinct
  <2>3. QED
    BY <2>2 DEF IsInjective
<1>7. \A i, j \in 1..Len(config.names) : config.names[i] = config.names[j] => i = j
  BY <1>1, <1>2 DEF Distinct, IsInjective
<1>8. Len(config.names) \in Nat \ {0}
  BY <1>1, <1>3
<1>9. \A i \in 1..Len(loops) :
        /\ i \in 1..Len(config.markets)
        /\ loops[i] = Loop(config.markets[i]) /\ loops[i].market = config.markets[i].id
  BY <1>4, <1>5
<1>10. QED
  BY <1>1, <1>4, <1>6, <1>7, <1>8, <1>9

\* What every step of the building leaves as it was.
LEMMA BuildingKeeps ==
  ASSUME StartupInv, Building, Building', UNCHANGED <<command, config, header>>
  PROVE  /\ OpenedFirst' /\ NarrowedWell' /\ CheckedWell'
         /\ verb' = verb /\ file' = file /\ onlyNames' = onlyNames
<1> USE DEF StartupInv
<1>1. /\ verb' = verb /\ file' = file /\ onlyNames' = onlyNames /\ onlyMarket' = onlyMarket
      /\ WantedMarket' = WantedMarket
  BY DEF command, WantedMarket
<1>2. OpenedFirst'
  BY <1>1 DEF OpenedFirst, Building
<1>3. NarrowedWell'
  BY <1>1 DEF NarrowedWell, Configured, Checked, Building, IdsDistinct
<1>4. CheckedWell'
  BY <1>1 DEF CheckedWell, Checked, Building, NamesOneMarket, SameUnderlying, EveryPositionQuoted
<1>5. QED
  BY <1>1, <1>2, <1>3, <1>4

\* The producers built of a market are those of the list that name it.
LEMMA BuiltFacts ==
  ASSUME StartupTypeOK, NEW id
  PROVE  /\ Built(id) \in Seq(ProducerRecords)
         /\ \A j \in 1..Len(Built(id)) : \E n \in 1..Len(producers) :
              producers[n].market = id /\ Built(id)[j] = producers[n]
         /\ \A n \in 1..Len(producers) :
              producers[n].market = id => \E j \in 1..Len(Built(id)) : Built(id)[j] = producers[n]
<1> DEFINE kept == {n \in DOMAIN producers : producers[n].market = id}
           built == Where(producers, kept)
<1>1. producers \in Seq(ProducerRecords) /\ DOMAIN producers = 1..Len(producers)
  BY DEF StartupTypeOK
<1>2. Built(id) = built
  BY DEF Built
<1>3. \A n \in 1..Len(producers) : n \in kept <=> producers[n].market = id
  BY <1>1
<1> HIDE DEF kept
<1> HIDE DEF built
<1>4. /\ built \in Seq(ProducerRecords)
      /\ \A j \in 1..Len(built) : \E n \in 1..Len(producers) : n \in kept /\ built[j] = producers[n]
      /\ \A n \in 1..Len(producers) :
           n \in kept => \E j \in 1..Len(built) : built[j] = producers[n]
  <2>1. Where(producers, kept) \in Seq(ProducerRecords)
    BY <1>1, WhereKeeps
  <2>2. \A j \in 1..Len(Where(producers, kept)) :
          \E n \in 1..Len(producers) : n \in kept /\ Where(producers, kept)[j] = producers[n]
    BY <1>1, WhereKeeps
  <2>3. \A n \in 1..Len(producers) :
          n \in kept => \E j \in 1..Len(Where(producers, kept)) :
                          Where(producers, kept)[j] = producers[n]
    BY <1>1, <2>1, WhereKeeps
  <2>4. QED
    BY <2>1, <2>2, <2>3 DEF built
<1>5. ASSUME NEW j \in 1..Len(built)
      PROVE  \E n \in 1..Len(producers) : producers[n].market = id /\ built[j] = producers[n]
  BY <1>3, <1>4
<1>6. ASSUME NEW n \in 1..Len(producers), producers[n].market = id
      PROVE  \E j \in 1..Len(built) : built[j] = producers[n]
  BY <1>3, <1>4, <1>6
<1>7. QED
  BY <1>2, <1>4, <1>5, <1>6

LEMMA BuiltGrows ==
  ASSUME StartupTypeOK, NEW p \in ProducerRecords,
         producers' = Append(producers, p)
  PROVE  Built(p.market)' = Append(Built(p.market), p)
<1> DEFINE S == ProducerRecords
           N == Len(producers)
           before == {n \in DOMAIN producers : producers[n].market = p.market}
           after == {n \in DOMAIN producers' : producers'[n].market = p.market}
<1>1. producers \in Seq(S) /\ p \in S /\ N \in Nat /\ DOMAIN producers = 1..N
  BY DEF StartupTypeOK
<1> HIDE DEF S
<1>2. /\ producers' \in Seq(S) /\ Len(producers') = N + 1 /\ producers'[N + 1] = p
      /\ \A n \in 1..N : producers'[n] = producers[n]
  BY <1>1, AppendFacts
<1>3. DOMAIN producers' = 1..(N + 1)
  BY <1>2
<1>4. (\A n \in 1..N : n \in before <=> n \in after) /\ N + 1 \in after
  BY <1>1, <1>2, <1>3
<1>5. Built(p.market) = Where(producers, before) /\ Built(p.market)' = Where(producers', after)
  BY DEF Built
<1> HIDE DEF before, after
<1>6. Where(Append(producers, p), after) = Append(Where(producers, before), p)
  BY <1>1, <1>4, WhereGrows
<1>7. QED
  BY <1>5, <1>6

LEMMA BuildMarketInv == ASSUME StartupInv, BuildMarket PROVE StartupInv'
<1> USE DEF StartupInv
<1>1. at = "market" /\ Len(loops) < Len(config.markets) /\ Building
  BY DEF BuildMarket, Building
<1>2. CASE Refuse
  BY <1>2, LeaveInv DEF Refuse
<1>3. CASE at' = "over" /\ ~Refuse
  <2>1. /\ UNCHANGED <<command, config, loops, producers, comparisons>>
        /\ tapes' = IF verb = "record" THEN tapes + 1 ELSE tapes
    BY <1>3 DEF BuildMarket
  <2>2. verb = "record" => Len(config.markets) = 1 /\ tapes = Len(loops)
    BY <1>1 DEF CheckedWell, Checked, NamesOneMarket, TapesCounted
  <2>3. verb # "record" => tapes = 0
    BY <1>1 DEF TapesCounted
  <2>4. tapes' \in Nat /\ tapes' <= IF verb = "record" THEN 1 ELSE 0
    BY <1>1, <2>1, <2>2, <2>3, BuildFacts
  <2>5. QED
    BY <1>3, <2>1, <2>4, OverInv
<1>4. CASE at' # "over"
  <2> DEFINE m == Market
             k == Len(loops) + 1
  <2>1. /\ at' = "producer" /\ BookFor(m) # {}
        /\ UNCHANGED <<command, config, header, producers, comparisons>>
        /\ loops' = Append(loops, Loop(m))
        /\ tapes' = IF verb = "record" THEN tapes + 1 ELSE tapes
    BY <1>4 DEF BuildMarket, Refuse, Leave
  <2>2. k \in 1..Len(config.markets) /\ m = config.markets[k] /\ m \in MarketTable
    BY <1>1, BuildFacts DEF Market
  <2> HIDE DEF m
  <2>3. /\ Building' /\ OpenedFirst' /\ NarrowedWell' /\ CheckedWell'
        /\ verb' = verb /\ file' = file /\ onlyNames' = onlyNames
    <3>1. Building'
      BY <2>1 DEF Building
    <3>2. QED
      BY <1>1, <2>1, <3>1, BuildingKeeps
  <2>4. loops \in Seq(LoopRecords) /\ Loop(m) \in LoopRecords
    BY <2>2, LoopTyped DEF StartupTypeOK
  <2>5. /\ loops' \in Seq(LoopRecords) /\ Len(loops') = k /\ loops'[k] = Loop(m) /\ loops' # <<>>
        /\ \A i \in 1..Len(loops) : loops'[i] = loops[i]
    BY <2>1, <2>4, AppendFacts
  <2>6. Len(loops) \in Nat /\ \A i \in 1..k : i \in 1..Len(loops) \/ i = k
    BY <1>1, BuildFacts
  <2>7. tapes' \in Nat
    BY <2>1 DEF StartupTypeOK
  <2>8. StartupTypeOK'
    <3>1. LoopRecords' = LoopRecords
      BY <2>1 DEF LoopRecords
    <3>2. QED
      BY <2>1, <2>3, <2>5, <2>7, <3>1 DEF StartupTypeOK
  <2>9. Loop(m).book # {} /\ Loop(m).market = m.id
    BY <2>1, LoopFacts
  <2>14. \A i \in 1..Len(config.markets) : Loop(config.markets[i])' = Loop(config.markets[i])
    <3>1. config' = config /\ HasTimers' = HasTimers
      BY <2>1, <2>3 DEF HasTimers
    <3>2. ASSUME NEW i \in 1..Len(config.markets)
          PROVE  /\ Feed(config.markets[i])' = Feed(config.markets[i])
                 /\ BookFor(config.markets[i])' = BookFor(config.markets[i])
      BY <2>3, <3>1 DEF Feed, BookFor
    <3>3. QED
      BY <3>1, <3>2 DEF Loop
  <2>10. MarketsBuilt'
    <3>1. ASSUME NEW i \in 1..k
          PROVE  loops'[i] = Loop(config.markets[i])' /\ loops'[i].book # {}
      <4>1. CASE i = k
        <5>1. loops'[k] = Loop(config.markets[k]) /\ loops'[k].book # {}
          BY <2>2, <2>5, <2>9
        <5>2. QED
          BY <2>2, <2>14, <4>1, <5>1
      <4>2. CASE i \in 1..Len(loops)
        <5>1. loops'[i] = loops[i] /\ loops[i] = Loop(config.markets[i]) /\ loops[i].book # {}
          BY <1>1, <2>5, <4>2 DEF MarketsBuilt
        <5>2. i \in 1..Len(config.markets)
          BY <1>1, <4>2, BuildFacts
        <5>3. QED
          BY <2>14, <5>1, <5>2
      <4>3. QED
        BY <2>6, <4>1, <4>2
    <3>2. k <= Len(config.markets)
      BY <2>2
    <3>3. QED
      BY <2>1, <2>5, <3>1, <3>2 DEF MarketsBuilt
  <2>11. TapesCounted'
    <3>1. verb = "record" => Len(config.markets) = 1 /\ tapes = Len(loops)
      BY <1>1 DEF CheckedWell, Checked, NamesOneMarket, TapesCounted
    <3>2. verb # "record" => tapes = 0
      BY <1>1 DEF TapesCounted
    <3>3. verb = "record" => tapes' = 1 /\ k = 1
      <4>1. ASSUME verb = "record" PROVE Len(loops) = 0
        <5>1. Len(loops) \in Nat
          BY <2>6
        <5>2. Len(loops) < 1
          BY <1>1, <3>1, <4>1
        <5>3. QED
          BY <5>1, <5>2
      <4>2. QED
        BY <2>1, <3>1, <4>1
    <3>4. QED
      BY <2>1, <2>3, <2>5, <3>2, <3>3 DEF TapesCounted
  <2>12. ProducersBuilt'
    <3>1. /\ Distinct(producers) /\ Distinct(comparisons)
          /\ \A n \in 1..Len(producers) : \E i \in 1..Len(loops) : producers[n].market = loops[i].market
          /\ ToSet(comparisons) = Compared(Len(loops))
      BY <1>1 DEF ProducersBuilt, ProducersPlaced, Done
    <3>2. \A n \in 1..Len(producers) : \E i \in 1..Len(loops') : producers[n].market = loops'[i].market
      <4>1. \A i \in 1..Len(loops) : i \in 1..Len(loops') /\ loops'[i] = loops[i]
        BY <2>5, <2>6
      <4>2. QED
        BY <3>1, <4>1
    <3>3. Last(loops').market = m.id
      BY <2>5, <2>9 DEF Last
    <3>4. Built(m.id) = <<>>
      <4>1. ASSUME NEW n \in 1..Len(producers) PROVE producers[n].market # m.id
        <5>1. PICK i \in 1..Len(loops) : producers[n].market = loops[i].market
          BY <3>1
        <5>2. i \in 1..Len(config.markets) /\ loops[i].market = config.markets[i].id /\ i # k
          BY <1>1, <2>6, BuildFacts
        <5>3. QED
          BY <1>1, <2>2, <5>1, <5>2, BuildFacts
      <4>2. /\ Built(m.id) \in Seq(ProducerRecords)
            /\ ~\E j \in 1..Len(Built(m.id)) : TRUE
        BY <4>1, BuiltFacts
      <4>3. Len(Built(m.id)) = 0
        BY <4>2
      <4>4. QED
        BY <4>2, <4>3
    <3>5. Built(Last(loops).market)' = <<>>
      BY <2>1, <3>3, <3>4 DEF Built
    <3>6. FirstNames(Built(Last(loops).market))'
      <4>1. Len(config.names) \in Nat
        BY <1>1, BuildFacts
      <4>2. QED
        BY <2>1, <3>5, <4>1 DEF FirstNames
    <3>7. Done' = Len(loops)
      BY <2>1, <2>5, <2>6 DEF Done
    <3>8. Compared(Done)' = Compared(Len(loops))
      BY <2>1, <3>7 DEF Compared, Versus
    <3>9. ProducersPlaced'
      BY <2>1, <3>1, <3>2 DEF ProducersPlaced
    <3>10. QED
      BY <2>1, <3>1, <3>6, <3>8, <3>9 DEF ProducersBuilt
  <2>13. QED
    BY <2>3, <2>8, <2>10, <2>11, <2>12
<1>5. QED
  BY <1>2, <1>3, <1>4

LEMMA BuildProducerInv == ASSUME StartupInv, BuildProducer PROVE StartupInv'
<1> USE DEF StartupInv
<1>1. CASE ~ProducerBuilds(NextName)
  BY <1>1, LeaveInv DEF BuildProducer, Refuse
<1>2. CASE ProducerBuilds(NextName)
  <2> DEFINE id == Last(loops).market
             k == Len(Built(id)) + 1
             p == [market |-> id, name |-> config.names[k]]
             S == ProducerRecords
             L == Len(loops)
             N == Len(producers)
  <2>1. /\ at = "producer" /\ at' = at /\ Building /\ Building'
        /\ Len(Built(id)) < Len(config.names)
        /\ producers' = Append(producers, p)
        /\ UNCHANGED <<command, config, header, tapes, loops, comparisons>>
    BY <1>2 DEF BuildProducer, Building, NextName
  <2>2. /\ L \in Nat /\ loops # <<>> /\ L \in 1..L /\ loops[L].market = id
        /\ id = config.markets[L].id /\ L \in 1..Len(config.markets)
    <3>1. loops # <<>> /\ L \in Nat
      BY <2>1 DEF MarketsBuilt, StartupTypeOK
    <3>2. L \in 1..L
      BY <3>1 DEF StartupTypeOK
    <3>3. QED
      BY <2>1, <3>1, <3>2, BuildFacts DEF Last
  <2>3. Built(id) \in Seq(S) /\ Len(Built(id)) \in Nat /\ k \in 1..Len(config.names)
    BY <2>1, BuiltFacts
  <2>4. p \in S /\ p.market = id /\ p.name = config.names[k]
    <3>1. config.markets[L] \in MarketTable /\ config.names[k] \in STRING
      BY <2>1, <2>2, <2>3, BuildFacts
    <3>2. id \in STRING
      BY <2>2, <3>1 DEF MarketTable
    <3>3. QED
      BY <3>1, <3>2 DEF ProducerRecords
  <2>5. producers \in Seq(S) /\ N \in Nat
    BY DEF StartupTypeOK
  <2> DEFINE mine == Built(id)
  <2>6. Built(id)' = Append(mine, p)
    BY <2>1, <2>4, BuiltGrows
  <2>7. /\ \A j \in 1..Len(mine) : mine[j] = ProducerAt(L, j)
        /\ Distinct(producers) /\ Distinct(comparisons)
        /\ \A n \in 1..N : \E i \in 1..L : producers[n].market = loops[i].market
        /\ ToSet(comparisons) = Compared(Done)
    BY <2>1 DEF ProducersBuilt, ProducersPlaced, FirstNames
  <2>8. p = ProducerAt(L, k)
    BY <2>2 DEF ProducerAt
  <2>9. ASSUME NEW n \in 1..N PROVE producers[n] # p
    <3>1. SUFFICES ASSUME producers[n] = p PROVE FALSE
      OBVIOUS
    <3>2. producers[n].market = id
      BY <2>4, <3>1
    <3>3. PICK j \in 1..Len(mine) : mine[j] = producers[n]
      BY <3>2, BuiltFacts
    <3>4. producers[n] = ProducerAt(L, j)
      BY <2>7, <3>3
    <3>5. config.names[j] = config.names[k]
      BY <2>8, <3>1, <3>4 DEF ProducerAt
    <3>6. j \in 1..Len(config.names) /\ j # k
      BY <2>1, <2>3, BuildFacts
    <3>7. QED
      BY <2>1, <2>3, <3>5, <3>6, BuildFacts
  <2> HIDE DEF p, S, mine, id, k
  <2>10. /\ producers' \in Seq(S) /\ Len(producers') = N + 1 /\ producers'[N + 1] = p
         /\ \A n \in 1..N : producers'[n] = producers[n]
    BY <2>1, <2>4, <2>5, AppendFacts
  <2>11. /\ OpenedFirst' /\ NarrowedWell' /\ CheckedWell'
         /\ verb' = verb /\ file' = file /\ onlyNames' = onlyNames
    BY <2>1, BuildingKeeps
  <2>12. StartupTypeOK'
    BY <2>1, <2>10, <2>11 DEF StartupTypeOK, LoopRecords, S
  <2>13. MarketsBuilt' /\ TapesCounted'
    BY <2>1, <2>11 DEF MarketsBuilt, TapesCounted, Loop, BookFor, Feed, HasTimers
  <2>14. Distinct(producers')
    <3>1. DOMAIN producers' = 1..(N + 1) /\ DOMAIN producers = 1..N
      BY <2>5, <2>10
    <3>2. ASSUME NEW a \in 1..(N + 1), NEW b \in 1..(N + 1), producers'[a] = producers'[b]
          PROVE  a = b
      <4>1. (a \in 1..N \/ a = N + 1) /\ (b \in 1..N \/ b = N + 1)
        BY <2>5
      <4>2. CASE a \in 1..N /\ b \in 1..N
        BY <2>7, <2>10, <3>1, <3>2, <4>2 DEF Distinct, IsInjective
      <4>3. CASE a = N + 1 /\ b = N + 1
        BY <4>3
      <4>4. CASE (a \in 1..N /\ b = N + 1) \/ (b \in 1..N /\ a = N + 1)
        BY <2>9, <2>10, <3>2, <4>4
      <4>5. QED
        BY <4>1, <4>2, <4>3, <4>4
    <3>3. QED
      BY <3>1, <3>2 DEF Distinct, IsInjective
  <2>15. \A n \in 1..(N + 1) : \E i \in 1..L : producers'[n].market = loops[i].market
    <3>1. \A n \in 1..(N + 1) : n \in 1..N \/ n = N + 1
      BY <2>5
    <3>2. QED
      BY <2>2, <2>4, <2>7, <2>10, <3>1
  <2>16. /\ Len(Append(mine, p)) = k /\ k <= Len(config.names)
         /\ \A j \in 1..k : Append(mine, p)[j] = ProducerAt(L, j)
    <3>1. mine \in Seq(S) /\ Len(mine) \in Nat /\ k = Len(mine) + 1
      BY <2>3 DEF mine, k
    <3>2. /\ Len(Append(mine, p)) = k /\ Append(mine, p)[k] = p
          /\ \A j \in 1..Len(mine) : Append(mine, p)[j] = mine[j]
      BY <2>4, <3>1, AppendFacts
    <3>3. \A j \in 1..k : j \in 1..Len(mine) \/ j = k
      BY <3>1
    <3>4. QED
      BY <2>3, <2>7, <2>8, <3>2, <3>3
  <2>17. ProducersBuilt'
    <3>1. Built(Last(loops).market)' = Append(mine, p)
      BY <2>1, <2>6 DEF id, Built
    <3>2. FirstNames(Built(Last(loops).market))'
      BY <2>1, <2>16, <3>1 DEF FirstNames, ProducerAt
    <3>3. Compared(Done)' = Compared(Done)
      BY <2>1 DEF Done, Compared, Versus
    <3>4. ProducersPlaced'
      BY <2>1, <2>10, <2>14, <2>15 DEF ProducersPlaced
    <3>5. QED
      BY <2>1, <2>7, <3>2, <3>3, <3>4 DEF ProducersBuilt
  <2>18. QED
    BY <2>11, <2>12, <2>13, <2>17
<1>3. QED
  BY <1>1, <1>2

\* A sequence followed by another, of other items.
LEMMA ConcatItems ==
  ASSUME NEW S, NEW s \in Seq(S), NEW t \in Seq(S)
  PROVE  /\ s \o t \in Seq(S)
         /\ ToSet(s \o t) = ToSet(s) \cup ToSet(t)
         /\ Distinct(s) /\ Distinct(t) /\ ToSet(s) \cap ToSet(t) = {} => Distinct(s \o t)
<1> DEFINE both == s \o t
           M == Len(s)
           N == Len(t)
<1>1. /\ both \in Seq(S) /\ Len(both) = M + N /\ M \in Nat /\ N \in Nat
      /\ DOMAIN both = 1..(M + N) /\ DOMAIN s = 1..M /\ DOMAIN t = 1..N
      /\ \A i \in 1..M : both[i] = s[i]
      /\ \A i \in 1..N : both[M + i] = t[i]
  OBVIOUS
<1> HIDE DEF both, M, N
<1>2. \A i \in 1..(M + N) : i \in 1..M \/ (i - M \in 1..N /\ M + (i - M) = i)
  BY <1>1
<1>3. /\ \A i \in 1..M : i \in 1..(M + N)
      /\ \A i \in 1..N : M + i \in 1..(M + N)
  BY <1>1
<1>4. ToSet(both) = ToSet(s) \cup ToSet(t)
  <2>1. ASSUME NEW e \in ToSet(both) PROVE e \in ToSet(s) \cup ToSet(t)
    <3>1. PICK i \in 1..(M + N) : e = both[i]
      BY <1>1, <2>1 DEF ToSet
    <3>2. CASE i \in 1..M
      BY <1>1, <3>1, <3>2 DEF ToSet
    <3>3. CASE i - M \in 1..N /\ M + (i - M) = i
      <4>1. both[i] = t[i - M] /\ t[i - M] \in ToSet(t)
        BY <1>1, <3>3 DEF ToSet
      <4>2. QED
        BY <3>1, <4>1
    <3>4. QED
      BY <1>2, <3>2, <3>3
  <2>2. ASSUME NEW e \in ToSet(s) PROVE e \in ToSet(both)
    <3>1. PICK i \in 1..M : e = s[i]
      BY <1>1, <2>2 DEF ToSet
    <3>2. QED
      BY <1>1, <1>3, <3>1 DEF ToSet
  <2>3. ASSUME NEW e \in ToSet(t) PROVE e \in ToSet(both)
    <3>1. PICK i \in 1..N : e = t[i]
      BY <1>1, <2>3 DEF ToSet
    <3>2. QED
      BY <1>1, <1>3, <3>1 DEF ToSet
  <2>4. QED
    BY <2>1, <2>2, <2>3
<1>5. ASSUME Distinct(s), Distinct(t), ToSet(s) \cap ToSet(t) = {} PROVE Distinct(both)
  <2>1. SUFFICES ASSUME NEW i \in 1..(M + N), NEW j \in 1..(M + N), both[i] = both[j] PROVE i = j
    BY <1>1 DEF Distinct, IsInjective
  <2>2. ASSUME NEW k \in 1..M, NEW l \in 1..N PROVE s[k] # t[l]
    <3>1. s[k] \in ToSet(s) /\ t[l] \in ToSet(t)
      BY <1>1 DEF ToSet
    <3>2. QED
      BY <1>5, <3>1
  <2>3. CASE i \in 1..M /\ j \in 1..M
    BY <1>1, <1>5, <2>1, <2>3 DEF Distinct, IsInjective
  <2>4. CASE i - M \in 1..N /\ j - M \in 1..N
    <3>1. t[i - M] = t[j - M]
      <4>1. both[M + (i - M)] = t[i - M] /\ both[M + (j - M)] = t[j - M]
        BY <1>1, <2>4
      <4>2. M + (i - M) = i /\ M + (j - M) = j
        BY <1>1
      <4>3. QED
        BY <2>1, <4>1, <4>2
    <3>2. i - M = j - M
      BY <1>1, <1>5, <2>4, <3>1 DEF Distinct, IsInjective
    <3>3. QED
      BY <1>1, <3>2
  <2>5. CASE i \in 1..M /\ j - M \in 1..N
    <3>1. both[i] = s[i] /\ both[M + (j - M)] = t[j - M] /\ M + (j - M) = j
      BY <1>1, <2>5
    <3>2. QED
      BY <2>1, <2>2, <2>5, <3>1
  <2>6. CASE i - M \in 1..N /\ j \in 1..M
    <3>1. both[j] = s[j] /\ both[M + (i - M)] = t[i - M] /\ M + (i - M) = i
      BY <1>1, <2>6
    <3>2. QED
      BY <2>1, <2>2, <2>6, <3>1
  <2>7. QED
    BY <1>2, <2>3, <2>4, <2>5, <2>6
<1>6. QED
  BY <1>1, <1>4, <1>5 DEF both

LEMMA FinishMarketInv == ASSUME StartupInv, FinishMarket PROVE StartupInv'
<1> USE DEF StartupInv
<1> DEFINE L == Len(loops)
           K == Len(config.names)
           id == Last(loops).market
           mine == Built(id)
           added == ComparisonsFor(id)
<1>1. /\ at = "producer" /\ at' = "market" /\ Building /\ Building'
      /\ Len(mine) = K /\ comparisons' = comparisons \o added
      /\ UNCHANGED <<command, config, header, tapes, loops, producers>>
  BY DEF FinishMarket, Building
<1>2. /\ L \in Nat /\ loops # <<>> /\ L \in 1..L /\ L \in 1..Len(config.markets)
      /\ id = config.markets[L].id
  <2>1. loops # <<>> /\ L \in Nat
    BY <1>1 DEF MarketsBuilt, StartupTypeOK
  <2>2. L \in 1..L
    BY <2>1 DEF StartupTypeOK
  <2>3. QED
    BY <1>1, <2>1, <2>2, BuildFacts DEF Last
<1>3. /\ K \in Nat \ {0}
      /\ \A i, j \in 1..K : config.names[i] = config.names[j] => i = j
      /\ \A i, j \in 1..Len(config.markets) : config.markets[i].id = config.markets[j].id => i = j
      /\ \A i \in 1..Len(config.markets) : config.markets[i].id \in STRING
      /\ \A j \in 1..K : config.names[j] \in STRING
  <2>1. config.markets \in Seq(MarketTable) /\ config.names \in Seq(STRING)
    BY <1>1, BuildFacts
  <2>2. \A i \in 1..Len(config.markets) : config.markets[i] \in MarketTable
    BY <2>1
  <2>3. \A i \in 1..Len(config.markets) : config.markets[i].id \in STRING
    BY <2>2 DEF MarketTable
  <2>4. QED
    BY <1>1, <2>1, <2>3, BuildFacts
<1>4. /\ \A j \in 1..K : mine[j] = ProducerAt(L, j)
      /\ ProducersPlaced /\ Distinct(comparisons) /\ ToSet(comparisons) = Compared(L - 1)
  BY <1>1 DEF ProducersBuilt, FirstNames, Done
<1> HIDE DEF mine, id
<1>5. \A i \in 1..(K - 1) : i + 1 \in 1..K /\ i + 1 \in 2..K
  BY <1>3
<1>6. /\ DOMAIN added = 1..(K - 1)
      /\ \A i \in 1..(K - 1) : added[i] = Versus(L, i + 1)
  <2>1. added = [i \in 1..(K - 1) |->
                   [market |-> id, baseline |-> mine[1].name, challenger |-> mine[i + 1].name]]
    BY <1>1 DEF ComparisonsFor, mine
  <2>2. \A j \in 1..K : mine[j].name = config.names[j]
    <3>1. \A j : ProducerAt(L, j).name = config.names[j]
      BY DEF ProducerAt
    <3>2. QED
      BY <1>4, <3>1
  <2>3. /\ mine[1].name = config.names[1]
        /\ \A i \in 1..(K - 1) : mine[i + 1].name = config.names[i + 1]
    <3>1. 1 \in 1..K
      BY <1>3
    <3>2. QED
      BY <1>5, <2>2, <3>1
  <2>4. QED
    BY <1>2, <2>1, <2>2, <2>3 DEF Versus
<1> HIDE DEF added, K, L
<1>7. added \in Seq(ComparisonRecords)
  <2>1. \A i \in 1..(K - 1) : added[i] \in ComparisonRecords
    <3>1. SUFFICES ASSUME NEW i \in 1..(K - 1) PROVE Versus(L, i + 1) \in ComparisonRecords
      BY <1>6
    <3>2. /\ config.markets[L].id \in STRING /\ config.names[1] \in STRING
          /\ config.names[i + 1] \in STRING
      BY <1>2, <1>3, <1>5
    <3>3. QED
      BY <3>2 DEF Versus, ComparisonRecords
  <2>2. added = [i \in 1..(K - 1) |-> added[i]]
    BY <1>6 DEF added, ComparisonsFor
  <2>3. K - 1 \in Nat
    BY <1>3
  <2>4. added \in [1..(K - 1) -> ComparisonRecords]
    BY <2>1, <2>2
  <2>5. QED
    BY <2>3, <2>4
<1>8. ToSet(added) = {Versus(L, j) : j \in 2..K}
  <2>1. ToSet(added) = {Versus(L, i + 1) : i \in 1..(K - 1)}
    BY <1>6 DEF ToSet
  <2>2. \A j \in 2..K : j - 1 \in 1..(K - 1) /\ (j - 1) + 1 = j
    BY <1>3
  <2>3. ASSUME NEW j \in 2..K PROVE Versus(L, j) \in {Versus(L, i + 1) : i \in 1..(K - 1)}
    BY <2>2
  <2>4. QED
    BY <1>5, <2>1, <2>3
<1>9. Distinct(added)
  <2>1. SUFFICES ASSUME NEW i \in 1..(K - 1), NEW j \in 1..(K - 1), added[i] = added[j] PROVE i = j
    BY <1>6 DEF Distinct, IsInjective
  <2>2. config.names[i + 1] = config.names[j + 1]
    BY <1>6, <2>1 DEF Versus
  <2>3. i + 1 = j + 1
    BY <1>3, <1>5, <2>2
  <2>4. QED
    BY <2>3
<1>10. ToSet(comparisons) \cap ToSet(added) = {}
  <2>1. ASSUME NEW i \in 1..(L - 1), NEW j, NEW k PROVE Versus(i, j) # Versus(L, k)
    <3>1. i \in 1..Len(config.markets) /\ i # L
      BY <1>1, <1>2, BuildFacts DEF L
    <3>2. config.markets[i].id # config.markets[L].id
      BY <1>2, <1>3, <3>1
    <3>3. QED
      BY <3>2 DEF Versus
  <2>2. ASSUME NEW c \in Compared(L - 1) PROVE c \notin {Versus(L, j) : j \in 2..K}
    BY <2>1, <2>2 DEF Compared
  <2>3. QED
    BY <1>4, <1>8, <2>2
<1>11. comparisons \in Seq(ComparisonRecords)
  BY DEF StartupTypeOK
<1>12. /\ comparisons' \in Seq(ComparisonRecords) /\ Distinct(comparisons')
       /\ ToSet(comparisons') = Compared(L - 1) \cup {Versus(L, j) : j \in 2..K}
  BY <1>1, <1>4, <1>7, <1>8, <1>9, <1>10, <1>11, ConcatItems
<1>13. ToSet(comparisons') = Compared(L)
  <2>1. \A i \in 1..L : i \in 1..(L - 1) \/ i = L
    BY <1>2
  <2>2. \A i \in 1..(L - 1) : i \in 1..L
    BY <1>2
  <2>3. Compared(L) = Compared(L - 1) \cup {Versus(L, j) : j \in 2..K}
    BY <1>2, <2>1, <2>2 DEF Compared, K
  <2>4. QED
    BY <1>12, <2>3
<1>14. /\ OpenedFirst' /\ NarrowedWell' /\ CheckedWell'
       /\ verb' = verb /\ file' = file /\ onlyNames' = onlyNames
  BY <1>1, BuildingKeeps
<1>15. StartupTypeOK'
  BY <1>1, <1>12, <1>14 DEF StartupTypeOK, LoopRecords
<1>16. MarketsBuilt' /\ TapesCounted'
  BY <1>1, <1>14 DEF MarketsBuilt, TapesCounted, Loop, BookFor, Feed, HasTimers, Building
<1>17. ProducersBuilt'
  <2>1. Compared(Done)' = Compared(L)
    BY <1>1 DEF Compared, Versus, Done, L
  <2>2. ProducersPlaced'
    BY <1>1, <1>4 DEF ProducersPlaced
  <2>3. QED
    BY <1>1, <1>12, <1>13, <2>1, <2>2 DEF ProducersBuilt
<1>18. QED
  BY <1>14, <1>15, <1>16, <1>17

LEMMA StartInv == ASSUME StartupInv, Start PROVE StartupInv'
<1> USE DEF StartupInv
<1>1. /\ at = "market" /\ at' = "running" /\ Building /\ Building'
      /\ Len(loops) = Len(config.markets)
      /\ UNCHANGED <<command, config, header, tapes, loops, producers, comparisons>>
  BY DEF Start, Building
<1>2. /\ OpenedFirst' /\ NarrowedWell' /\ CheckedWell'
      /\ verb' = verb /\ file' = file /\ onlyNames' = onlyNames
  BY <1>1, BuildingKeeps
<1>3. StartupTypeOK'
  BY <1>1, <1>2 DEF StartupTypeOK, LoopRecords
<1>4. MarketsBuilt' /\ TapesCounted'
  BY <1>1, <1>2 DEF MarketsBuilt, TapesCounted, Loop, BookFor, Feed, HasTimers, Building
<1>5. ProducersBuilt'
  <2>1. ProducersPlaced /\ Distinct(comparisons) /\ ToSet(comparisons) = Compared(Len(loops))
    BY <1>1 DEF ProducersBuilt, Done
  <2>2. Compared(Done)' = Compared(Len(loops))
    BY <1>1 DEF Compared, Versus, Done
  <2>3. ProducersPlaced'
    BY <1>1, <2>1 DEF ProducersPlaced
  <2>4. QED
    BY <1>1, <2>1, <2>2, <2>3 DEF ProducersBuilt
<1>6. QED
  BY <1>2, <1>3, <1>4, <1>5

LEMMA StartupStill == ASSUME StartupInv, UNCHANGED startupVars PROVE StartupInv'
<1> USE DEF StartupInv
<1>1. /\ verb' = verb /\ file' = file /\ onlyNames' = onlyNames /\ onlyMarket' = onlyMarket
      /\ WantedMarket' = WantedMarket
      /\ UNCHANGED <<at, config, header, tapes, loops, producers, comparisons>>
  BY DEF startupVars, command, WantedMarket
<1>2. StartupTypeOK'
  BY <1>1 DEF StartupTypeOK, LoopRecords
<1>3. OpenedFirst' /\ NarrowedWell'
  BY <1>1 DEF OpenedFirst, NarrowedWell, Configured, Checked, Building, IdsDistinct
<1>4. CheckedWell'
  BY <1>1 DEF CheckedWell, Checked, Building, NamesOneMarket, SameUnderlying, EveryPositionQuoted
<1>5. MarketsBuilt' /\ TapesCounted'
  BY <1>1 DEF MarketsBuilt, TapesCounted, Loop, BookFor, Feed, HasTimers, Building
<1>6. ProducersBuilt'
  BY <1>1 DEF ProducersBuilt, ProducersPlaced, FirstNames, ProducerAt, Compared, Versus, Done,
              Built, Building
<1>7. QED
  BY <1>2, <1>3, <1>4, <1>5, <1>6

LEMMA StartupNextInv == StartupInv /\ [StartupNext]_startupVars => StartupInv'
<1> SUFFICES ASSUME StartupInv, [StartupNext]_startupVars PROVE StartupInv'
  OBVIOUS
<1>1. CASE CheckLimit
  BY <1>1, CheckLimitInv
<1>2. CASE OpenRecording
  BY <1>2, OpenRecordingInv
<1>3. CASE Configure
  BY <1>3, ConfigureInv
<1>4. CASE CheckMarkets
  BY <1>4, CheckMarketsInv
<1>5. CASE OpenSink
  BY <1>5, OpenSinkInv
<1>6. CASE MakeWriter
  BY <1>6, MakeWriterInv
<1>7. CASE BuildMarket
  BY <1>7, BuildMarketInv
<1>8. CASE BuildProducer
  BY <1>8, BuildProducerInv
<1>9. CASE FinishMarket
  BY <1>9, FinishMarketInv
<1>10. CASE Start
  BY <1>10, StartInv
<1>11. CASE EndRun
  <2>1. PICK status \in {0, 1} : Leave(status)
    BY <1>11 DEF EndRun
  <2>2. QED
    BY <2>1, LeaveInv
<1>12. CASE UNCHANGED startupVars
  BY <1>12, StartupStill
<1>13. QED
  BY <1>1, <1>2, <1>3, <1>4, <1>5, <1>6, <1>7, <1>8, <1>9, <1>10, <1>11, <1>12 DEF StartupNext

--------------------------------------------------------------------------------
(* From a command line to an engine: the theorems.                         *)

\* On the way from any command line, over any file, the configuration stays what the flags
\* narrowed, and what is built of it is its first markets, each with its own producers and
\* comparisons (entrypoints/cli.py, entrypoints/pipeline.py).
THEOREM StartupInvariant == StartupSpec => []StartupInv
<1>1. QED
  BY StartupInitInv, StartupNextInv, PTL DEF StartupSpec

\* The markets of an engine that starts are built as the configuration has them.
LEMMA RunningFacts ==
  ASSUME StartupInv, at = "running"
  PROVE  /\ Building /\ Len(loops) = Len(config.markets) /\ Len(loops) \in Nat \ {0}
         /\ DOMAIN loops = 1..Len(loops) /\ DOMAIN config.markets = 1..Len(loops)
         /\ config.book = file.book
         /\ \A i \in 1..Len(loops) :
              loops[i] = Loop(config.markets[i]) /\ loops[i].book # {}
<1> USE DEF StartupInv
<1>1. Building /\ Checked /\ Configured
  BY DEF Building, Checked, Configured
<1>2. /\ Len(loops) = Len(config.markets)
      /\ \A i \in 1..Len(loops) : loops[i] = Loop(config.markets[i]) /\ loops[i].book # {}
  BY <1>1 DEF MarketsBuilt
<1>3. config.book = file.book /\ config.markets # <<>>
  BY <1>1 DEF NarrowedWell
<1>4. loops \in Seq(LoopRecords) /\ config.markets \in Seq(MarketTable)
  BY DEF StartupTypeOK
<1>5. Len(config.markets) # 0
  BY <1>3, <1>4
<1>6. QED
  BY <1>1, <1>2, <1>3, <1>4, <1>5

LEMMA RunningValues == ASSUME StartupInv PROVE EveryPositionIsValued
<1> SUFFICES ASSUME at = "running"
             PROVE  /\ \A p \in file.book : \E i \in DOMAIN loops : p \in loops[i].book
                    /\ \A i \in DOMAIN loops :
                         loops[i].book # {} /\ \A p \in loops[i].book : p = config.markets[i].underlying
  BY DEF EveryPositionIsValued
<1>1. EveryPositionQuoted
  BY RunningFacts DEF StartupInv, CheckedWell
<1>2. \A i \in 1..Len(loops) :
        loops[i].book = {p \in config.book : p = config.markets[i].underlying}
  BY RunningFacts, LoopFacts DEF BookFor
<1>3. ASSUME NEW p \in file.book PROVE \E i \in DOMAIN loops : p \in loops[i].book
  <2>1. PICK i \in DOMAIN config.markets : p = config.markets[i].underlying
    BY <1>1, <1>3, RunningFacts DEF EveryPositionQuoted
  <2>2. i \in 1..Len(loops) /\ i \in DOMAIN loops
    BY <2>1, RunningFacts
  <2>3. p \in loops[i].book
    BY <1>2, <1>3, <2>1, <2>2, RunningFacts
  <2>4. QED
    BY <2>2, <2>3
<1>4. ASSUME NEW i \in DOMAIN loops
      PROVE  loops[i].book # {} /\ \A p \in loops[i].book : p = config.markets[i].underlying
  BY <1>2, RunningFacts
<1>5. QED
  BY <1>3, <1>4

\* Whatever --market and --calibrators left of the file, an engine that starts values every
\* position of the book on its own underlying (_require_every_position_is_quoted, _book_for).
THEOREM NothingIsUnvalued == StartupSpec => []EveryPositionIsValued
<1>1. QED
  BY RunningValues, StartupInvariant, PTL

LEMMA RunningReplays ==
  ASSUME StartupInv, at = "running", verb = "replay"
  PROVE  /\ Len(loops) = 1
         /\ loops[1].market = header.market /\ config.markets[1].underlying = header.underlying
         /\ loops[1].feed = "recorded" /\ ~loops[1].heartbeat /\ ~loops[1].rediscovery
<1>1. header \in Recordings
  BY DEF StartupInv, OpenedFirst
<1>2. WantedMarket = header.market /\ WantedMarket # NoFlag
  BY <1>1 DEF WantedMarket
<1>3. \A i \in 1..Len(config.markets) : config.markets[i].id = header.market
  BY <1>2, RunningFacts DEF StartupInv, NarrowedWell, Configured, Checked
<1>4. \A i, j \in 1..Len(config.markets) : i = j
  BY <1>3, RunningFacts, BuildFacts
<1>5. Len(loops) = 1
  <2>1. Len(loops) \in Nat \ {0} /\ Len(config.markets) = Len(loops)
    BY RunningFacts
  <2>2. 1 \in 1..Len(config.markets) /\ Len(loops) \in 1..Len(config.markets)
    BY <2>1
  <2>3. QED
    BY <1>4, <2>2
<1>6. /\ 1 \in 1..Len(loops) /\ 1 \in 1..Len(config.markets)
      /\ loops[1] = Loop(config.markets[1])
  BY <1>5, RunningFacts
<1>7. config.markets[1].underlying = header.underlying
  BY RunningFacts DEF StartupInv, CheckedWell, Checked, SameUnderlying
<1>8. Feed(config.markets[1]) = "recorded" /\ ~HasTimers
  BY DEF Feed, HasTimers
<1>9. loops[1].market = config.markets[1].id /\ loops[1].feed = "recorded"
  BY <1>6, <1>8, LoopFacts
<1>10. ~loops[1].heartbeat /\ ~loops[1].rediscovery
  BY <1>6, <1>8, LoopFacts
<1>11. QED
  BY <1>3, <1>5, <1>6, <1>7, <1>9, <1>10

LEMMA RunningRecords == ASSUME StartupInv PROVE RecordingIsOneMarket
<1>1. tapes <= IF verb = "record" THEN 1 ELSE 0
  BY DEF StartupInv, TapesCounted
<1>2. ASSUME at = "running", verb = "record" PROVE Len(loops) = 1
  BY <1>2, RunningFacts DEF StartupInv, CheckedWell, Checked, NamesOneMarket
<1>3. QED
  BY <1>1, <1>2, RunningReplays DEF RecordingIsOneMarket

\* The file of --recording is emptied for one market at most, the one that runs; a replay
\* runs the market of its recording alone, with no venue behind it and no timer beside it
\* (_one_market, _require_same_underlying, with_recording, with_replay).
THEOREM OneMarketPerRecording == StartupSpec => []RecordingIsOneMarket
<1>1. QED
  BY RunningRecords, StartupInvariant, PTL

LEMMA RunningCompares == ASSUME StartupInv PROVE ComparedIsWhatRuns
<1> SUFFICES ASSUME at = "running"
             PROVE  /\ Distinct(producers) /\ Distinct(comparisons)
                    /\ ToSet(comparisons) =
                         {[market |-> loops[i].market, baseline |-> config.names[1],
                           challenger |-> config.names[j]] :
                            i \in DOMAIN loops, j \in 2..Len(config.names)}
  BY DEF ComparedIsWhatRuns
<1>1. /\ Distinct(producers) /\ Distinct(comparisons)
      /\ ToSet(comparisons) = Compared(Len(loops))
  BY RunningFacts DEF StartupInv, ProducersBuilt, ProducersPlaced, Done
<1>2. \A i \in 1..Len(loops) : loops[i].market = config.markets[i].id
  BY RunningFacts, LoopFacts
<1>3. \A i \in DOMAIN loops : \A j :
        Versus(i, j) = [market |-> loops[i].market, baseline |-> config.names[1],
                        challenger |-> config.names[j]]
  BY <1>2, RunningFacts DEF Versus
<1>4. DOMAIN loops = 1..Len(loops)
  BY RunningFacts
<1>5. Compared(Len(loops)) =
        {[market |-> loops[i].market, baseline |-> config.names[1], challenger |-> config.names[j]] :
           i \in DOMAIN loops, j \in 2..Len(config.names)}
  BY <1>3, <1>4 DEF Compared
<1>6. QED
  BY <1>1, <1>5

\* Within every market the first producer is compared with each of the others, once, and
\* nothing else is compared (_comparisons_for).
THEOREM ComparisonsAreOfWhatRuns == StartupSpec => []ComparedIsWhatRuns
<1>1. QED
  BY RunningCompares, StartupInvariant, PTL

--------------------------------------------------------------------------------
(* The metrics sink.                                                       *)

\* Nothing ends a command but a way out that closes the sink.
SinkInv == (at # "over" => exit = Running) /\ SinkIsReleased

LEMMA LeaveReleases ==
  ASSUME NEW status \in {0, 1, CONFIG_EXIT_CODE}, Leave(status)
  PROVE  SinkInv'
<1>1. at' = "over" /\ sink' # "open"
  BY DEF Leave, ReleaseSink
<1>2. QED
  BY <1>1 DEF SinkInv, SinkIsReleased

LEMMA SinkNextInv == SinkInv /\ [StartupNext]_startupVars => SinkInv'
<1> SUFFICES ASSUME SinkInv, [StartupNext]_startupVars PROVE SinkInv'
  OBVIOUS
<1>1. ASSUME exit' = exit, exit = Running PROVE SinkInv'
  BY <1>1 DEF SinkInv, SinkIsReleased
<1>2. ASSUME Refuse PROVE SinkInv'
  BY <1>2, LeaveReleases DEF Refuse
<1>3. ASSUME at # "over", exit' = exit PROVE SinkInv'
  BY <1>1, <1>3 DEF SinkInv
<1>4. CASE CheckLimit
  BY <1>2, <1>3, <1>4 DEF CheckLimit
<1>5. CASE OpenRecording
  BY <1>2, <1>3, <1>5 DEF OpenRecording
<1>6. CASE Configure
  <2>1. CASE Leave(1)
    BY <2>1, LeaveReleases
  <2>2. CASE ~Leave(1)
    BY <1>2, <1>3, <1>6, <2>2 DEF Configure
  <2>3. QED
    BY <2>1, <2>2
<1>7. CASE CheckMarkets
  BY <1>2, <1>3, <1>7 DEF CheckMarkets
<1>8. CASE OpenSink
  BY <1>2, <1>3, <1>8 DEF OpenSink
<1>9. CASE MakeWriter
  BY <1>2, <1>3, <1>9 DEF MakeWriter
<1>10. CASE BuildMarket
  <2>1. CASE Refuse
    BY <1>2, <2>1
  <2>2. CASE at' = "over" /\ ReleaseSink
    BY <2>2 DEF ReleaseSink, SinkInv, SinkIsReleased
  <2>3. CASE exit' = exit /\ at = "market"
    BY <1>3, <2>3
  <2>4. QED
    BY <1>10, <2>1, <2>2, <2>3 DEF BuildMarket
<1>11. CASE BuildProducer
  BY <1>2, <1>3, <1>11 DEF BuildProducer
<1>12. CASE FinishMarket
  BY <1>3, <1>12 DEF FinishMarket
<1>13. CASE Start
  BY <1>3, <1>13 DEF Start
<1>14. CASE EndRun
  <2>1. PICK status \in {0, 1} : Leave(status)
    BY <1>14 DEF EndRun
  <2>2. QED
    BY <2>1, LeaveReleases
<1>15. CASE UNCHANGED startupVars
  BY <1>15 DEF startupVars, SinkInv, SinkIsReleased
<1>16. QED
  BY <1>4, <1>5, <1>6, <1>7, <1>8, <1>9, <1>10, <1>11, <1>12, <1>13, <1>14, <1>15 DEF StartupNext

\* A clean end, a refusal and an exception out of the run all leave the sink closed
\* (_drive and _metrics_sink), wherever on the way they come.
THEOREM SinksAreReleased == StartupSpec => []SinkIsReleased
<1>1. StartupInit => SinkInv
  BY DEF StartupInit, SinkInv, SinkIsReleased
<1>2. SinkInv => SinkIsReleased
  BY DEF SinkInv
<1>3. QED
  BY <1>1, <1>2, SinkNextInv, PTL DEF StartupSpec

================================================================================
