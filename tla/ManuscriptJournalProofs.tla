--------------------- MODULE ManuscriptJournalProofs ---------------------
(***************************************************************************)
(* Proofs about ManuscriptJournal, for every set of documents and every    *)
(* bound: what a receipt of SaveChangeBatch promises survives kills,       *)
(* failed writes and syncs, recovery and compaction, and a restart comes   *)
(* to texts the author had.                                                *)
(*                                                                         *)
(* The replay of a journal is a recursion over its frames.  The first part *)
(* proves induction for sequences, from the well-founded order of finite   *)
(* sets, and with it what a replay returns.  IInv is the inductive         *)
(* invariant: the heart of it is InOrder, which says of every first part   *)
(* of the journal, so of every journal a kill can leave, that its replay   *)
(* comes to written texts and stops only at a frame no replay goes past.   *)
(***************************************************************************)
EXTENDS ManuscriptJournal, FiniteSetTheorems, SequenceTheorems, TLAPS

-----------------------------------------------------------------------------
(* Induction over data.                                                    *)

(* Every set of naturals that is not empty has a least element.            *)
LEMMA LeastNatural ==
    ASSUME NEW T \in SUBSET Nat, T # {}
    PROVE  \E x \in T : \A y \in T : x <= y
<1> DEFINE Below == {1 .. n : n \in T}
<1>1. Below \subseteq FiniteSubsetsOf(Nat) /\ Below # {}
  <2>1. \A n \in T : n \in Int /\ 1 \in Int
    OBVIOUS
  <2>2. \A n \in T : IsFiniteSet(1 .. n)
    BY <2>1, FS_Interval
  <2>3. \A n \in T : 1 .. n \in SUBSET Nat
    OBVIOUS
  <2> QED BY <2>2, <2>3 DEF FiniteSubsetsOf
<1>2. PICK m \in Below : \A s \in Below : <<s, m>> \notin StrictSubsetOrdering(Nat)
  <2>1. IsWellFoundedOn(StrictSubsetOrdering(Nat), FiniteSubsetsOf(Nat))
    BY FS_StrictSubsetOrderingWellFounded
  <2> HIDE DEF Below
  <2> QED BY <1>1, <2>1, WFMin
<1>3. PICK x \in T : m = 1 .. x
  OBVIOUS
<1>4. ASSUME NEW y \in T, y < x PROVE FALSE
  <2>1. 1 .. y \in Below
    BY <1>4
  <2>2. /\ 1 .. y \subseteq 1 .. x /\ 1 .. y # 1 .. x
        /\ 1 .. y \in SUBSET Nat /\ 1 .. x \in SUBSET Nat
    <3>1. x \in 1 .. x /\ x \notin 1 .. y
      BY <1>4
    <3> QED BY <1>4, <3>1
  <2>3. <<1 .. y, m>> \in StrictSubsetOrdering(Nat)
    BY <1>3, <2>2 DEF StrictSubsetOrdering
  <2> QED BY <1>2, <2>1, <2>3
<1> QED BY <1>4

(* A set of naturals with 0 and all successors of its members is Nat.      *)
LEMMA Induction ==
    ASSUME NEW S, 0 \in S, \A n \in Nat : n \in S => n + 1 \in S
    PROVE  Nat \subseteq S
<1> SUFFICES ASSUME Nat \ S # {} PROVE FALSE
  OBVIOUS
<1>1. PICK x \in Nat \ S : \A y \in Nat \ S : x <= y
  BY LeastNatural
<1>2. x # 0 /\ x - 1 \in Nat
  OBVIOUS
<1>3. x - 1 \in S
  BY <1>1, <1>2
<1>4. (x - 1) + 1 \in S
  BY <1>2, <1>3
<1> QED BY <1>4

(* A set with the empty sequence that is closed under appending has every  *)
(* sequence.                                                               *)
LEMMA SequenceInduction ==
    ASSUME NEW F, NEW T, <<>> \in T,
           \A s \in Seq(F), x \in F : s \in T => Append(s, x) \in T
    PROVE  Seq(F) \subseteq T
<1> DEFINE S == {n \in Nat : \A s \in Seq(F) : Len(s) = n => s \in T}
<1>1. 0 \in S
  <2>1. \A s \in Seq(F) : Len(s) = 0 => s = <<>>
    BY EmptySeq
  <2> QED BY <2>1
<1>2. ASSUME NEW n \in Nat, n \in S PROVE n + 1 \in S
  <2>1. ASSUME NEW s \in Seq(F), Len(s) = n + 1 PROVE s \in T
    <3>1. s # <<>>
      BY <2>1, EmptySeq
    <3>2. PICK t \in Seq(F), x \in F : s = Append(t, x)
      BY <3>1, SequenceEmptyOrAppend
    <3>3. Len(t) = n
      BY <2>1, <3>2, AppendProperties, LenProperties
    <3> QED BY <1>2, <3>2, <3>3
  <2> QED BY <2>1
<1>3. Nat \subseteq S
  <2> HIDE DEF S
  <2> QED BY <1>1, <1>2, Induction
<1> QED BY <1>3, LenProperties

(* The prefixes of a sequence that is appended to.                         *)
LEMMA PrefixOfAppend ==
    ASSUME NEW F, NEW s \in Seq(F), NEW x \in F, NEW n \in 0 .. Len(s)
    PROVE  SubSeq(Append(s, x), 1, n) = SubSeq(s, 1, n)
<1>1. \A i \in 1 .. n : s[i] \in F /\ Append(s, x)[i] \in F /\ Append(s, x)[i] = s[i]
  BY LenProperties, ElementOfSeq, AppendProperties
<1>2. n \in Int /\ 1 \in Int /\ n \in Nat
  BY LenProperties
<1> DEFINE a == SubSeq(Append(s, x), 1, n)
           b == SubSeq(s, 1, n)
<1>3. /\ a \in Seq(F) /\ Len(a) = n /\ \A i \in 1 .. n : a[i] = Append(s, x)[i]
  <2>1. /\ a \in Seq(F)
        /\ Len(a) = IF 1 <= n THEN n - 1 + 1 ELSE 0
        /\ \A i \in 1 .. n - 1 + 1 : a[i] = Append(s, x)[1 + i - 1]
    BY <1>1, <1>2, SubSeqProperties
  <2> HIDE DEF a, b
  <2> QED BY <1>2, <2>1
<1>4. /\ b \in Seq(F) /\ Len(b) = n /\ \A i \in 1 .. n : b[i] = s[i]
  <2>1. /\ b \in Seq(F)
        /\ Len(b) = IF 1 <= n THEN n - 1 + 1 ELSE 0
        /\ \A i \in 1 .. n - 1 + 1 : b[i] = s[1 + i - 1]
    BY <1>1, <1>2, SubSeqProperties
  <2> HIDE DEF a, b
  <2> QED BY <1>2, <2>1
<1> HIDE DEF a, b
<1>5. a = b
  BY <1>1, <1>3, <1>4, SeqEqual
<1> QED BY <1>5 DEF a, b

(* The first elements of a sequence.                                       *)
LEMMA FirstOnes ==
    ASSUME NEW F, NEW s \in Seq(F), NEW n \in 0 .. Len(s)
    PROVE  /\ SubSeq(s, 1, n) \in Seq(F)
           /\ Len(SubSeq(s, 1, n)) = n
           /\ \A i \in 1 .. n : SubSeq(s, 1, n)[i] = s[i]
<1>1. n \in Int /\ 1 \in Int /\ n \in Nat
  BY LenProperties
<1>2. \A i \in 1 .. n : s[i] \in F
  BY LenProperties, ElementOfSeq
<1> DEFINE b == SubSeq(s, 1, n)
<1>3. /\ b \in Seq(F)
      /\ Len(b) = IF 1 <= n THEN n - 1 + 1 ELSE 0
      /\ \A i \in 1 .. n - 1 + 1 : b[i] = s[1 + i - 1]
  BY <1>1, <1>2, SubSeqProperties
<1> HIDE DEF b
<1>4. Len(b) = n /\ \A i \in 1 .. n : b[i] = s[i]
  BY <1>1, <1>3
<1> QED BY <1>3, <1>4 DEF b

(* A first part of a first part.                                           *)
LEMMA FirstOfFirst ==
    ASSUME NEW F, NEW s \in Seq(F), NEW n \in 0 .. Len(s), NEW m \in 0 .. n
    PROVE  SubSeq(SubSeq(s, 1, n), 1, m) = SubSeq(s, 1, m)
<1> DEFINE b == SubSeq(s, 1, n)
<1>1. n \in Nat /\ m \in 0 .. Len(s)
  BY LenProperties
<1>2. b \in Seq(F) /\ Len(b) = n /\ \A i \in 1 .. n : b[i] = s[i]
  BY FirstOnes
<1> HIDE DEF b
<1> DEFINE c == SubSeq(b, 1, m)
           d == SubSeq(s, 1, m)
<1>3. c \in Seq(F) /\ Len(c) = m /\ \A i \in 1 .. m : c[i] = b[i]
  BY <1>2, FirstOnes
<1>4. d \in Seq(F) /\ Len(d) = m /\ \A i \in 1 .. m : d[i] = s[i]
  BY <1>1, FirstOnes
<1> HIDE DEF c, d
<1>5. c = d
  BY <1>1, <1>2, <1>3, <1>4, SeqEqual
<1> QED BY <1>5 DEF b, c, d

-----------------------------------------------------------------------------
(* Replay.  ReplayOf is Replay with the batches as a parameter, StepOf     *)
(* what it does with one frame.                                            *)

StepOf(bs, r, frame) ==
    CASE r.stopped -> r
      [] ~r.stopped /\ frame = Torn -> [r EXCEPT !.stopped = TRUE]
      [] ~r.stopped /\ frame \in r.applied -> r
      [] OTHER ->
             IF Acceptable(r.heads[bs[frame].doc], bs[frame])
             THEN [r EXCEPT !.heads = Advance(@, bs[frame]),
                            !.applied = @ \cup {frame}]
             ELSE [r EXCEPT !.stopped = TRUE]

ReplayOf(bs, heads, frames) ==
    LET from[n \in 0 .. Len(frames)] ==
            IF n = 0 THEN [heads |-> heads, applied |-> {}, stopped |-> FALSE]
            ELSE CHOOSE r \in {StepOf(bs, s, frames[n]) : s \in {from[n - 1]}} : TRUE
    IN  from[Len(frames)]

Unread(heads) == [heads |-> heads, applied |-> {}, stopped |-> FALSE]

(* The replay of the model, in a state and in the next one.                *)
LEMMA ReplayIsReplayOf ==
    ASSUME NEW heads, NEW frames
    PROVE  /\ Replay(heads, frames) = ReplayOf(batches, heads, frames)
           /\ Replay(heads, frames)' = ReplayOf(batches', heads, frames)
BY DEF Replay, ReplayOf, ReplayFrame, StepOf

(* f is the replay of every first part of the frames.                      *)
Replays(f, bs, heads, frames) ==
    f = [n \in 0 .. Len(frames) |->
            IF n = 0 THEN Unread(heads)
            ELSE StepOf(bs, f[n - 1], frames[n])]

(* Such a function exists: it is made frame by frame.                      *)
LEMMA ReplaysExist ==
    ASSUME NEW bs, NEW heads, NEW frames, Len(frames) \in Nat
    PROVE  \E f : Replays(f, bs, heads, frames)
<1> DEFINE G(f, n) == [k \in 0 .. n |->
                IF k = 0 THEN Unread(heads) ELSE StepOf(bs, f[k - 1], frames[k])]
           S == {n \in Nat : \E f : f = G(f, n)}
<1>1. 0 \in S
  <2> DEFINE f == [k \in 0 .. 0 |-> Unread(heads)]
  <2>1. f = G(f, 0)
    OBVIOUS
  <2> QED BY <2>1
<1>2. ASSUME NEW n \in Nat, n \in S PROVE n + 1 \in S
  <2>1. PICK f : f = G(f, n)
    BY <1>2
  <2> DEFINE g == [k \in 0 .. n + 1 |->
                       IF k = n + 1 THEN StepOf(bs, f[n], frames[n + 1]) ELSE f[k]]
  <2>2. \A k \in 0 .. n :
            f[k] = IF k = 0 THEN Unread(heads) ELSE StepOf(bs, f[k - 1], frames[k])
    BY <2>1
  <2>3. g = G(g, n + 1)
    BY <2>2
  <2>4. \E h : h = G(h, n + 1)
    <3> HIDE DEF G, g
    <3> QED BY <2>3
  <2> QED BY <2>4
<1>3. Len(frames) \in S
  <2> HIDE DEF S
  <2> QED BY <1>1, <1>2, Induction
<1> QED BY <1>3 DEF Replays

(* What it has for the empty part, and for a part with one more frame.     *)
LEMMA ReplaysSteps ==
    ASSUME NEW bs, NEW heads, NEW s, NEW f, Replays(f, bs, heads, s), Len(s) \in Nat
    PROVE  /\ f[0] = Unread(heads)
           /\ \A k \in 1 .. Len(s) : f[k] = StepOf(bs, f[k - 1], s[k])
<1> DEFINE e(k) == IF k = 0 THEN Unread(heads) ELSE StepOf(bs, f[k - 1], s[k])
<1>1. f = [k \in 0 .. Len(s) |-> e(k)]
  BY DEF Replays
<1> HIDE DEF e
<1>2. \A k \in 0 .. Len(s) : f[k] = e(k)
  BY <1>1
<1>3. \A k \in 1 .. Len(s) : k \in 0 .. Len(s) /\ k # 0
  OBVIOUS
<1> QED BY <1>2, <1>3 DEF e

(* Replays of sequences that begin alike begin alike.                      *)
LEMMA ReplaysAgree ==
    ASSUME NEW bs, NEW heads, NEW s, NEW t, NEW f, NEW g,
           Replays(f, bs, heads, s), Replays(g, bs, heads, t),
           Len(s) \in Nat, Len(t) \in Nat,
           NEW m \in Nat, m <= Len(s), m <= Len(t), \A i \in 1 .. m : s[i] = t[i]
    PROVE  f[m] = g[m]
<1> DEFINE S == {n \in Nat : n <= m => f[n] = g[n]}
<1>1. /\ f[0] = Unread(heads) /\ g[0] = Unread(heads)
      /\ \A k \in 1 .. Len(s) : f[k] = StepOf(bs, f[k - 1], s[k])
      /\ \A k \in 1 .. Len(t) : g[k] = StepOf(bs, g[k - 1], t[k])
  BY ReplaysSteps
<1>2. 0 \in S
  BY <1>1
<1>3. ASSUME NEW n \in Nat, n \in S PROVE n + 1 \in S
  <2>1. CASE n + 1 <= m
    <3>1. /\ f[n + 1] = StepOf(bs, f[n], s[n + 1])
          /\ g[n + 1] = StepOf(bs, g[n], t[n + 1])
      BY <1>1, <2>1
    <3>2. f[n] = g[n] /\ s[n + 1] = t[n + 1]
      BY <1>3, <2>1
    <3> QED BY <3>1, <3>2
  <2>2. CASE ~(n + 1 <= m)
    BY <2>2
  <2> QED BY <2>1, <2>2
<1>4. m \in S
  <2> HIDE DEF S
  <2> QED BY <1>2, <1>3, Induction
<1> QED BY <1>4

(* The recursion of Replay has a solution, which is what Replay returns.   *)
LEMMA ReplayIs ==
    ASSUME NEW bs, NEW heads, NEW s, Len(s) \in Nat
    PROVE  \E f : Replays(f, bs, heads, s) /\ ReplayOf(bs, heads, s) = f[Len(s)]
<1> DEFINE P(f) == f = [n \in 0 .. Len(s) |->
            IF n = 0 THEN [heads |-> heads, applied |-> {}, stopped |-> FALSE]
            ELSE CHOOSE r \in {StepOf(bs, x, s[n]) : x \in {f[n - 1]}} : TRUE]
           from == CHOOSE f : P(f)
<1>1. \A f, n : (CHOOSE r \in {StepOf(bs, x, s[n]) : x \in {f[n - 1]}} : TRUE)
                    = StepOf(bs, f[n - 1], s[n])
  <2> TAKE f, n
  <2>1. {StepOf(bs, x, s[n]) : x \in {f[n - 1]}} = {StepOf(bs, f[n - 1], s[n])}
    OBVIOUS
  <2>2. (CHOOSE r \in {StepOf(bs, f[n - 1], s[n])} : TRUE) = StepOf(bs, f[n - 1], s[n])
    OBVIOUS
  <2> QED BY <2>1, <2>2
<1>2. \A f : P(f) <=> Replays(f, bs, heads, s)
  BY <1>1 DEF Replays, Unread
<1>3. \E f : P(f)
  BY <1>2, ReplaysExist
<1>4. P(from)
  <2> HIDE DEF P
  <2> QED BY <1>3
<1>5. ReplayOf(bs, heads, s) = from[Len(s)]
  BY DEF ReplayOf
<1> QED BY <1>2, <1>4, <1>5

(* A journal without frames leaves the heads it is replayed on.            *)
LEMMA ReplayEmpty ==
    ASSUME NEW bs, NEW heads
    PROVE  ReplayOf(bs, heads, <<>>) = Unread(heads)
<1>1. Len(<<>>) = 0
  BY EmptySeq
<1>2. PICK f : Replays(f, bs, heads, <<>>) /\ ReplayOf(bs, heads, <<>>) = f[0]
  BY <1>1, ReplayIs
<1> QED BY <1>1, <1>2, ReplaysSteps

(* A frame at the end of a journal is replayed last.                       *)
LEMMA ReplayAppend ==
    ASSUME NEW bs, NEW heads, NEW F, NEW s \in Seq(F), NEW x \in F
    PROVE  ReplayOf(bs, heads, Append(s, x)) = StepOf(bs, ReplayOf(bs, heads, s), x)
<1> DEFINE t == Append(s, x)
           n == Len(s)
<1>1. /\ t \in Seq(F) /\ Len(t) = n + 1 /\ n \in Nat
      /\ t[n + 1] = x /\ \A i \in 1 .. n : t[i] = s[i]
  BY AppendProperties, LenProperties
<1> HIDE DEF t, n
<1>2. PICK f : Replays(f, bs, heads, s) /\ ReplayOf(bs, heads, s) = f[n]
  BY <1>1, ReplayIs DEF n
<1>3. PICK g : Replays(g, bs, heads, t) /\ ReplayOf(bs, heads, t) = g[n + 1]
  BY <1>1, ReplayIs
<1>4. f[n] = g[n]
  BY <1>1, <1>2, <1>3, ReplaysAgree DEF n
<1>5. g[n + 1] = StepOf(bs, g[n], x)
  <2>1. n + 1 \in 1 .. Len(t) /\ (n + 1) - 1 = n
    BY <1>1
  <2>2. \A k \in 1 .. Len(t) : g[k] = StepOf(bs, g[k - 1], t[k])
    BY <1>1, <1>3, ReplaysSteps
  <2> QED BY <1>1, <2>1, <2>2
<1> QED BY <1>2, <1>3, <1>4, <1>5 DEF t

-----------------------------------------------------------------------------
(* What is replayed.                                                       *)

Bases == {"baseline", "published"}
DocumentHead == [text : Seq(Nat), next : Nat, base : Bases]
Batch == [id : Nat, doc : Docs, base : Bases, sequence : Nat, before : Seq(Nat)]
FramesOf(bs) == (1 .. Len(bs)) \cup {Torn}
Replayed(bs) ==
    [heads : [Docs -> DocumentHead], applied : SUBSET (1 .. Len(bs)), stopped : BOOLEAN]

(* A frame that is not read any more, or again, leaves the replay.         *)
LEMMA StepStopped ==
    ASSUME NEW bs, NEW r, NEW frame, r.stopped \/ (frame # Torn /\ frame \in r.applied)
    PROVE  StepOf(bs, r, frame) = r
BY DEF StepOf

(* A batch that fits the head of its document is applied.                  *)
LEMMA StepApplies ==
    ASSUME NEW bs \in Seq(Batch), NEW r \in Replayed(bs), NEW frame \in 1 .. Len(bs),
           ~r.stopped, frame \notin r.applied,
           Acceptable(r.heads[bs[frame].doc], bs[frame]),
           NEW s, s = StepOf(bs, r, frame)
    PROVE  s = [heads |-> Advance(r.heads, bs[frame]),
                applied |-> r.applied \cup {frame}, stopped |-> FALSE]
<1>1. frame # Torn
  BY ConstantsAssumption
<1>2. StepOf(bs, r, frame) = [r EXCEPT !.heads = Advance(r.heads, bs[frame]),
                                       !.applied = r.applied \cup {frame}]
  BY <1>1 DEF StepOf
<1> DEFINE heads == Advance(r.heads, bs[frame])
<1> HIDE DEF StepOf, heads
<1>3. s = [r EXCEPT !.heads = heads, !.applied = r.applied \cup {frame}]
  BY <1>2 DEF heads
<1>4. s = [heads |-> heads, applied |-> r.applied \cup {frame}, stopped |-> r.stopped]
  BY <1>3 DEF Replayed
<1>5. r.stopped = FALSE
  BY DEF Replayed
<1> QED BY <1>4, <1>5 DEF heads

(* Damage, and a batch that does not fit, stop the replay.                 *)
LEMMA StepStops ==
    ASSUME NEW bs \in Seq(Batch), NEW r \in Replayed(bs), NEW frame \in FramesOf(bs),
           ~r.stopped,
           \/ frame = Torn
           \/ frame \notin r.applied /\ ~Acceptable(r.heads[bs[frame].doc], bs[frame]),
           NEW s, s = StepOf(bs, r, frame)
    PROVE  s = [heads |-> r.heads, applied |-> r.applied, stopped |-> TRUE]
<1>1. CASE frame = Torn
  <2>1. frame \notin r.applied
    BY <1>1, ConstantsAssumption, LenProperties DEF Replayed
  <2>2. s = [r EXCEPT !.stopped = TRUE]
    BY <1>1, <2>1 DEF StepOf
  <2> QED BY <2>2 DEF Replayed
<1>2. CASE /\ frame # Torn /\ frame \notin r.applied
           /\ ~Acceptable(r.heads[bs[frame].doc], bs[frame])
  <2>1. s = [r EXCEPT !.stopped = TRUE]
    BY <1>2 DEF StepOf
  <2> QED BY <2>1 DEF Replayed
<1> QED BY <1>1, <1>2

(* The head of a document after a batch that fits.                         *)
LEMMA AdvanceIs ==
    ASSUME NEW heads \in [Docs -> DocumentHead], NEW b \in Batch
    PROVE  /\ Advance(heads, b) \in [Docs -> DocumentHead]
           /\ Advance(heads, b)[b.doc] =
                  [text |-> Append(heads[b.doc].text, b.id),
                   next |-> heads[b.doc].next + 1, base |-> heads[b.doc].base]
           /\ \A doc \in Docs \ {b.doc} : Advance(heads, b)[doc] = heads[doc]
<1>1. b.doc \in Docs /\ b.id \in Nat
  BY DEF Batch
<1>2. heads[b.doc] \in DocumentHead
  BY <1>1
<1> DEFINE new == [text |-> Append(heads[b.doc].text, b.id),
                   next |-> heads[b.doc].next + 1, base |-> heads[b.doc].base]
<1>3. Advance(heads, b) = [heads EXCEPT ![b.doc] = new]
  BY <1>1, <1>2 DEF Advance, DocumentHead
<1>4. Append(heads[b.doc].text, b.id) \in Seq(Nat)
  BY <1>1, <1>2, AppendProperties DEF DocumentHead
<1>5. new \in DocumentHead
  BY <1>2, <1>4 DEF DocumentHead
<1> HIDE DEF new
<1>6. /\ Advance(heads, b) \in [Docs -> DocumentHead]
      /\ Advance(heads, b)[b.doc] = new
      /\ \A doc \in Docs \ {b.doc} : Advance(heads, b)[doc] = heads[doc]
  BY <1>1, <1>3, <1>5
<1> QED BY <1>6 DEF new

(* What an append does to the elements of a sequence.                      *)
LEMMA ElementsAppend ==
    ASSUME NEW F, NEW s \in Seq(F), NEW x \in F
    PROVE  Elements(Append(s, x)) = Elements(s) \cup {x}
<1> DEFINE t == Append(s, x)
<1>1. /\ Len(s) \in Nat /\ Len(t) = Len(s) + 1
      /\ \A i \in 1 .. Len(s) : t[i] = s[i]
      /\ t[Len(s) + 1] = x
  BY AppendProperties, LenProperties
<1> HIDE DEF t
<1>2. \A i \in 1 .. Len(t) : i \in 1 .. Len(s) \/ i = Len(s) + 1
  BY <1>1
<1>3. Len(s) + 1 \in 1 .. Len(t) /\ \A i \in 1 .. Len(s) : i \in 1 .. Len(t)
  BY <1>1
<1>4. Elements(t) \subseteq Elements(s) \cup {x}
  BY <1>1, <1>2 DEF Elements
<1>5. Elements(s) \cup {x} \subseteq Elements(t)
  BY <1>1, <1>3 DEF Elements
<1> QED BY <1>4, <1>5 DEF t

(* The elements of a sequence over a set.                                  *)
LEMMA ElementsOf ==
    ASSUME NEW F, NEW s \in Seq(F)
    PROVE  Elements(s) \subseteq F
BY ElementOfSeq, LenProperties DEF Elements

(* The empty sequence has no elements.                                     *)
LEMMA ElementsEmpty == Elements(<<>>) = {}
<1>1. Len(<<>>) = 0 /\ 1 .. 0 = {}
  BY EmptySeq
<1> QED BY <1>1 DEF Elements

(* Batches are numbered in the order they are made in.                     *)
Numbered(bs) == bs \in Seq(Batch) /\ \A i \in 1 .. Len(bs) : bs[i].id = i

(* What is applied is in the text of its document.                         *)
InTexts(bs, r) == \A id \in r.applied : id \in Elements(r.heads[bs[id].doc].text)

(* What one step does.                                                     *)
Stepped(bs, r, frame, s) ==
    /\ s \in Replayed(bs)
    /\ s.applied \subseteq r.applied \cup {frame}
    /\ r.applied \subseteq s.applied
    /\ r.stopped => s.stopped
    /\ \A doc \in Docs :
           Elements(r.heads[doc].text) \subseteq Elements(s.heads[doc].text)
    /\ InTexts(bs, s)
    /\ ~s.stopped => frame \in s.applied
    /\ s.stopped => s.heads = r.heads /\ s.applied = r.applied

(* One step keeps the type of a replay; the texts of the heads only grow,  *)
(* what is applied is in its text, and a replay that goes on has applied   *)
(* the frame.                                                              *)
LEMMA StepIs ==
    ASSUME NEW bs, Numbered(bs), NEW r \in Replayed(bs), NEW frame \in FramesOf(bs),
           InTexts(bs, r)
    PROVE  Stepped(bs, r, frame, StepOf(bs, r, frame))
<1> DEFINE s == StepOf(bs, r, frame)
<1> HIDE DEF s
<1>s. s = StepOf(bs, r, frame)
  BY DEF s
<1> SUFFICES Stepped(bs, r, frame, s)
  BY DEF s
<1>b. bs \in Seq(Batch) /\ \A i \in 1 .. Len(bs) : bs[i].id = i
  BY DEF Numbered
<1>i. \A id \in r.applied : id \in Elements(r.heads[bs[id].doc].text)
  BY DEF InTexts
<1> DEFINE b == bs[frame]
<1>0. r.stopped \in BOOLEAN /\ r.heads \in [Docs -> DocumentHead] /\ r.applied \subseteq 1 .. Len(bs)
  BY DEF Replayed
<1>1. CASE r.stopped \/ (frame # Torn /\ frame \in r.applied)
  <2>1. s = r
    BY <1>1, <1>s, StepStopped
  <2>2. \/ s.stopped
        \/ frame \in s.applied
    BY <1>1, <2>1
  <2> QED BY <2>1, <2>2 DEF Stepped, InTexts
<1>2. CASE /\ ~r.stopped
           /\ \/ frame = Torn
              \/ frame \notin r.applied /\ ~Acceptable(r.heads[b.doc], b)
  <2>1. s = [heads |-> r.heads, applied |-> r.applied, stopped |-> TRUE]
    BY <1>2, <1>b, <1>s, StepStops
  <2>2. s.heads = r.heads /\ s.applied = r.applied /\ s.stopped
    BY <2>1
  <2>3. s \in Replayed(bs)
    BY <1>0, <2>1 DEF Replayed
  <2> QED BY <1>2, <2>2, <2>3, <1>i DEF Stepped, InTexts
<1>3. CASE /\ ~r.stopped /\ frame # Torn /\ frame \notin r.applied
           /\ Acceptable(r.heads[b.doc], b)
  <2>0. frame \in 1 .. Len(bs) /\ b \in Batch /\ b.id = frame /\ b.doc \in Docs
    <3>1. frame \in 1 .. Len(bs)
      BY <1>3 DEF FramesOf
    <3>2. b \in Batch
      BY <3>1, <1>b, ElementOfSeq
    <3>3. b.doc \in Docs
      <4> HIDE DEF b
      <4> QED BY <3>2 DEF Batch
    <3> QED BY <3>1, <3>2, <3>3, <1>b
  <2>1. s = [heads |-> Advance(r.heads, b), applied |-> r.applied \cup {frame},
             stopped |-> FALSE]
    <3>1. ~r.stopped /\ frame \notin r.applied /\ frame \in 1 .. Len(bs)
      BY <1>3, <2>0
    <3>2. Acceptable(r.heads[bs[frame].doc], bs[frame])
      BY <1>3
    <3> QED BY <3>1, <3>2, <1>b, <1>s, StepApplies
  <2>2. /\ s.heads \in [Docs -> DocumentHead]
        /\ s.heads[b.doc].text = Append(r.heads[b.doc].text, frame)
        /\ \A doc \in Docs \ {b.doc} : s.heads[doc] = r.heads[doc]
    <3> DEFINE heads == r.heads
    <3>1. heads \in [Docs -> DocumentHead] /\ b \in Batch
      BY <1>0, <2>0
    <3> HIDE DEF heads, b
    <3>2. /\ Advance(heads, b) \in [Docs -> DocumentHead]
          /\ Advance(heads, b)[b.doc] =
                  [text |-> Append(heads[b.doc].text, b.id),
                   next |-> heads[b.doc].next + 1, base |-> heads[b.doc].base]
          /\ \A doc \in Docs \ {b.doc} : Advance(heads, b)[doc] = heads[doc]
      BY <3>1, AdvanceIs
    <3>3. Advance(heads, b) = s.heads
      BY <2>1 DEF heads
    <3> QED BY <2>0, <3>2, <3>3 DEF heads
  <2>3. Elements(s.heads[b.doc].text) = Elements(r.heads[b.doc].text) \cup {frame}
    <3>1. r.heads[b.doc].text \in Seq(Nat) /\ frame \in Nat
      BY <1>0, <2>0 DEF DocumentHead
    <3> QED BY <2>2, <3>1, ElementsAppend
  <2>4. s \in Replayed(bs)
    BY <1>0, <2>0, <2>1, <2>2 DEF Replayed
  <2>5. \A doc \in Docs :
            Elements(r.heads[doc].text) \subseteq Elements(s.heads[doc].text)
    BY <2>2, <2>3
  <2>6. \A id \in s.applied : id \in Elements(s.heads[bs[id].doc].text)
    <3>1. \A id \in r.applied : bs[id].doc \in Docs
      <4>1. \A id \in r.applied : id \in 1 .. Len(bs)
        BY <1>0
      <4>2. \A id \in 1 .. Len(bs) : bs[id] \in Batch
        BY <1>b, ElementOfSeq, LenProperties
      <4> QED BY <4>1, <4>2 DEF Batch
    <3>2. \A id \in r.applied : id \in Elements(s.heads[bs[id].doc].text)
      BY <1>i, <2>5, <3>1
    <3> QED BY <1>i, <2>1, <2>3, <3>2
  <2>7. /\ s.applied \subseteq r.applied \cup {frame}
        /\ r.applied \subseteq s.applied
        /\ ~r.stopped /\ ~s.stopped /\ frame \in s.applied
    BY <1>3, <2>1
  <2> QED BY <2>4, <2>5, <2>6, <2>7 DEF Stepped, InTexts
<1> QED BY <1>0, <1>1, <1>2, <1>3

(* The first n frames of a journal.                                        *)
Part(s, n) == SubSeq(s, 1, n)

(* The frame at which a replay stops.                                      *)
StopsAt(bs, heads, s, p) ==
    /\ ~ReplayOf(bs, heads, Part(s, p - 1)).stopped
    /\ ReplayOf(bs, heads, Part(s, p)).stopped

(* What a replay returns: it stops at some frame when it stops, and it has *)
(* applied every frame it went past.                                       *)
Outcome(bs, heads, s, r) ==
    /\ r \in Replayed(bs)
    /\ r.applied \subseteq Elements(s)
    /\ \A doc \in Docs : Elements(heads[doc].text) \subseteq Elements(r.heads[doc].text)
    /\ InTexts(bs, r)
    /\ ~r.stopped => Elements(s) \subseteq r.applied
    /\ r.stopped => \E p \in 1 .. Len(s) :
                        /\ StopsAt(bs, heads, s, p)
                        /\ Elements(Part(s, p - 1)) \subseteq r.applied

(* The parts of a journal that is appended to.                             *)
LEMMA PartOfAppend ==
    ASSUME NEW F, NEW s \in Seq(F), NEW x \in F
    PROVE  \A n \in 0 .. Len(s) : Part(Append(s, x), n) = Part(s, n)
BY PrefixOfAppend DEF Part

(* All frames of a journal are the journal.                                *)
LEMMA PartIsWhole ==
    ASSUME NEW F, NEW s \in Seq(F)
    PROVE  Part(s, Len(s)) = s
<1> DEFINE v == Part(s, Len(s))
<1>1. Len(s) \in Nat /\ Len(s) \in 0 .. Len(s)
  BY LenProperties
<1>2. v \in Seq(F) /\ Len(v) = Len(s) /\ \A i \in 1 .. Len(s) : v[i] = s[i]
  BY <1>1, FirstOnes DEF Part
<1> HIDE DEF v
<1>3. v = s
  BY <1>2, SeqEqual
<1> QED BY <1>3 DEF v

(* Every replay has this outcome, by induction on the frames.              *)
LEMMA ReplayOutcome ==
    ASSUME NEW bs, Numbered(bs), NEW heads \in [Docs -> DocumentHead],
           NEW frames \in Seq(FramesOf(bs))
    PROVE  Outcome(bs, heads, frames, ReplayOf(bs, heads, frames))
<1> DEFINE F == FramesOf(bs)
           T == {s \in Seq(F) : Outcome(bs, heads, s, ReplayOf(bs, heads, s))}
<1>1. <<>> \in T
  <2>1. ReplayOf(bs, heads, <<>>) = Unread(heads)
    BY ReplayEmpty
  <2>2. /\ Unread(heads) = [heads |-> heads, applied |-> {}, stopped |-> FALSE]
        /\ Unread(heads) \in Replayed(bs)
    BY DEF Unread, Replayed
  <2>3. Outcome(bs, heads, <<>>, Unread(heads))
    BY <2>2, ElementsEmpty DEF Outcome, InTexts
  <2>4. <<>> \in Seq(F)
    BY EmptySeq
  <2> QED BY <2>1, <2>3, <2>4
<1>2. ASSUME NEW s \in Seq(F), NEW x \in F, s \in T PROVE Append(s, x) \in T
  <2> DEFINE t == Append(s, x)
             r == ReplayOf(bs, heads, s)
             q == ReplayOf(bs, heads, t)
  <2>1. q = StepOf(bs, r, x)
    BY ReplayAppend
  <2>2. Outcome(bs, heads, s, r)
    BY <1>2
  <2>3. /\ t \in Seq(F) /\ Len(t) = Len(s) + 1 /\ Len(s) \in Nat
        /\ \A n \in 0 .. Len(s) : Part(t, n) = Part(s, n)
        /\ Part(t, Len(t)) = t /\ Part(s, Len(s)) = s
    <3>1. t \in Seq(F) /\ Len(t) = Len(s) + 1 /\ Len(s) \in Nat
      BY AppendProperties, LenProperties
    <3>2. \A n \in 0 .. Len(s) : Part(t, n) = Part(s, n)
      BY PartOfAppend
    <3> HIDE DEF t
    <3>3. Part(t, Len(t)) = t /\ Part(s, Len(s)) = s
      BY <3>1, PartIsWhole
    <3> QED BY <3>1, <3>2, <3>3
  <2>4. Elements(t) = Elements(s) \cup {x}
    BY ElementsAppend
  <2> HIDE DEF t, r, q, F, T
  <2>5. r \in Replayed(bs) /\ InTexts(bs, r)
    BY <2>2 DEF Outcome
  <2>6. x \in FramesOf(bs)
    BY DEF F
  <2>7. /\ q \in Replayed(bs)
        /\ q.applied \subseteq r.applied \cup {x}
        /\ r.applied \subseteq q.applied
        /\ r.stopped => q.stopped
        /\ \A doc \in Docs :
               Elements(r.heads[doc].text) \subseteq Elements(q.heads[doc].text)
        /\ InTexts(bs, q)
        /\ ~q.stopped => x \in q.applied
        /\ q.stopped => q.heads = r.heads /\ q.applied = r.applied
    <3>1. Stepped(bs, r, x, q)
      BY <2>1, <2>5, <2>6, StepIs
    <3> QED BY <3>1 DEF Stepped
  <2>8. ASSUME q.stopped
        PROVE  \E p \in 1 .. Len(t) :
                   /\ StopsAt(bs, heads, t, p)
                   /\ Elements(Part(t, p - 1)) \subseteq q.applied
    <3>1. CASE r.stopped
      <4>1. PICK p \in 1 .. Len(s) :
                   /\ StopsAt(bs, heads, s, p)
                   /\ Elements(Part(s, p - 1)) \subseteq r.applied
        BY <2>2, <3>1 DEF Outcome
      <4>2. p \in 1 .. Len(t) /\ p \in 0 .. Len(s) /\ p - 1 \in 0 .. Len(s)
        BY <2>3
      <4>3. Part(t, p - 1) = Part(s, p - 1) /\ Part(t, p) = Part(s, p)
        BY <2>3, <4>2
      <4>4. StopsAt(bs, heads, t, p) /\ Elements(Part(t, p - 1)) \subseteq q.applied
        BY <2>7, <4>1, <4>3 DEF StopsAt
      <4> QED BY <4>2, <4>4
    <3>2. CASE ~r.stopped
      <4>1. /\ Len(t) - 1 = Len(s) /\ Len(s) \in 0 .. Len(s) /\ Len(t) \in 1 .. Len(t)
        BY <2>3
      <4>2. Part(t, Len(t) - 1) = s
        BY <2>3, <4>1
      <4>3. StopsAt(bs, heads, t, Len(t))
        BY <2>3, <2>8, <3>2, <4>2 DEF StopsAt, r, q
      <4>4. Elements(s) \subseteq q.applied
        BY <2>2, <2>7, <3>2 DEF Outcome
      <4> QED BY <4>1, <4>2, <4>3, <4>4
    <3> QED BY <3>1, <3>2
  <2>9. \A doc \in Docs : Elements(heads[doc].text) \subseteq Elements(q.heads[doc].text)
    BY <2>2, <2>7 DEF Outcome
  <2>10. q.applied \subseteq Elements(t)
    BY <2>2, <2>4, <2>7 DEF Outcome
  <2>11. ~q.stopped => Elements(t) \subseteq q.applied
    BY <2>2, <2>4, <2>7 DEF Outcome
  <2>12. Outcome(bs, heads, t, q)
    BY <2>7, <2>8, <2>9, <2>10, <2>11 DEF Outcome
  <2> QED BY <2>3, <2>12 DEF T, t, q, F
<1>3. Seq(F) \subseteq T
  <2> HIDE DEF T, F
  <2> QED BY <1>1, <1>2, SequenceInduction
<1> QED BY <1>3

(* A new batch changes nothing for the frames that are there.              *)
LEMMA ReplayNewBatch ==
    ASSUME NEW bs \in Seq(Batch), NEW b \in Batch,
           NEW heads, NEW frames \in Seq(FramesOf(bs))
    PROVE  ReplayOf(Append(bs, b), heads, frames) = ReplayOf(bs, heads, frames)
<1> DEFINE cs == Append(bs, b)
           F == FramesOf(bs)
           T == {s \in Seq(F) : ReplayOf(cs, heads, s) = ReplayOf(bs, heads, s)}
<1>1. <<>> \in T
  <2>1. <<>> \in Seq(F)
    BY EmptySeq
  <2> QED BY <2>1, ReplayEmpty
<1>2. ASSUME NEW s \in Seq(F), NEW x \in F, s \in T PROVE Append(s, x) \in T
  <2>1. Append(s, x) \in Seq(F)
    BY AppendProperties
  <2>2. \A r : StepOf(cs, r, x) = StepOf(bs, r, x)
    <3>1. CASE x = Torn
      <4>1. ASSUME NEW r PROVE StepOf(cs, r, Torn) = StepOf(bs, r, Torn)
        <5> DEFINE u == cs[Torn]
                   v == bs[Torn]
        <5> QED BY DEF StepOf
      <4> QED BY <3>1, <4>1
    <3>2. CASE x \in 1 .. Len(bs)
      <4>1. cs[x] = bs[x]
        BY <3>2, AppendProperties
      <4> QED BY <4>1 DEF StepOf
    <3> QED BY <3>1, <3>2 DEF FramesOf
  <2>3. /\ ReplayOf(cs, heads, Append(s, x)) = StepOf(cs, ReplayOf(cs, heads, s), x)
        /\ ReplayOf(bs, heads, Append(s, x)) = StepOf(bs, ReplayOf(bs, heads, s), x)
    BY ReplayAppend
  <2>4. ReplayOf(cs, heads, s) = ReplayOf(bs, heads, s)
    BY <1>2
  <2> HIDE DEF cs, F
  <2> QED BY <2>1, <2>2, <2>3, <2>4
<1>3. Seq(F) \subseteq T
  <2> HIDE DEF T, F
  <2> QED BY <1>1, <1>2, SequenceInduction
<1> QED BY <1>3

-----------------------------------------------------------------------------
(* The inductive invariant.                                                *)

(* A text is one the author had: every batch was made on what is before it. *)
WrittenText(bs, text) ==
    /\ text \in Seq(Nat)
    /\ \A i \in 1 .. Len(text) :
           text[i] \in 1 .. Len(bs) /\ bs[text[i]].before = SubSeq(text, 1, i - 1)

HeadOK(bs, h) ==
    h \in DocumentHead /\ h.next = Len(h.text) /\ WrittenText(bs, h.text)

(* A frame no replay goes past: damage, or a batch that claims the place   *)
(* of another one before it.                                               *)
Blocked(bs, s, p) ==
    \/ s[p] = Torn
    \/ \E i \in 1 .. p - 1 :
           {s[i], s[p]} \subseteq 1 .. Len(bs) /\ SamePlace(bs[s[i]], bs[s[p]])

(* The replay of every first part of a journal comes to written texts, and *)
(* the frame it stops at is one no replay goes past.                       *)
InOrder(bs, heads, s) ==
    /\ \A n \in 0 .. Len(s) : \A doc \in Docs :
           HeadOK(bs, ReplayOf(bs, heads, Part(s, n)).heads[doc])
    /\ \A p \in 1 .. Len(s) : StopsAt(bs, heads, s, p) => Blocked(bs, s, p)

(* An older head of the same document: the same one, when it is as long.   *)
NotAhead(h, t) == h.base = t.base /\ h.next <= t.next /\ (h.next = t.next => h.text = t.text)

(* A batch on the head of its document, or on an older one.                *)
Fits(b, t) == b.sequence <= t.next /\ (b.sequence = t.next => b.before = t.text)

(* The head of the journal is the one the runtime knows, or one batch, not *)
(* confirmed, ahead of it.                                                 *)
OneAhead(bs, doc, t, h, applied) ==
    \/ h = t
    \/ \E a \in applied :
           /\ bs[a].doc = doc
           /\ Acceptable(t, bs[a])
           /\ bs[a].before = t.text
           /\ h = [text |-> Append(t.text, a), next |-> t.next + 1, base |-> t.base]

(* The document is behind a frame no replay goes past.                     *)
HiddenIn(bs, s, id) ==
    /\ id \in Elements(s)
    /\ \E p \in 1 .. Len(s) : Blocked(bs, s, p) /\ \A j \in 1 .. p - 1 : s[j] # id

-----------------------------------------------------------------------------
Frames == journal[Source.generation]
Recovered == ReplayOf(batches, Source.heads, Frames)
SourceReplay == ReplayOf(batches, Baseline, journal["source"])

Shapes ==
    /\ journal \in [{"source", "next"} -> Seq(FramesOf(batches))]
    /\ synced \in [{"source", "next"} -> Nat]
    /\ \A g \in {"source", "next"} : synced[g] <= Len(journal[g])
    /\ nextCreated \in BOOLEAN
    /\ temporary \in (SUBSET Docs) \cup {Absent, Partial}
    /\ publication \in (SUBSET Docs) \cup {Absent}
    /\ startup \in {"down", "clean", "pending", "read-only"}
    /\ available \in BOOLEAN
    /\ append \in {"idle", "writing", "syncing"}
    /\ phase \in {"idle", "prepare", "temporary", "rename", "reclaim", "resolve"}
    /\ accepted \subseteq 1 .. Len(batches)
    /\ acked \subseteq 1 .. Len(batches)
    /\ calls \in Seq(1 .. Len(batches))

BatchesOK ==
    /\ Numbered(batches)
    /\ Len(batches) <= MaxBatches
    /\ \A i \in 1 .. Len(batches) : Len(batches[i].before) < i

HeadsOK ==
    /\ profile \in [Docs -> DocumentHead] /\ targets \in [Docs -> DocumentHead]
    /\ \A doc \in Docs : HeadOK(batches, profile[doc]) /\ HeadOK(batches, targets[doc])
    /\ \A doc \in Docs : NotAhead(profile[doc], targets[doc])

WindowQueue ==
    [text : Seq(Nat), next : Nat, base : Bases, attempt : Nat \cup {NoBatch},
     failed : BOOLEAN]

(* What a queue holds is on an older head, and its attempt on what it holds. *)
QueueOK(bs, q, doc, t, done) ==
    /\ q.next = Len(q.text) /\ WrittenText(bs, q.text) /\ NotAhead(q, t)
    /\ q.failed => q.attempt # NoBatch
    /\ q.attempt # NoBatch =>
           /\ q.attempt \in 1 .. Len(bs) /\ q.attempt \notin done
           /\ bs[q.attempt].doc = doc /\ bs[q.attempt].before = q.text
           /\ bs[q.attempt].sequence = q.next /\ bs[q.attempt].base = q.base

QueuesOK ==
    /\ queue \in [Docs -> WindowQueue]
    /\ \A doc \in Docs : QueueOK(batches, queue[doc], doc, targets[doc], accepted)

CallsOK ==
    /\ \A k \in 1 .. Len(calls) :
           Fits(batches[calls[k]], targets[batches[calls[k]].doc])
    /\ startup # "clean" => calls = <<>> /\ append = "idle"
    /\ append # "idle" =>
           /\ calls # <<>>
           /\ Acceptable(targets[First.doc], First)
           /\ Head(calls) \notin accepted
    /\ append = "syncing" => Head(calls) \in Elements(Frames)

(* A batch is called once, and not any more when its failure is shown.     *)
Once(cs, qs) ==
    /\ \A i, j \in 1 .. Len(cs) : cs[i] = cs[j] => i = j
    /\ \A doc \in Docs : qs[doc].failed => qs[doc].attempt \notin Elements(cs)

CallsOnce == Once(calls, queue)

ContentsOK ==
    /\ content \in [Docs -> Seq(Nat) \cup {Absent, Partial}]
    /\ \A doc \in Docs :
           content[doc] \notin {Absent, Partial} => WrittenText(batches, content[doc])

PublicationOK ==
    /\ publication = Absent => journal["next"] = <<>>
    /\ publication # Absent =>
           /\ nextCreated
           /\ \A doc \in publication : content[doc] \notin {Absent, Partial}

PhaseOK ==
    /\ phase # "idle" => startup = "pending"
    /\ available /\ phase = "idle" => publication = Absent
    /\ phase \in {"prepare", "temporary", "rename"} => publication = Absent
    /\ phase \in {"temporary", "rename"} =>
           /\ nextCreated
           /\ \A doc \in Affected : content[doc] = Recovered.heads[doc].text
    /\ phase = "rename" => temporary = Affected
    /\ phase = "reclaim" => publication # Absent

JournalOK == InOrder(batches, Source.heads, Frames)

SessionOK ==
    startup = "clean" /\ ~Recovered.stopped =>
        \A doc \in Docs : OneAhead(batches, doc, targets[doc], Recovered.heads[doc],
                                   Recovered.applied)

Kept(id) == id \in Elements(Part(Frames, synced[Source.generation]))

Published(id) ==
    /\ publication # Absent
    /\ batches[id].doc \in publication
    /\ id \in Elements(content[batches[id].doc])

Hidden(id) ==
    /\ publication # Absent
    /\ SourceReplay.stopped
    /\ HiddenIn(batches, journal["source"], id)

AckedOK == \A id \in acked : Kept(id) \/ Published(id) \/ Hidden(id)

IInv ==
    /\ Shapes
    /\ BatchesOK
    /\ HeadsOK
    /\ QueuesOK
    /\ CallsOK
    /\ CallsOnce
    /\ ContentsOK
    /\ PublicationOK
    /\ PhaseOK
    /\ JournalOK
    /\ SessionOK
    /\ AckedOK

-----------------------------------------------------------------------------
(* What the invariant says of the startup source.                          *)

(* The empty text is one the author had.                                   *)
LEMMA EmptyText == ASSUME NEW bs PROVE WrittenText(bs, <<>>)
<1>1. <<>> \in Seq(Nat) /\ Len(<<>>) = 0 /\ 1 .. 0 = {}
  BY EmptySeq
<1> QED BY <1>1 DEF WrittenText

(* The baseline has written heads.                                         *)
LEMMA BaselineOK ==
    ASSUME NEW bs
    PROVE  /\ Baseline \in [Docs -> DocumentHead]
           /\ \A doc \in Docs : HeadOK(bs, Baseline[doc])
<1> DEFINE empty == [text |-> <<>>, next |-> 0, base |-> "baseline"]
<1>1. Baseline = [doc \in Docs |-> empty]
  BY DEF Baseline
<1>2. <<>> \in Seq(Nat) /\ Len(<<>>) = 0
  BY EmptySeq
<1>3. empty \in DocumentHead /\ empty.text = <<>> /\ empty.next = 0
  BY <1>2 DEF DocumentHead, Bases
<1> HIDE DEF empty
<1>4. HeadOK(bs, empty)
  BY <1>2, <1>3, EmptyText DEF HeadOK
<1> QED BY <1>1, <1>3, <1>4

(* The startup source without a publication and with one.                  *)
LEMMA SourceIs ==
    /\ publication = Absent =>
           Source = [generation |-> "source", heads |-> Baseline]
    /\ publication # Absent =>
           Source = [generation |-> "next", heads |-> PublishedHeads]
    /\ Source.generation \in {"source", "next"}
BY DEF Source

(* PublishedHeads with the publication and the contents as parameters.     *)
HeadsOf(published, contents) ==
    [doc \in Docs |->
        IF doc \in published
        THEN [text |-> contents[doc], next |-> Len(contents[doc]), base |-> "published"]
        ELSE Baseline[doc]]

(* Written contents make written heads.                                    *)
LEMMA HeadsOfOK ==
    ASSUME NEW bs, NEW published \in SUBSET Docs, NEW contents,
           \A doc \in published : WrittenText(bs, contents[doc])
    PROVE  /\ HeadsOf(published, contents) \in [Docs -> DocumentHead]
           /\ \A doc \in Docs : HeadOK(bs, HeadsOf(published, contents)[doc])
<1> DEFINE head(doc) == [text |-> contents[doc], next |-> Len(contents[doc]),
                         base |-> "published"]
           heads == HeadsOf(published, contents)
<1>1. heads = [doc \in Docs |-> IF doc \in published THEN head(doc) ELSE Baseline[doc]]
  BY DEF HeadsOf
<1>3. ASSUME NEW doc \in published
      PROVE  head(doc) \in DocumentHead /\ HeadOK(bs, head(doc))
  <2>1. contents[doc] \in Seq(Nat) /\ WrittenText(bs, contents[doc])
    BY <1>3 DEF WrittenText
  <2>2. Len(contents[doc]) \in Nat
    BY <2>1, LenProperties
  <2> QED BY <2>1, <2>2 DEF HeadOK, DocumentHead, Bases
<1> HIDE DEF head, heads
<1>5. /\ Baseline \in [Docs -> DocumentHead]
      /\ \A doc \in Docs : HeadOK(bs, Baseline[doc])
  BY BaselineOK
<1>6. \A doc \in Docs : heads[doc] = IF doc \in published THEN head(doc)
                                                           ELSE Baseline[doc]
  BY <1>1
<1>7. \A doc \in Docs : heads[doc] \in DocumentHead /\ HeadOK(bs, heads[doc])
  BY <1>3, <1>5, <1>6
<1> QED BY <1>1, <1>7 DEF heads

(* A publication has written heads, with the contents for their texts.     *)
LEMMA PublishedOK ==
    ASSUME Shapes, ContentsOK, PublicationOK, publication # Absent
    PROVE  /\ PublishedHeads \in [Docs -> DocumentHead]
           /\ \A doc \in Docs : HeadOK(batches, PublishedHeads[doc])
           /\ \A doc \in publication : PublishedHeads[doc].text = content[doc]
<1>1. publication \subseteq Docs
  BY DEF Shapes
<1>2. \A doc \in publication : WrittenText(batches, content[doc])
  BY <1>1 DEF PublicationOK, ContentsOK
<1>3. PublishedHeads = HeadsOf(publication, content)
  BY DEF PublishedHeads, HeadsOf
<1>4. publication \in SUBSET Docs
  BY <1>1
<1>5. HeadsOf(publication, content) \in [Docs -> DocumentHead]
  BY <1>2, <1>4, HeadsOfOK
<1>6. \A doc \in Docs : HeadOK(batches, HeadsOf(publication, content)[doc])
  BY <1>2, <1>4, HeadsOfOK
<1>7. \A doc \in publication : HeadsOf(publication, content)[doc].text = content[doc]
  BY <1>1 DEF HeadsOf
<1> QED BY <1>3, <1>5, <1>6, <1>7

(* The startup source has written heads, and a journal of frames.          *)
LEMMA SourceOK ==
    ASSUME Shapes, ContentsOK, PublicationOK
    PROVE  /\ Source.generation \in {"source", "next"}
           /\ Source.heads \in [Docs -> DocumentHead]
           /\ \A doc \in Docs : HeadOK(batches, Source.heads[doc])
           /\ Frames \in Seq(FramesOf(batches))
<1>1. CASE publication = Absent
  <2>1. Source.generation = "source" /\ Source.heads = Baseline
    BY <1>1, SourceIs
  <2> QED BY <2>1, BaselineOK DEF Frames, Shapes
<1>2. CASE publication # Absent
  <2>1. Source.generation = "next" /\ Source.heads = PublishedHeads
    BY <1>2, SourceIs
  <2> QED BY <1>2, <2>1, PublishedOK DEF Frames, Shapes
<1> QED BY <1>1, <1>2

(* The candidate, and what a restart would find, as replays.               *)
LEMMA CandidateIs ==
    /\ Candidate = Recovered /\ Candidate' = Recovered'
    /\ HasIssues <=> SourceReplay.stopped
    /\ Restarted = ReplayOf(batches, Source.heads, Part(Frames, synced[Source.generation]))
BY DEF Candidate, Recovered, HasIssues, SourceReplay, Restarted, Part, Frames,
       Replay, ReplayOf, ReplayFrame, StepOf

(* The outcome of the replay of the whole journal.                         *)
LEMMA RecoveredOutcome ==
    ASSUME Shapes, BatchesOK, ContentsOK, PublicationOK
    PROVE  Outcome(batches, Source.heads, Frames, Recovered)
<1>1. Numbered(batches)
  BY DEF BatchesOK
<1> QED BY <1>1, SourceOK, ReplayOutcome DEF Recovered

(* The heads of a replay of the whole journal are written texts.           *)
LEMMA RecoveredHeads ==
    ASSUME Shapes, BatchesOK, ContentsOK, PublicationOK, JournalOK
    PROVE  \A doc \in Docs : HeadOK(batches, Recovered.heads[doc])
<1>1. Frames \in Seq(FramesOf(batches)) /\ Len(Frames) \in 0 .. Len(Frames)
  BY SourceOK, LenProperties
<1>2. Part(Frames, Len(Frames)) = Frames
  BY <1>1, PartIsWhole
<1> QED BY <1>1, <1>2 DEF JournalOK, InOrder, Recovered

(* A written text is no longer than the batches there are.                 *)
LEMMA WrittenIsText ==
    ASSUME BatchesOK, NEW text, WrittenText(batches, text)
    PROVE  text \in Texts /\ Len(text) <= Len(batches)
<1> DEFINE n == Len(text)
<1>1. /\ text \in Seq(Nat) /\ n \in Nat /\ MaxBatches \in Nat
      /\ Len(batches) \in Nat /\ Len(batches) <= MaxBatches
  BY LenProperties, ConstantsAssumption DEF WrittenText, BatchesOK, Numbered
<1>2. n <= Len(batches)
  <2>1. CASE n = 0
    BY <1>1, <2>1
  <2>2. CASE n # 0
    <3>1. n \in 1 .. n /\ n - 1 \in 0 .. n
      BY <1>1, <2>2
    <3>2. /\ text[n] \in 1 .. Len(batches)
          /\ batches[text[n]].before = SubSeq(text, 1, n - 1)
      BY <3>1 DEF WrittenText
    <3>3. Len(SubSeq(text, 1, n - 1)) = n - 1
      BY <1>1, <3>1, FirstOnes
    <3>4. Len(batches[text[n]].before) < text[n]
      BY <3>2 DEF BatchesOK
    <3> HIDE DEF n
    <3> QED BY <1>1, <3>2, <3>3, <3>4
  <2> QED BY <2>1, <2>2
<1>3. text \in [1 .. n -> Ids]
  <2>1. text \in [1 .. n -> Nat]
    BY <1>1, LenProperties
  <2>2. \A i \in 1 .. n : text[i] \in Ids
    <3>1. \A i \in 1 .. n : text[i] \in 1 .. Len(batches)
      BY DEF WrittenText
    <3>2. 1 .. Len(batches) \subseteq Ids
      BY <1>1 DEF Ids
    <3> QED BY <3>1, <3>2
  <2> HIDE DEF n
  <2> QED BY <2>1, <2>2
<1>4. n \in 0 .. MaxBatches
  BY <1>1, <1>2
<1> HIDE DEF n
<1>5. text \in Texts
  BY <1>3, <1>4 DEF Texts
<1> QED BY <1>2, <1>5 DEF n

-----------------------------------------------------------------------------
(* What the invariant means.                                               *)

(* A first part of a journal, and the parts of that part.                  *)
LEMMA PartIs ==
    ASSUME NEW F, NEW s \in Seq(F), NEW n \in 0 .. Len(s)
    PROVE  /\ Part(s, n) \in Seq(F) /\ Len(Part(s, n)) = n
           /\ \A i \in 1 .. n : Part(s, n)[i] = s[i]
           /\ \A m \in 0 .. n : Part(Part(s, n), m) = Part(s, m)
           /\ Elements(Part(s, n)) = {s[i] : i \in 1 .. n}
           /\ Elements(Part(s, n)) \subseteq Elements(s)
<1> DEFINE p == Part(s, n)
<1>1. p \in Seq(F) /\ Len(p) = n /\ \A i \in 1 .. n : p[i] = s[i]
  BY FirstOnes DEF Part
<1>2. \A m \in 0 .. n : Part(p, m) = Part(s, m)
  BY FirstOfFirst DEF Part
<1>3. Len(s) \in Nat /\ \A i \in 1 .. n : i \in 1 .. Len(s)
  BY LenProperties
<1> HIDE DEF p
<1>4. Elements(p) = {s[i] : i \in 1 .. n}
  BY <1>1 DEF Elements
<1>5. Elements(p) \subseteq Elements(s)
  BY <1>3, <1>4 DEF Elements
<1> QED BY <1>1, <1>2, <1>4, <1>5 DEF p

(* A frame of a journal was applied, or is behind a frame no replay goes   *)
(* past.                                                                   *)
LEMMA AppliedOrHidden ==
    ASSUME NEW bs, Numbered(bs), NEW heads \in [Docs -> DocumentHead],
           NEW s \in Seq(FramesOf(bs)), InOrder(bs, heads, s),
           NEW n \in 0 .. Len(s), NEW id \in Elements(Part(s, n)),
           NEW r, r = ReplayOf(bs, heads, Part(s, n)), id \notin r.applied
    PROVE  r.stopped /\ HiddenIn(bs, s, id)
<1> DEFINE t == Part(s, n)
<1>1. /\ t \in Seq(FramesOf(bs)) /\ Len(t) = n
      /\ \A m \in 0 .. n : Part(t, m) = Part(s, m)
      /\ Elements(t) \subseteq Elements(s)
  BY PartIs
<1>2. id \in Elements(t) /\ r = ReplayOf(bs, heads, t)
  OBVIOUS
<1> HIDE DEF t
<1>3. Outcome(bs, heads, t, r)
  BY <1>1, <1>2, ReplayOutcome
<1>4. r.stopped
  BY <1>2, <1>3 DEF Outcome
<1>5. PICK p \in 1 .. Len(t) : /\ StopsAt(bs, heads, t, p)
                               /\ Elements(Part(t, p - 1)) \subseteq r.applied
  BY <1>3, <1>4 DEF Outcome
<1>6. /\ Len(s) \in Nat /\ p \in 1 .. Len(s) /\ p \in 0 .. n /\ p - 1 \in 0 .. n
      /\ p - 1 \in 0 .. Len(s)
  BY <1>1, LenProperties
<1>7. Part(t, p - 1) = Part(s, p - 1) /\ Part(t, p) = Part(s, p)
  BY <1>1, <1>6
<1>8. Blocked(bs, s, p)
  BY <1>5, <1>6, <1>7 DEF InOrder, StopsAt
<1>9. ASSUME NEW j \in 1 .. p - 1 PROVE s[j] # id
  <2>1. Elements(Part(s, p - 1)) = {s[i] : i \in 1 .. p - 1}
    <3> DEFINE m == p - 1
    <3>1. m \in 0 .. Len(s)
      BY <1>6
    <3> HIDE DEF m
    <3>2. Elements(Part(s, m)) = {s[i] : i \in 1 .. m}
      BY <3>1, PartIs
    <3> QED BY <3>2 DEF m
  <2> QED BY <1>5, <1>7, <2>1
<1> QED BY <1>1, <1>2, <1>4, <1>6, <1>8, <1>9 DEF HiddenIn

(* A hidden frame is behind damage, or behind a conflict.                  *)
LEMMA HiddenMeans ==
    ASSUME Numbered(batches), NEW g \in {"source", "next"}, NEW id \in Nat,
           Len(journal[g]) \in Nat, HiddenIn(batches, journal[g], id)
    PROVE  \/ BehindConflict(id)
           \/ \E i \in 1 .. Len(journal[g]) :
                  journal[g][i] = Torn /\ \A j \in 1 .. i : journal[g][j] # id
<1> DEFINE s == journal[g]
<1>1. PICK p \in 1 .. Len(s) : Blocked(batches, s, p) /\ \A j \in 1 .. p - 1 : s[j] # id
  BY DEF HiddenIn
<1>2. CASE s[p] = Torn
  <2>1. \A j \in 1 .. p : j \in 1 .. p - 1 \/ j = p
    OBVIOUS
  <2>2. s[p] # id
    BY <1>2, ConstantsAssumption
  <2> QED BY <1>1, <1>2, <2>1, <2>2
<1>3. ASSUME NEW i \in 1 .. p - 1, {s[i], s[p]} \subseteq 1 .. Len(batches),
             SamePlace(batches[s[i]], batches[s[p]])
      PROVE  BehindConflict(id)
  <2>1. i \in 1 .. Len(s) /\ i < p
    OBVIOUS
  <2>2. DOMAIN batches = 1 .. Len(batches)
    BY LenProperties DEF Numbered
  <2>3. id \in Elements(s)
    BY DEF HiddenIn
  <2> QED BY <1>1, <1>3, <2>1, <2>2, <2>3 DEF BehindConflict
<1> QED BY <1>1, <1>2, <1>3 DEF Blocked

(* What is recoverable: what is in the synced part of the journal, unless  *)
(* it is hidden there, and what is published.                              *)
LEMMA InvariantRecovers ==
    ASSUME IInv PROVE AcknowledgedIsRecoverable
<1> DEFINE g == Source.generation
           n == synced[g]
           s == Frames
           r == Restarted
<1>1. /\ Shapes /\ BatchesOK /\ ContentsOK /\ PublicationOK /\ JournalOK /\ AckedOK
      /\ Numbered(batches)
  BY DEF IInv, BatchesOK
<1>2. /\ g \in {"source", "next"} /\ Source.heads \in [Docs -> DocumentHead]
      /\ s \in Seq(FramesOf(batches)) /\ s = journal[g]
  BY <1>1, SourceOK DEF Frames
<1>3. n \in 0 .. Len(s) /\ Len(s) \in Nat
  BY <1>1, <1>2, LenProperties DEF Shapes
<1>4. r = ReplayOf(batches, Source.heads, Part(s, n))
  BY CandidateIs
<1>5. Part(s, n) \in Seq(FramesOf(batches))
  BY <1>2, <1>3, PartIs
<1> HIDE DEF g, n, s, r
<1>6. Outcome(batches, Source.heads, Part(s, n), r)
  BY <1>1, <1>2, <1>4, <1>5, ReplayOutcome
<1> SUFFICES ASSUME NEW id \in acked
             PROVE  \/ Recoverable(id)
                    \/ BehindDamage(id) \/ BehindConflict(id)
                    \/ PublicationInvalid
  BY DEF AcknowledgedIsRecoverable
<1>7. id \in 1 .. Len(batches) /\ id \in Nat /\ batches[id].doc \in Docs
  <2>1. id \in 1 .. Len(batches)
    BY <1>1 DEF Shapes
  <2>2. batches[id] \in Batch
    BY <1>1, <2>1, ElementOfSeq DEF Numbered
  <2> QED BY <2>1, <2>2 DEF Batch
<1>8. ASSUME NEW h \in {"source", "next"}, HiddenIn(batches, journal[h], id)
      PROVE  \/ BehindConflict(id)
             \/ \E i \in 1 .. Len(journal[h]) :
                    journal[h][i] = Torn /\ \A j \in 1 .. i : journal[h][j] # id
  <2>1. Len(journal[h]) \in Nat
    BY <1>1, LenProperties DEF Shapes
  <2> QED BY <1>1, <1>7, <1>8, <2>1, HiddenMeans
<1>9. CASE Kept(id)
  <2>1. id \in Elements(Part(s, n))
    BY <1>9 DEF Kept, s, n, g
  <2>2. CASE id \in r.applied
    <3>1. id \in Elements(r.heads[batches[id].doc].text)
      BY <1>6, <2>2 DEF Outcome, InTexts
    <3> QED BY <3>1 DEF Recoverable, Contains, r
  <2>3. CASE id \notin r.applied
    <3>1. HiddenIn(batches, s, id)
      BY <1>1, <1>2, <1>3, <1>4, <2>1, <2>3, AppliedOrHidden DEF JournalOK, s
    <3>2. \/ BehindConflict(id)
          \/ \E i \in 1 .. Len(journal[g]) :
                 journal[g][i] = Torn /\ \A j \in 1 .. i : journal[g][j] # id
      BY <1>2, <1>8, <3>1
    <3>3. CASE g = "source"
      BY <3>2, <3>3 DEF BehindDamage
    <3>4. CASE g # "source"
      <4>1. publication # Absent /\ g = "next"
        BY <1>2, <3>4, SourceIs DEF g
      <4>2. (\E i \in 1 .. Len(journal[g]) : journal[g][i] = Torn)
                => Torn \in Elements(journal["next"])
        BY <4>1 DEF Elements
      <4> QED BY <3>2, <4>1, <4>2 DEF PublicationInvalid
    <3> QED BY <3>3, <3>4
  <2> QED BY <2>2, <2>3
<1>10. CASE Published(id)
  <2>1. Source.heads = PublishedHeads
    BY <1>10, SourceIs DEF Published
  <2>2. Source.heads[batches[id].doc].text = content[batches[id].doc]
    BY <1>1, <1>10, <2>1, PublishedOK DEF Published
  <2>3. id \in Elements(r.heads[batches[id].doc].text)
    BY <1>6, <1>7, <1>10, <2>2 DEF Outcome, Published
  <2> QED BY <2>3 DEF Recoverable, Contains, r
<1>11. CASE Hidden(id)
  <2>1. HiddenIn(batches, journal["source"], id)
    BY <1>11 DEF Hidden
  <2> QED BY <1>8, <2>1 DEF BehindDamage
<1> QED BY <1>1, <1>9, <1>10, <1>11 DEF AckedOK

(* What was acknowledged is in a journal or in what is published.          *)
LEMMA InvariantKeepsBytes ==
    ASSUME IInv PROVE AcknowledgedBytesAreKept
<1>1. /\ Shapes /\ ContentsOK /\ PublicationOK /\ AckedOK
  BY DEF IInv
<1>2. /\ Source.generation \in {"source", "next"}
      /\ Frames \in Seq(FramesOf(batches)) /\ Frames = journal[Source.generation]
  BY <1>1, SourceOK DEF Frames
<1>3. synced[Source.generation] \in 0 .. Len(Frames)
  BY <1>1, <1>2, LenProperties DEF Shapes
<1> SUFFICES ASSUME NEW id \in acked
             PROVE  \/ \E g \in {"source", "next"} : Contains(journal[g], id)
                    \/ /\ publication # Absent
                       /\ batches[id].doc \in publication
                       /\ Contains(content[batches[id].doc], id)
  BY DEF AcknowledgedBytesAreKept
<1>4. CASE Kept(id)
  <2>1. Elements(Part(Frames, synced[Source.generation])) \subseteq Elements(Frames)
    BY <1>2, <1>3, PartIs
  <2> QED BY <1>2, <1>4, <2>1 DEF Kept, Contains
<1>5. CASE Published(id)
  BY <1>5 DEF Published, Contains
<1>6. CASE Hidden(id)
  BY <1>6 DEF Hidden, HiddenIn, Contains
<1> QED BY <1>1, <1>4, <1>5, <1>6 DEF AckedOK

(* What a restart comes to was written.                                    *)
LEMMA InvariantMeansWritten ==
    ASSUME IInv PROVE RestartedTextWasWritten
<1>1. \A doc \in Docs : HeadOK(batches, Recovered.heads[doc])
  BY RecoveredHeads DEF IInv
<1>2. Candidate = Recovered
  BY CandidateIs
<1> QED BY <1>1, <1>2 DEF RestartedTextWasWritten, HeadOK, WrittenText

(* The invariant has every property of the runs.                           *)
LEMMA InvariantMeans ==
    ASSUME IInv PROVE TypeOK /\ RecoveryIsExact /\ CompactionIsSafe
<1>1. RecoveryIsExact
  BY InvariantRecovers, InvariantMeansWritten DEF RecoveryIsExact
<1>2. PublicationIsWhole
  BY DEF IInv, PublicationOK, PublicationIsWhole
<1>3. CompactionIsSafe
  BY <1>2, InvariantKeepsBytes DEF CompactionIsSafe
<1>4. /\ Shapes /\ BatchesOK /\ HeadsOK /\ QueuesOK /\ ContentsOK
      /\ Len(batches) \in Nat /\ Len(batches) <= MaxBatches /\ MaxBatches \in Nat
      /\ 1 .. Len(batches) \subseteq Ids
  <2>1. Shapes /\ BatchesOK /\ HeadsOK /\ QueuesOK /\ ContentsOK
    BY DEF IInv
  <2>2. Len(batches) \in Nat /\ Len(batches) <= MaxBatches /\ MaxBatches \in Nat
    BY <2>1, LenProperties, ConstantsAssumption DEF BatchesOK, Numbered
  <2> QED BY <2>1, <2>2 DEF Ids
<1>5. \A text : WrittenText(batches, text) =>
                    text \in Texts /\ Len(text) <= Len(batches)
  BY <1>4, WrittenIsText
<1>6. ASSUME NEW g \in {"source", "next"}
      PROVE  /\ Elements(journal[g]) \subseteq Ids \cup {Torn}
             /\ synced[g] \in 0 .. Len(journal[g])
  <2>1. journal[g] \in Seq(FramesOf(batches)) /\ synced[g] \in Nat
        /\ synced[g] <= Len(journal[g])
    BY <1>4 DEF Shapes
  <2>2. Elements(journal[g]) \subseteq FramesOf(batches) /\ Len(journal[g]) \in Nat
    BY <2>1, ElementsOf, LenProperties
  <2> QED BY <1>4, <2>1, <2>2 DEF FramesOf
<1>7. content \in [Docs -> Texts \cup {Absent, Partial}]
  <2>1. \A doc \in Docs : content[doc] \in Texts \cup {Absent, Partial}
    BY <1>4, <1>5 DEF ContentsOK
  <2> QED BY <1>4, <2>1 DEF ContentsOK
<1>8. ASSUME NEW h \in [Docs -> DocumentHead], \A doc \in Docs : HeadOK(batches, h[doc])
      PROVE  h \in [Docs -> Heads]
  <2>1. ASSUME NEW doc \in Docs PROVE h[doc] \in Heads
    <3>1. /\ h[doc] \in DocumentHead /\ h[doc].next = Len(h[doc].text)
          /\ h[doc].text \in Texts /\ Len(h[doc].text) <= Len(batches)
      BY <1>5, <1>8 DEF HeadOK
    <3>2. h[doc].next \in 0 .. MaxBatches
      BY <1>4, <3>1 DEF DocumentHead
    <3> QED BY <3>1, <3>2 DEF Heads, DocumentHead, Bases
  <2> QED BY <2>1
<1>9. profile \in [Docs -> Heads] /\ targets \in [Docs -> Heads]
  BY <1>4, <1>8 DEF HeadsOK
<1>10. Elements(calls) \subseteq Ids /\ accepted \subseteq Ids /\ acked \subseteq Ids
  BY <1>4, ElementsOf DEF Shapes
<1>11. ASSUME NEW doc \in Docs
       PROVE  /\ queue[doc].text \in Texts
              /\ queue[doc].attempt \in Ids \cup {NoBatch}
              /\ queue[doc].failed => queue[doc].attempt # NoBatch
  <2>1. QueueOK(batches, queue[doc], doc, targets[doc], accepted)
    BY <1>4 DEF QueuesOK
  <2>2. queue[doc].text \in Texts
    BY <1>5, <2>1 DEF QueueOK
  <2> QED BY <1>4, <2>1, <2>2 DEF QueueOK
<1>12. TypeOK
  BY <1>4, <1>6, <1>7, <1>9, <1>10, <1>11 DEF TypeOK, Shapes, BatchesOK
<1> QED BY <1>1, <1>3, <1>12

-----------------------------------------------------------------------------
(* How the parts of the invariant change.                                  *)

(* The batches grow.                                                       *)
Grown(bs, cs) == \E b \in Batch : bs \in Seq(Batch) /\ cs = Append(bs, b)

(* The batches that were there keep their numbers.                         *)
LEMMA GrownIs ==
    ASSUME NEW bs, NEW cs, Grown(bs, cs)
    PROVE  /\ bs \in Seq(Batch) /\ cs \in Seq(Batch)
           /\ Len(bs) \in Nat /\ Len(cs) = Len(bs) + 1
           /\ \A i \in 1 .. Len(bs) : cs[i] = bs[i]
           /\ 1 .. Len(bs) \subseteq 1 .. Len(cs)
           /\ FramesOf(bs) \subseteq FramesOf(cs)
<1>1. PICK b \in Batch : bs \in Seq(Batch) /\ cs = Append(bs, b)
  BY DEF Grown
<1>2. /\ cs \in Seq(Batch)
      /\ Len(bs) \in Nat /\ Len(cs) = Len(bs) + 1
      /\ \A i \in 1 .. Len(bs) : cs[i] = bs[i]
  BY <1>1, AppendProperties, LenProperties
<1>3. 1 .. Len(bs) \subseteq 1 .. Len(cs)
  BY <1>2
<1> QED BY <1>1, <1>2, <1>3 DEF FramesOf

(* A new batch leaves a written text written.                              *)
LEMMA WrittenGrows ==
    ASSUME NEW bs, NEW cs, Grown(bs, cs), NEW text, WrittenText(bs, text)
    PROVE  WrittenText(cs, text)
<1>1. \A i \in 1 .. Len(bs) : cs[i] = bs[i] /\ i \in 1 .. Len(cs)
  BY GrownIs
<1>2. \A i \in 1 .. Len(text) :
          text[i] \in 1 .. Len(bs) /\ bs[text[i]].before = SubSeq(text, 1, i - 1)
  BY DEF WrittenText
<1>3. \A i \in 1 .. Len(text) : text[i] \in 1 .. Len(cs) /\ cs[text[i]] = bs[text[i]]
  BY <1>1, <1>2
<1> QED BY <1>2, <1>3 DEF WrittenText

(* A new batch leaves a head on its text.                                  *)
LEMMA HeadGrows ==
    ASSUME NEW bs, NEW cs, Grown(bs, cs), NEW h, HeadOK(bs, h)
    PROVE  HeadOK(cs, h)
BY WrittenGrows DEF HeadOK

(* A new batch leaves damage and conflicts.                                *)
LEMMA BlockedGrows ==
    ASSUME NEW bs, NEW cs, Grown(bs, cs), NEW s, NEW p, Blocked(bs, s, p)
    PROVE  Blocked(cs, s, p)
BY GrownIs DEF Blocked, SamePlace

(* What is hidden stays hidden.                                            *)
LEMMA HiddenGrows ==
    ASSUME NEW bs, NEW cs, Grown(bs, cs), NEW s, NEW id, HiddenIn(bs, s, id)
    PROVE  HiddenIn(cs, s, id)
BY BlockedGrows DEF HiddenIn

(* The replay of the frames that are there stays the same.                 *)
LEMMA ReplayGrows ==
    ASSUME NEW bs, NEW cs, Grown(bs, cs), NEW heads, NEW s \in Seq(FramesOf(bs))
    PROVE  ReplayOf(cs, heads, s) = ReplayOf(bs, heads, s)
BY ReplayNewBatch DEF Grown

(* A journal stays in order when there is a new batch.                     *)
LEMMA InOrderGrows ==
    ASSUME NEW bs, NEW cs, Grown(bs, cs), NEW heads, NEW s \in Seq(FramesOf(bs)),
           InOrder(bs, heads, s)
    PROVE  InOrder(cs, heads, s)
<1>1. Len(s) \in Nat
  BY LenProperties
<1>2. \A n \in 0 .. Len(s) :
          ReplayOf(cs, heads, Part(s, n)) = ReplayOf(bs, heads, Part(s, n))
  <2> TAKE n \in 0 .. Len(s)
  <2>1. Part(s, n) \in Seq(FramesOf(bs))
    BY PartIs
  <2> QED BY <2>1, ReplayGrows
<1>3. \A n \in 0 .. Len(s) : \A doc \in Docs :
          HeadOK(cs, ReplayOf(cs, heads, Part(s, n)).heads[doc])
  BY <1>2, HeadGrows DEF InOrder
<1>4. ASSUME NEW p \in 1 .. Len(s), StopsAt(cs, heads, s, p) PROVE Blocked(cs, s, p)
  <2>1. p \in 0 .. Len(s) /\ p - 1 \in 0 .. Len(s)
    BY <1>1
  <2>2. StopsAt(bs, heads, s, p)
    BY <1>2, <1>4, <2>1 DEF StopsAt
  <2> QED BY <2>2, BlockedGrows DEF InOrder
<1> QED BY <1>3, <1>4 DEF InOrder

(* A batch is put at the end of the text it was made on.                   *)
LEMMA WrittenAppend ==
    ASSUME NEW bs, NEW text, WrittenText(bs, text), NEW id \in 1 .. Len(bs),
           Len(bs) \in Nat, bs[id].before = text
    PROVE  /\ WrittenText(bs, Append(text, id))
           /\ Len(Append(text, id)) = Len(text) + 1 /\ Len(text) \in Nat
<1> DEFINE t == Append(text, id)
<1>1. text \in Seq(Nat) /\ id \in Nat
  BY DEF WrittenText
<1>2. /\ t \in Seq(Nat) /\ Len(t) = Len(text) + 1 /\ Len(text) \in Nat
      /\ \A i \in 1 .. Len(text) : t[i] = text[i]
      /\ t[Len(text) + 1] = id
      /\ \A n \in 0 .. Len(text) : SubSeq(t, 1, n) = SubSeq(text, 1, n)
      /\ SubSeq(text, 1, Len(text)) = text
  <2>1. \A n \in 0 .. Len(text) : SubSeq(t, 1, n) = SubSeq(text, 1, n)
    BY <1>1, PrefixOfAppend
  <2>2. SubSeq(text, 1, Len(text)) = text
    BY <1>1, PartIsWhole DEF Part
  <2> QED BY <1>1, <2>1, <2>2, AppendProperties, LenProperties
<1> HIDE DEF t
<1>3. ASSUME NEW i \in 1 .. Len(t)
      PROVE  t[i] \in 1 .. Len(bs) /\ bs[t[i]].before = SubSeq(t, 1, i - 1)
  <2>1. CASE i \in 1 .. Len(text)
    <3>1. i - 1 \in 0 .. Len(text)
      BY <1>2, <2>1
    <3> QED BY <1>2, <2>1, <3>1 DEF WrittenText
  <2>2. CASE i = Len(text) + 1
    <3>1. i - 1 = Len(text) /\ Len(text) \in 0 .. Len(text)
      BY <1>2, <2>2
    <3>2. SubSeq(t, 1, i - 1) = text
      BY <1>2, <3>1
    <3> QED BY <1>2, <2>2, <3>2
  <2> QED BY <1>2, <2>1, <2>2
<1> QED BY <1>2, <1>3 DEF WrittenText, t

(* The head of a document after a batch made on its text.                  *)
LEMMA HeadAppend ==
    ASSUME NEW bs, NEW h, HeadOK(bs, h), NEW id \in 1 .. Len(bs), Len(bs) \in Nat,
           bs[id].before = h.text
    PROVE  HeadOK(bs, [text |-> Append(h.text, id), next |-> h.next + 1, base |-> h.base])
<1>1. /\ WrittenText(bs, Append(h.text, id))
      /\ Len(Append(h.text, id)) = Len(h.text) + 1 /\ Len(h.text) \in Nat
  BY WrittenAppend DEF HeadOK
<1>2. Append(h.text, id) \in Seq(Nat)
  BY <1>1 DEF WrittenText
<1> QED BY <1>1, <1>2 DEF HeadOK, DocumentHead

(* A journal that lost what was not synced.                                *)
LEMMA InOrderPart ==
    ASSUME NEW bs, NEW heads, NEW s \in Seq(FramesOf(bs)), InOrder(bs, heads, s),
           NEW n \in 0 .. Len(s)
    PROVE  InOrder(bs, heads, Part(s, n))
<1> DEFINE t == Part(s, n)
<1>1. /\ Len(t) = n /\ \A i \in 1 .. n : t[i] = s[i]
      /\ \A m \in 0 .. n : Part(t, m) = Part(s, m)
      /\ Len(s) \in Nat
  BY PartIs, LenProperties
<1> HIDE DEF t
<1>2. \A m \in 0 .. Len(t) : m \in 0 .. Len(s) /\ Part(t, m) = Part(s, m)
  BY <1>1
<1>3. \A m \in 0 .. Len(t) : \A doc \in Docs :
          HeadOK(bs, ReplayOf(bs, heads, Part(t, m)).heads[doc])
  BY <1>2 DEF InOrder
<1>4. ASSUME NEW p \in 1 .. Len(t), StopsAt(bs, heads, t, p) PROVE Blocked(bs, t, p)
  <2>1. /\ p \in 1 .. Len(s) /\ p \in 0 .. Len(t) /\ p - 1 \in 0 .. Len(t)
        /\ \A i \in 1 .. p - 1 : i \in 1 .. n
        /\ p \in 1 .. n
    BY <1>1
  <2>2. StopsAt(bs, heads, s, p)
    BY <1>2, <1>4, <2>1 DEF StopsAt
  <2>3. Blocked(bs, s, p)
    BY <2>1, <2>2 DEF InOrder
  <2> QED BY <1>1, <2>1, <2>3 DEF Blocked
<1> QED BY <1>3, <1>4 DEF InOrder, t

(* A journal to which a frame is appended: damage, a duplicate, a batch on *)
(* the text the journal comes to, or one that claims the place of another. *)
LEMMA InOrderAppend ==
    ASSUME NEW bs, Numbered(bs), NEW heads \in [Docs -> DocumentHead],
           NEW s \in Seq(FramesOf(bs)), InOrder(bs, heads, s), NEW x \in FramesOf(bs),
           NEW r, r = ReplayOf(bs, heads, s),
           ~r.stopped /\ x # Torn /\ x \notin r.applied =>
               IF Acceptable(r.heads[bs[x].doc], bs[x])
               THEN bs[x].before = r.heads[bs[x].doc].text
               ELSE \E i \in 1 .. Len(s) : s[i] \in 1 .. Len(bs) /\ SamePlace(bs[s[i]], bs[x])
    PROVE  InOrder(bs, heads, Append(s, x))
<1> DEFINE t == Append(s, x)
           q == ReplayOf(bs, heads, t)
<1>1. /\ t \in Seq(FramesOf(bs)) /\ Len(t) = Len(s) + 1 /\ Len(s) \in Nat
      /\ t[Len(s) + 1] = x /\ \A i \in 1 .. Len(s) : t[i] = s[i]
  BY AppendProperties, LenProperties
<1>2. \A n \in 0 .. Len(s) : Part(t, n) = Part(s, n)
  BY PartOfAppend
<1>3. q = StepOf(bs, r, x)
  BY ReplayAppend
<1> HIDE DEF t, q
<1>4. Part(t, Len(t)) = t /\ Part(s, Len(s)) = s
  BY <1>1, PartIsWhole
<1>5. Outcome(bs, heads, s, r)
  BY ReplayOutcome
<1>6. r \in Replayed(bs) /\ r.heads \in [Docs -> DocumentHead] /\ InTexts(bs, r)
  BY <1>5 DEF Outcome, Replayed
<1>7. bs \in Seq(Batch) /\ Len(bs) \in Nat /\ \A i \in 1 .. Len(bs) : bs[i].id = i
  BY LenProperties DEF Numbered
<1>8. \A doc \in Docs : HeadOK(bs, r.heads[doc])
  <2>1. Len(s) \in 0 .. Len(s)
    BY <1>1
  <2> QED BY <1>4, <2>1 DEF InOrder
<1>9. /\ \A doc \in Docs : HeadOK(bs, q.heads[doc])
      /\ ~r.stopped /\ q.stopped => Blocked(bs, t, Len(t))
  <2>1. CASE r.stopped \/ (x # Torn /\ x \in r.applied)
    <3>1. q = r
      BY <1>3, <2>1, StepStopped
    <3> QED BY <1>8, <2>1, <3>1
  <2>2. CASE ~r.stopped /\ x = Torn
    <3>1. q = [heads |-> r.heads, applied |-> r.applied, stopped |-> TRUE]
      BY <1>3, <1>6, <1>7, <2>2, StepStops
    <3>2. Blocked(bs, t, Len(t))
      BY <1>1, <2>2 DEF Blocked
    <3> QED BY <1>8, <3>1, <3>2
  <2>3. CASE ~r.stopped /\ x # Torn /\ x \notin r.applied
    <3> DEFINE b == bs[x]
    <3>1. x \in 1 .. Len(bs) /\ b \in Batch /\ b.doc \in Docs /\ b.id = x
      <4>1. x \in 1 .. Len(bs)
        BY <2>3 DEF FramesOf
      <4>2. b \in Batch
        BY <1>7, <4>1, ElementOfSeq
      <4> HIDE DEF b
      <4>3. b.doc \in Docs
        BY <4>2 DEF Batch
      <4> QED BY <1>7, <4>1, <4>2, <4>3 DEF b
    <3>2. CASE Acceptable(r.heads[b.doc], b)
      <4>1. q = [heads |-> Advance(r.heads, b), applied |-> r.applied \cup {x},
                 stopped |-> FALSE]
        BY <1>3, <1>6, <1>7, <2>3, <3>1, <3>2, StepApplies
      <4>2. b.before = r.heads[b.doc].text
        BY <2>3, <3>2
      <4> DEFINE heads2 == r.heads
      <4> HIDE DEF heads2, b
      <4>3. heads2 \in [Docs -> DocumentHead]
        BY <1>6 DEF heads2
      <4>4. /\ Advance(heads2, b)[b.doc] =
                  [text |-> Append(heads2[b.doc].text, b.id),
                   next |-> heads2[b.doc].next + 1, base |-> heads2[b.doc].base]
            /\ \A doc \in Docs \ {b.doc} : Advance(heads2, b)[doc] = heads2[doc]
        BY <3>1, <4>3, AdvanceIs
      <4>5. HeadOK(bs, Advance(heads2, b)[b.doc])
        <5>1. HeadOK(bs, heads2[b.doc])
          BY <1>8, <3>1 DEF heads2
        <5>2. bs[x].before = heads2[b.doc].text
          BY <4>2 DEF heads2, b
        <5>3. HeadOK(bs, [text |-> Append(heads2[b.doc].text, x),
                   next |-> heads2[b.doc].next + 1, base |-> heads2[b.doc].base])
          BY <1>7, <3>1, <5>1, <5>2, HeadAppend
        <5> QED BY <3>1, <4>4, <5>3
      <4>6. \A doc \in Docs : HeadOK(bs, q.heads[doc])
        BY <1>8, <4>1, <4>4, <4>5 DEF heads2
      <4> QED BY <4>1, <4>6
    <3>3. CASE ~Acceptable(r.heads[b.doc], b)
      <4>1. q = [heads |-> r.heads, applied |-> r.applied, stopped |-> TRUE]
        BY <1>3, <1>6, <1>7, <2>3, <3>3, StepStops
      <4>2. PICK i \in 1 .. Len(s) : s[i] \in 1 .. Len(bs) /\ SamePlace(bs[s[i]], bs[x])
        BY <2>3, <3>3
      <4>3. /\ i \in 1 .. Len(t) - 1 /\ t[i] = s[i] /\ t[Len(t)] = x
        BY <1>1
      <4>4. Blocked(bs, t, Len(t))
        BY <3>1, <4>2, <4>3 DEF Blocked
      <4> QED BY <1>8, <4>1, <4>4
    <3> QED BY <3>2, <3>3
  <2> QED BY <2>1, <2>2, <2>3
<1>10. \A n \in 0 .. Len(t) : \A doc \in Docs :
          HeadOK(bs, ReplayOf(bs, heads, Part(t, n)).heads[doc])
  <2> TAKE n \in 0 .. Len(t)
  <2>1. CASE n \in 0 .. Len(s)
    BY <1>2, <2>1 DEF InOrder
  <2>2. CASE n = Len(t)
    BY <1>4, <1>9, <2>2 DEF q
  <2> QED BY <1>1, <2>1, <2>2
<1>11. ASSUME NEW p \in 1 .. Len(t), StopsAt(bs, heads, t, p) PROVE Blocked(bs, t, p)
  <2>1. CASE p \in 1 .. Len(s)
    <3>1. p \in 0 .. Len(s) /\ p - 1 \in 0 .. Len(s)
      BY <1>1, <2>1
    <3>2. StopsAt(bs, heads, s, p)
      BY <1>2, <1>11, <3>1 DEF StopsAt
    <3>3. Blocked(bs, s, p)
      BY <2>1, <3>2 DEF InOrder
    <3>4. \A i \in 1 .. p - 1 : i \in 1 .. Len(s)
      BY <2>1, <1>1
    <3> QED BY <1>1, <2>1, <3>3, <3>4 DEF Blocked
  <2>2. CASE p = Len(t)
    <3>1. p - 1 = Len(s) /\ Len(s) \in 0 .. Len(s)
      BY <1>1, <2>2
    <3>2. Part(t, p - 1) = s /\ Part(t, p) = t
      BY <1>2, <1>4, <2>2, <3>1
    <3>3. ~r.stopped /\ q.stopped
      BY <1>11, <3>2 DEF StopsAt, q
    <3> QED BY <1>9, <2>2, <3>3
  <2> QED BY <1>1, <2>1, <2>2
<1> QED BY <1>10, <1>11 DEF InOrder, t

-----------------------------------------------------------------------------
(* The initial states, launches, kills and reloads.                        *)

(* A journal without frames is in order on written heads.                  *)
LEMMA InOrderEmpty ==
    ASSUME NEW bs, NEW heads, \A doc \in Docs : HeadOK(bs, heads[doc])
    PROVE  InOrder(bs, heads, <<>>)
<1>1. <<>> \in Seq(Nat) /\ Len(<<>>) = 0 /\ \A n \in 0 .. 0 : n = 0
  BY EmptySeq
<1>2. Part(<<>>, 0) = <<>>
  BY <1>1, PartIsWhole
<1>3. ReplayOf(bs, heads, <<>>).heads = heads
  BY ReplayEmpty DEF Unread
<1>4. \A p \in 1 .. 0 : FALSE
  OBVIOUS
<1> QED BY <1>1, <1>2, <1>3, <1>4 DEF InOrder

(* A queue that starts on a head that is not ahead.                        *)
LEMMA IdleQueueOK ==
    ASSUME NEW bs, NEW h, HeadOK(bs, h), NEW t, NotAhead(h, t), NEW doc, NEW done
    PROVE  IdleQueue(h) \in WindowQueue /\ QueueOK(bs, IdleQueue(h), doc, t, done)
BY DEF IdleQueue, WindowQueue, QueueOK, HeadOK, DocumentHead, NotAhead

(* No head is ahead of itself.                                             *)
LEMMA NotAheadOfItself ==
    ASSUME NEW bs, NEW h, HeadOK(bs, h) PROVE NotAhead(h, h)
BY DEF NotAhead, HeadOK, DocumentHead

(* The startup source and its replay, when the journals are left alone.    *)
LEMMA SourceStays ==
    ASSUME publication' = publication, publication # Absent => content' = content
    PROVE  Source' = Source
BY DEF Source, PublishedHeads, Baseline

(* A step that leaves the journals, the published contents and the batches *)
(* alone leaves what a startup reads from them.                            *)
LEMMA LogStays ==
    ASSUME publication' = publication, publication # Absent => content' = content,
           journal' = journal, batches' = batches
    PROVE  /\ Source' = Source /\ Frames' = Frames /\ Recovered' = Recovered
           /\ SourceReplay' = SourceReplay /\ Affected' = Affected
           /\ JournalOK => JournalOK'
<1>1. Source' = Source
  BY SourceStays
<1>2. Frames' = Frames
  BY <1>1 DEF Frames
<1>3. Recovered' = Recovered
  BY <1>1, <1>2 DEF Recovered
<1>4. SourceReplay' = SourceReplay
  BY DEF SourceReplay, Baseline
<1>5. Affected' = Affected
  BY <1>1, <1>3, CandidateIs DEF Affected
<1> QED BY <1>1, <1>2, <1>3, <1>4, <1>5 DEF JournalOK

(* Such a step also leaves what is acknowledged where it is.               *)
LEMMA AckedStays ==
    ASSUME publication' = publication, publication # Absent => content' = content,
           journal' = journal, batches' = batches, synced' = synced, acked' = acked,
           AckedOK
    PROVE  AckedOK'
<1>1. Source' = Source /\ Frames' = Frames /\ SourceReplay' = SourceReplay
  BY LogStays
<1>2. \A id : Kept(id) => Kept(id)'
  BY <1>1 DEF Kept
<1>3. \A id : Published(id) => Published(id)'
  BY DEF Published
<1>4. \A id : Hidden(id) => Hidden(id)'
  BY <1>1 DEF Hidden
<1> QED BY <1>2, <1>3, <1>4 DEF AckedOK

(* The initial states.                                                     *)
LEMMA InitKeeps == Init => IInv
<1> SUFFICES ASSUME Init PROVE IInv
  OBVIOUS
<1>1. \A F : <<>> \in Seq(F)
  BY EmptySeq
<1>2. Len(<<>>) = 0
  BY EmptySeq
<1>3. Shapes
  <2>1. /\ journal = [g \in {"source", "next"} |-> <<>>]
        /\ synced = [g \in {"source", "next"} |-> 0]
    BY DEF Init
  <2>2. journal \in [{"source", "next"} -> Seq(FramesOf(batches))]
    BY <1>1, <2>1
  <2>3. \A g \in {"source", "next"} : synced[g] = 0 /\ Len(journal[g]) = 0
    BY <1>2, <2>1
  <2>4. synced \in [{"source", "next"} -> Nat]
    BY <2>1
  <2>5. calls \in Seq(1 .. Len(batches))
    BY <1>1 DEF Init
  <2>6. \A g \in {"source", "next"} : synced[g] <= Len(journal[g])
    BY <2>3
  <2>7. /\ nextCreated = FALSE /\ temporary = Absent /\ publication = Absent
        /\ startup = "down" /\ available = FALSE /\ append = "idle" /\ phase = "idle"
        /\ accepted = {} /\ acked = {}
    BY DEF Init
  <2> QED BY <2>2, <2>4, <2>5, <2>6, <2>7 DEF Shapes
<1>4. BatchesOK
  BY <1>1, <1>2, ConstantsAssumption DEF Init, BatchesOK, Numbered
<1>5. /\ Baseline \in [Docs -> DocumentHead]
      /\ \A doc \in Docs : HeadOK(batches, Baseline[doc])
  BY BaselineOK
<1>6. HeadsOK
  <2>1. \A doc \in Docs : NotAhead(Baseline[doc], Baseline[doc])
    BY <1>5, NotAheadOfItself
  <2> QED BY <1>5, <2>1 DEF Init, HeadsOK
<1>7. QueuesOK
  <2>1. queue = [doc \in Docs |-> IdleQueue(Baseline[doc])] /\ targets = Baseline
    BY DEF Init
  <2>2. \A doc \in Docs : /\ IdleQueue(Baseline[doc]) \in WindowQueue
                          /\ QueueOK(batches, IdleQueue(Baseline[doc]), doc,
                                     Baseline[doc], accepted)
    BY <1>5, IdleQueueOK, NotAheadOfItself
  <2> QED BY <2>1, <2>2 DEF QueuesOK
<1>8. CallsOK
  BY <1>2 DEF Init, CallsOK
<1>9. ContentsOK
  BY DEF Init, ContentsOK
<1>14. CallsOnce
  BY <1>2, ElementsEmpty DEF Init, CallsOnce, Once
<1>10. PublicationOK /\ PhaseOK
  BY DEF Init, PublicationOK, PhaseOK
<1>11. Source = [generation |-> "source", heads |-> Baseline]
  BY SourceIs DEF Init
<1>12. JournalOK
  <2>1. Frames = <<>> /\ Source.heads = Baseline
    BY <1>11 DEF Frames, Init
  <2> QED BY <1>5, <2>1, InOrderEmpty DEF JournalOK
<1>13. SessionOK /\ AckedOK
  BY DEF Init, SessionOK, AckedOK
<1> QED BY <1>3, <1>4, <1>6, <1>7, <1>8, <1>9, <1>10, <1>12, <1>13, <1>14
        DEF IInv

(* A runtime that starts on written heads.                                 *)
LEMMA StartsWith ==
    ASSUME NEW resolution, NEW heads \in [Docs -> DocumentHead],
           \A doc \in Docs : HeadOK(batches, heads[doc]),
           StartWith(resolution, heads), batches' = batches
    PROVE  HeadsOK' /\ QueuesOK'
<1>1. /\ profile' = heads /\ targets' = heads /\ accepted' = {}
      /\ queue' = [doc \in Docs |-> IdleQueue(heads[doc])]
  BY DEF StartWith
<1>2. \A doc \in Docs : NotAhead(heads[doc], heads[doc])
  BY NotAheadOfItself
<1>3. HeadsOK'
  BY <1>1, <1>2 DEF HeadsOK
<1>4. \A doc \in Docs : /\ IdleQueue(heads[doc]) \in WindowQueue
                        /\ QueueOK(batches, IdleQueue(heads[doc]), doc, heads[doc], {})
  BY <1>2, IdleQueueOK
<1>5. queue' \in [Docs -> WindowQueue]
  BY <1>1, <1>4
<1>6. \A doc \in Docs : queue'[doc] = IdleQueue(heads[doc])
  BY <1>1
<1>7. \A doc \in Docs : QueueOK(batches', queue'[doc], doc, targets'[doc], accepted')
  BY <1>1, <1>4, <1>6
<1> QED BY <1>3, <1>5, <1>7 DEF QueuesOK

(* A clean startup has an empty journal.                                   *)
LEMMA CleanIsEmpty ==
    ASSUME Shapes, BatchesOK, ContentsOK, PublicationOK, Resolution = "clean"
    PROVE  ~PublicationInvalid /\ Recovered = Unread(Source.heads)
<1>1. ~PublicationInvalid /\ Recovered.applied = {} /\ ~Recovered.stopped
  <2>1. ~PublicationInvalid /\ ~(Candidate.applied # {}) /\ ~Candidate.stopped
    BY DEF Resolution
  <2> QED BY <2>1, CandidateIs
<1>2. Outcome(batches, Source.heads, Frames, Recovered)
  BY RecoveredOutcome
<1>3. Elements(Frames) = {}
  BY <1>1, <1>2 DEF Outcome
<1>4. Frames = <<>>
  <2>1. Frames \in Seq(FramesOf(batches))
    BY SourceOK
  <2>2. Len(Frames) \in Nat
    BY <2>1, LenProperties
  <2>3. Len(Frames) = 0
    <3>1. ASSUME Len(Frames) # 0 PROVE FALSE
      <4>1. 1 \in 1 .. Len(Frames)
        BY <2>2, <3>1
      <4> QED BY <1>3, <4>1 DEF Elements
    <3> QED BY <3>1
  <2> QED BY <2>1, <2>3, EmptySeq
<1> QED BY <1>1, <1>4, ReplayEmpty DEF Recovered

(* A launch: the runtime starts on the heads of the startup source.        *)
LEMMA StartKeeps ==
    ASSUME IInv, Start PROVE IInv'
<1>1. /\ Shapes /\ BatchesOK /\ ContentsOK /\ PublicationOK /\ PhaseOK /\ CallsOK
      /\ JournalOK /\ AckedOK
  BY DEF IInv
<1> DEFINE heads == IF PublicationInvalid THEN Baseline ELSE Source.heads
<1>2. /\ startup = "down" /\ StartWith(Resolution, heads)
      /\ available' \in BOOLEAN /\ (available' => publication = Absent)
      /\ publication # Absent =>
             content' = content /\ nextCreated' = nextCreated /\ temporary' = temporary
      /\ publication = Absent =>
             /\ content' = [doc \in Docs |-> Absent]
             /\ nextCreated' = FALSE /\ temporary' = Absent
      /\ journal' = journal /\ synced' = synced /\ publication' = publication
      /\ calls' = calls /\ append' = append /\ phase' = phase
      /\ batches' = batches /\ acked' = acked
  BY DEF Start, journalVars
<1>3. heads \in [Docs -> DocumentHead] /\ \A doc \in Docs : HeadOK(batches, heads[doc])
  BY <1>1, SourceOK, BaselineOK
<1>4. startup' = Resolution /\ targets' = heads /\ accepted' = {}
  BY <1>2 DEF StartWith
<1>5. calls = <<>> /\ append = "idle" /\ phase = "idle"
  BY <1>1, <1>2 DEF CallsOK, PhaseOK
<1>6. /\ Source' = Source /\ Recovered' = Recovered /\ JournalOK'
  BY <1>1, <1>2, LogStays
<1> HIDE DEF heads
<1>7. Resolution \in {"clean", "pending", "read-only"}
  BY DEF Resolution
<1>8. Shapes'
  BY <1>1, <1>2, <1>4, <1>7 DEF Shapes
<1>9. BatchesOK'
  BY <1>1, <1>2 DEF BatchesOK
<1>10. HeadsOK' /\ QueuesOK'
  BY <1>2, <1>3, StartsWith
<1>11. CallsOK'
  BY <1>2, <1>5, EmptySeq DEF CallsOK
<1>12. ContentsOK'
  BY <1>1, <1>2 DEF ContentsOK
<1>13. PublicationOK'
  BY <1>1, <1>2 DEF PublicationOK
<1>14. PhaseOK'
  BY <1>2, <1>5 DEF PhaseOK
<1>15. SessionOK'
  <2>1. CASE Resolution = "clean"
    <3>1. ~PublicationInvalid /\ Recovered = Unread(Source.heads)
      BY <1>1, <2>1, CleanIsEmpty
    <3>2. heads = Source.heads
      BY <3>1 DEF heads
    <3>3. \A doc \in Docs : Recovered'.heads[doc] = targets'[doc]
      BY <1>4, <1>6, <3>1, <3>2 DEF Unread
    <3> QED BY <3>3 DEF SessionOK, OneAhead
  <2>2. CASE Resolution # "clean"
    BY <1>4, <2>2 DEF SessionOK
  <2> QED BY <2>1, <2>2
<1>16. AckedOK'
  BY <1>1, <1>2, AckedStays
<1>17. CallsOnce'
  BY <1>2, <1>5, EmptySeq, ElementsEmpty DEF CallsOnce, Once
<1> QED BY <1>6, <1>8, <1>9, <1>10, <1>11, <1>12, <1>13, <1>14, <1>15, <1>16, <1>17
        DEF IInv

(* A kill loses frames that were not synced, and nothing before them.      *)
LEMMA CrashKeeps ==
    ASSUME IInv, Crash PROVE IInv'
<1>1. /\ Shapes /\ BatchesOK /\ ContentsOK /\ PublicationOK /\ HeadsOK /\ QueuesOK
      /\ JournalOK /\ AckedOK /\ Numbered(batches)
  BY DEF IInv, BatchesOK
<1> DEFINE g == Source.generation
           kept == synced[g]
           whole(n) == Part(Frames, n)
<1>2. /\ startup' = "down" /\ available' = FALSE /\ calls' = <<>> /\ append' = "idle"
      /\ phase' = "idle"
      /\ content' = content /\ nextCreated' = nextCreated /\ temporary' = temporary
      /\ publication' = publication /\ profile' = profile /\ targets' = targets
      /\ accepted' = accepted /\ queue' = queue /\ batches' = batches /\ acked' = acked
      /\ synced' = [h \in {"source", "next"} |-> Len(journal'[h])]
  BY DEF Crash, fileVars, windowVars
<1>3. PICK n \in kept .. Len(Frames) :
          \/ journal' = [journal EXCEPT ![g] = whole(n)]
          \/ journal' = [journal EXCEPT ![g] = Append(whole(n), Torn)]
  BY DEF Crash, Frames, Part
<1>4. /\ g \in {"source", "next"} /\ Frames \in Seq(FramesOf(batches)) /\ Frames = journal[g]
      /\ Source.heads \in [Docs -> DocumentHead]
  BY <1>1, SourceOK DEF Frames
<1>5. /\ kept \in 0 .. Len(Frames) /\ n \in 0 .. Len(Frames) /\ kept \in 0 .. n
  BY <1>1, <1>4, LenProperties DEF Shapes
<1>6. /\ whole(n) \in Seq(FramesOf(batches)) /\ Len(whole(n)) = n
      /\ Part(whole(n), kept) = whole(kept)
      /\ InOrder(batches, Source.heads, whole(n))
      /\ Torn \in FramesOf(batches)
  <2>1. InOrder(batches, Source.heads, Frames)
    BY <1>1 DEF JournalOK
  <2>2. /\ whole(n) \in Seq(FramesOf(batches)) /\ Len(whole(n)) = n
        /\ Part(whole(n), kept) = whole(kept)
    BY <1>4, <1>5, PartIs
  <2>3. InOrder(batches, Source.heads, whole(n))
    BY <1>4, <1>5, <2>1, InOrderPart
  <2> QED BY <2>2, <2>3 DEF FramesOf
<1>7. PICK left \in Seq(FramesOf(batches)) :
          /\ journal' = [journal EXCEPT ![g] = left]
          /\ InOrder(batches, Source.heads, left)
          /\ Elements(whole(kept)) \subseteq Elements(left)
  <2>1. Elements(whole(kept)) \subseteq Elements(whole(n))
    BY <1>5, <1>6, PartIs
  <2> DEFINE w == whole(n)
             damaged == Append(w, Torn)
  <2>2. w \in Seq(FramesOf(batches)) /\ InOrder(batches, Source.heads, w)
    BY <1>6
  <2> HIDE DEF w
  <2>3. /\ damaged \in Seq(FramesOf(batches))
        /\ Elements(w) \subseteq Elements(damaged)
    BY <1>6, <2>2, AppendProperties, ElementsAppend
  <2>4. InOrder(batches, Source.heads, damaged)
    BY <1>1, <1>4, <1>6, <2>2, InOrderAppend
  <2> QED BY <1>3, <2>1, <2>2, <2>3, <2>4 DEF w
<1> HIDE DEF whole
<1>8. Source' = Source /\ Frames' = left
  <2>1. Source' = Source
    BY <1>2, SourceStays
  <2>2. journal'[g] = left
    BY <1>1, <1>4, <1>7 DEF Shapes
  <2> QED BY <2>1, <2>2 DEF Frames
<1>9. /\ journal' \in [{"source", "next"} -> Seq(FramesOf(batches))]
      /\ \A h \in {"source", "next"} : h # g => journal'[h] = journal[h]
  BY <1>1, <1>4, <1>7 DEF Shapes
<1>10. /\ synced' \in [{"source", "next"} -> Nat]
       /\ \A h \in {"source", "next"} : synced'[h] = Len(journal'[h])
  BY <1>2, <1>9, LenProperties
<1>11. Shapes'
  <2>1. calls' \in Seq(1 .. Len(batches'))
    BY <1>2, EmptySeq
  <2>2. \A h \in {"source", "next"} : synced'[h] <= Len(journal'[h])
    BY <1>10
  <2> QED BY <1>1, <1>2, <1>9, <1>10, <2>1, <2>2 DEF Shapes
<1>12. BatchesOK' /\ HeadsOK' /\ QueuesOK' /\ ContentsOK'
  BY <1>1, <1>2 DEF BatchesOK, HeadsOK, QueuesOK, ContentsOK
<1>13. CallsOK' /\ PhaseOK' /\ SessionOK'
  BY <1>2, EmptySeq DEF CallsOK, PhaseOK, SessionOK
<1>17. CallsOnce'
  BY <1>2, EmptySeq, ElementsEmpty DEF CallsOnce, Once
<1>14. PublicationOK'
  <2>1. publication = Absent => g = "source"
    BY SourceIs
  <2> QED BY <1>1, <1>2, <1>9, <2>1 DEF PublicationOK
<1>15. JournalOK'
  BY <1>2, <1>7, <1>8 DEF JournalOK
<1>16. AckedOK'
  <2>1. ASSUME NEW id \in acked PROVE Kept(id)' \/ Published(id)' \/ Hidden(id)'
    <3>1. CASE Kept(id)
      <4>1. id \in Elements(left)
        BY <1>7, <3>1 DEF Kept, whole
      <4>2. synced'[g] = Len(left)
        BY <1>4, <1>8, <1>10 DEF Frames
      <4>3. Part(left, Len(left)) = left
        BY PartIsWhole
      <4> QED BY <1>8, <4>1, <4>2, <4>3 DEF Kept
    <3>2. CASE Published(id)
      BY <1>2, <3>2 DEF Published
    <3>3. CASE Hidden(id)
      <4>1. publication # Absent /\ g = "next"
        BY <3>3, SourceIs DEF Hidden
      <4>2. journal'["source"] = journal["source"]
        BY <1>9, <4>1
      <4>3. SourceReplay' = SourceReplay
        BY <1>2, <4>2 DEF SourceReplay, Baseline
      <4> QED BY <1>2, <3>3, <4>2, <4>3 DEF Hidden
    <3> QED BY <1>1, <3>1, <3>2, <3>3 DEF AckedOK
  <2> QED BY <1>2, <2>1 DEF AckedOK
<1> QED BY <1>11, <1>12, <1>13, <1>14, <1>15, <1>16, <1>17 DEF IInv

(* The window starts again on the profile of the startup, which is not     *)
(* ahead of what the runtime confirmed since.                              *)
LEMMA ReloadKeeps ==
    ASSUME IInv, Reload PROVE IInv'
<1>1. /\ Shapes /\ BatchesOK /\ ContentsOK /\ PublicationOK /\ HeadsOK /\ PhaseOK
      /\ CallsOK /\ JournalOK /\ SessionOK /\ AckedOK /\ CallsOnce
  BY DEF IInv
<1>2. /\ queue' = [doc \in Docs |-> IdleQueue(profile[doc])]
      /\ journal' = journal /\ synced' = synced /\ content' = content
      /\ nextCreated' = nextCreated /\ temporary' = temporary /\ publication' = publication
      /\ startup' = startup /\ available' = available /\ profile' = profile
      /\ targets' = targets /\ accepted' = accepted /\ calls' = calls /\ append' = append
      /\ phase' = phase /\ batches' = batches /\ acked' = acked
  BY DEF Reload, journalVars, fileVars, startupVars, saveVars
<1>3. /\ Source' = Source /\ Frames' = Frames /\ Recovered' = Recovered
      /\ Affected' = Affected /\ JournalOK'
  BY <1>1, <1>2, LogStays
<1>4. QueuesOK'
  <2>1. \A doc \in Docs : /\ IdleQueue(profile[doc]) \in WindowQueue
                          /\ QueueOK(batches, IdleQueue(profile[doc]), doc, targets[doc],
                                     accepted)
    BY <1>1, IdleQueueOK DEF HeadsOK
  <2>2. \A doc \in Docs : queue'[doc] = IdleQueue(profile[doc])
    BY <1>2
  <2> QED BY <1>2, <2>1, <2>2 DEF QueuesOK
<1>5. Shapes' /\ BatchesOK' /\ HeadsOK' /\ ContentsOK' /\ PublicationOK'
  BY <1>1, <1>2 DEF Shapes, BatchesOK, HeadsOK, ContentsOK, PublicationOK
<1>6. PhaseOK' /\ SessionOK'
  BY <1>1, <1>2, <1>3 DEF PhaseOK, SessionOK
<1>7. CallsOK'
  BY <1>1, <1>2, <1>3 DEF CallsOK, First
<1>8. AckedOK'
  BY <1>1, <1>2, AckedStays
<1>9. CallsOnce'
  <2>1. \A doc \in Docs : queue'[doc].failed = FALSE
    BY <1>2 DEF IdleQueue
  <2> QED BY <1>1, <1>2, <2>1 DEF CallsOnce, Once
<1> QED BY <1>3, <1>4, <1>5, <1>6, <1>7, <1>8, <1>9 DEF IInv

-----------------------------------------------------------------------------
(* The window sends, and sends again.                                      *)

(* A call is chained behind the others.                                    *)
LEMMA CallAdded ==
    ASSUME CallsOK, calls \in Seq(1 .. Len(batches)),
           NEW id, calls' = Append(calls, id), id \in 1 .. Len(batches'),
           1 .. Len(batches) \subseteq 1 .. Len(batches'),
           \A i \in 1 .. Len(batches) : batches'[i] = batches[i],
           startup = "clean", startup' = startup, append' = append, targets' = targets,
           accepted' = accepted, Frames' = Frames,
           Fits(batches'[id], targets[batches'[id].doc])
    PROVE  CallsOK' /\ calls' \in Seq(1 .. Len(batches'))
<1>1. calls \in Seq(1 .. Len(batches'))
  BY SeqMonotonic
<1>2. /\ calls' \in Seq(1 .. Len(batches')) /\ Len(calls) \in Nat
      /\ Len(calls') = Len(calls) + 1
      /\ calls'[Len(calls) + 1] = id /\ \A k \in 1 .. Len(calls) : calls'[k] = calls[k]
  BY <1>1, AppendProperties, LenProperties
<1>3. \A k \in 1 .. Len(calls) : calls[k] \in 1 .. Len(batches)
  BY ElementOfSeq
<1>4. \A k \in 1 .. Len(calls') :
          Fits(batches'[calls'[k]], targets'[batches'[calls'[k]].doc])
  <2> TAKE k \in 1 .. Len(calls')
  <2>1. CASE k \in 1 .. Len(calls)
    <3>1. batches'[calls'[k]] = batches[calls[k]]
      BY <1>2, <1>3, <2>1
    <3>2. Fits(batches[calls[k]], targets[batches[calls[k]].doc])
      BY <2>1 DEF CallsOK
    <3> QED BY <3>1, <3>2
  <2>2. CASE k = Len(calls) + 1
    BY <1>2, <2>2
  <2> QED BY <1>2, <2>1, <2>2
<1>5. ASSUME append # "idle"
      PROVE  /\ calls' # <<>> /\ Head(calls') = Head(calls)
             /\ batches'[Head(calls')] = First
  <2>1. calls # <<>>
    BY <1>5 DEF CallsOK
  <2>2. Head(calls') = Head(calls)
    BY <2>1, HeadTailAppend
  <2>3. Head(calls) \in 1 .. Len(batches)
    BY <2>1, HeadTailProperties
  <2>4. calls' # <<>>
    BY <1>2, EmptySeq
  <2> QED BY <2>2, <2>3, <2>4 DEF First
<1>6. append # "idle" =>
          /\ calls' # <<>>
          /\ Acceptable(targets[First.doc], First)' /\ Head(calls') \notin accepted'
  BY <1>5 DEF CallsOK, First
<1>7. append = "syncing" => Head(calls') \in Elements(Frames')
  BY <1>5 DEF CallsOK
<1> QED BY <1>2, <1>4, <1>6, <1>7 DEF CallsOK

(* A batch that was not among the calls is called once.                    *)
LEMMA OnceAdded ==
    ASSUME NEW cs \in Seq(Nat), NEW id \in Nat, id \notin Elements(cs), NEW qs, NEW ps,
           Once(cs, qs),
           \A doc \in Docs : ps[doc].failed =>
               qs[doc].failed /\ ps[doc].attempt = qs[doc].attempt /\ ps[doc].attempt # id
    PROVE  Once(Append(cs, id), ps)
<1> DEFINE ds == Append(cs, id)
<1>1. /\ Len(ds) = Len(cs) + 1 /\ Len(cs) \in Nat
      /\ ds[Len(cs) + 1] = id /\ \A k \in 1 .. Len(cs) : ds[k] = cs[k]
  BY AppendProperties, LenProperties
<1>2. Elements(ds) = Elements(cs) \cup {id}
  BY ElementsAppend
<1> HIDE DEF ds
<1>3. \A k \in 1 .. Len(ds) : k = Len(cs) + 1 \/ (k \in 1 .. Len(cs) /\ ds[k] # id)
  BY <1>1 DEF Elements
<1>4. \A i, j \in 1 .. Len(ds) : ds[i] = ds[j] => i = j
  BY <1>1, <1>3 DEF Once
<1>5. \A doc \in Docs : ps[doc].failed => ps[doc].attempt \notin Elements(ds)
  BY <1>2 DEF Once
<1> QED BY <1>4, <1>5 DEF Once, ds

(* A new batch is made on the text of its queue.                           *)
LEMMA SendKeeps ==
    ASSUME IInv, NEW doc \in Docs, Send(doc) PROVE IInv'
<1>1. /\ Shapes /\ BatchesOK /\ ContentsOK /\ PublicationOK /\ HeadsOK /\ PhaseOK
      /\ CallsOK /\ CallsOnce /\ JournalOK /\ SessionOK /\ AckedOK /\ QueuesOK /\ Numbered(batches)
  BY DEF IInv, BatchesOK
<1> DEFINE q == queue[doc]
           b == [id |-> Len(batches) + 1, doc |-> doc, base |-> q.base,
                 sequence |-> q.next, before |-> q.text]
<1>2. /\ startup = "clean" /\ q.attempt = NoBatch /\ Len(batches) < MaxBatches
      /\ batches' = Append(batches, b)
      /\ queue' = [queue EXCEPT ![doc].attempt = b.id]
      /\ calls' = Append(calls, b.id)
      /\ journal' = journal /\ synced' = synced /\ content' = content
      /\ nextCreated' = nextCreated /\ temporary' = temporary /\ publication' = publication
      /\ startup' = startup /\ available' = available /\ profile' = profile
      /\ targets' = targets /\ accepted' = accepted /\ append' = append
      /\ phase' = phase /\ acked' = acked
  BY DEF Send, journalVars, fileVars, startupVars
<1>3. /\ q \in WindowQueue /\ QueueOK(batches, q, doc, targets[doc], accepted)
  BY <1>1 DEF QueuesOK
<1>4. b \in Batch /\ b.id = Len(batches) + 1 /\ b.doc = doc /\ Len(batches) \in Nat
  <2>1. Len(batches) \in Nat
    BY <1>1, LenProperties DEF Numbered
  <2> HIDE DEF q
  <2> QED BY <1>3, <2>1 DEF WindowQueue, Batch
<1>5. b.base = q.base /\ b.sequence = q.next /\ b.before = q.text
  OBVIOUS
<1> HIDE DEF b, q
<1>6. Grown(batches, batches')
  BY <1>1, <1>2, <1>4 DEF Grown, Numbered
<1>7. /\ batches' \in Seq(Batch) /\ Len(batches') = Len(batches) + 1
      /\ \A i \in 1 .. Len(batches) : batches'[i] = batches[i]
      /\ batches'[Len(batches) + 1] = b
      /\ 1 .. Len(batches) \subseteq 1 .. Len(batches')
      /\ FramesOf(batches) \subseteq FramesOf(batches')
  BY <1>1, <1>2, <1>4, <1>6, GrownIs, AppendProperties DEF Numbered
<1>8. \A i \in 1 .. Len(batches') : i \in 1 .. Len(batches) \/ i = Len(batches) + 1
  BY <1>4, <1>7
<1>9. BatchesOK'
  <2>1. Numbered(batches')
    BY <1>1, <1>4, <1>7, <1>8 DEF Numbered
  <2>2. WrittenText(batches, q.text)
    BY <1>3 DEF QueueOK
  <2>3. q.text \in Seq(Nat) /\ Len(q.text) <= Len(batches) /\ Len(q.text) \in Nat
    BY <1>1, <2>2, WrittenIsText, LenProperties DEF WrittenText
  <2>4. Len(b.before) < Len(batches) + 1
    BY <1>4, <1>5, <2>3
  <2>5. \A i \in 1 .. Len(batches') : Len(batches'[i].before) < i
    BY <1>1, <1>7, <1>8, <2>4 DEF BatchesOK
  <2>6. Len(batches') <= MaxBatches
    BY <1>2, <1>4, <1>7, ConstantsAssumption
  <2> QED BY <2>1, <2>5, <2>6 DEF BatchesOK
<1>10. HeadsOK'
  BY <1>1, <1>2, <1>6, HeadGrows DEF HeadsOK
<1>11. b.id \in 1 .. Len(batches') /\ b.id \notin 1 .. Len(batches) /\ b.id \in Nat
       /\ b.id # NoBatch
  BY <1>4, <1>7, ConstantsAssumption
<1>12. QueuesOK'
  <2>1. queue' \in [Docs -> WindowQueue]
    BY <1>1, <1>2, <1>11 DEF QueuesOK, WindowQueue
  <2>2. ASSUME NEW other \in Docs
        PROVE  QueueOK(batches', queue'[other], other, targets'[other], accepted')
    <3>1. QueueOK(batches, queue[other], other, targets[other], accepted)
      BY <1>1 DEF QueuesOK
    <3>2. WrittenText(batches', queue[other].text)
      BY <1>6, <3>1, WrittenGrows DEF QueueOK
    <3>3. CASE other # doc
      <4>1. queue'[other] = queue[other]
        BY <1>1, <1>2, <3>3 DEF QueuesOK
      <4> DEFINE p == queue[other]
      <4>2. p.attempt # NoBatch =>
                /\ p.attempt \in 1 .. Len(batches')
                /\ batches'[p.attempt] = batches[p.attempt]
        BY <1>7, <3>1 DEF QueueOK
      <4> HIDE DEF p
      <4>3. QueueOK(batches, p, other, targets[other], accepted)
        BY <3>1 DEF p
      <4>4. QueueOK(batches', p, other, targets[other], accepted)
        BY <3>2, <4>2, <4>3 DEF QueueOK, p
      <4> QED BY <1>2, <4>1, <4>4 DEF p
    <3>4. CASE other = doc
      <4>1. /\ queue'[doc].text = q.text /\ queue'[doc].next = q.next
            /\ queue'[doc].base = q.base /\ queue'[doc].attempt = b.id
            /\ queue'[doc].failed = q.failed
        BY <1>1, <1>2 DEF QueuesOK, WindowQueue, q
      <4>2. b.id \notin accepted
        BY <1>1, <1>11 DEF Shapes
      <4>3. batches'[b.id] = b
        BY <1>4, <1>7
      <4>4. /\ q.next = Len(q.text) /\ NotAhead(q, targets[doc])
        BY <1>3 DEF QueueOK
      <4>5. NotAhead(queue'[doc], targets[doc])
        BY <4>1, <4>4 DEF NotAhead
      <4> QED BY <1>2, <1>4, <1>5, <1>11, <3>2, <3>4, <4>1, <4>2, <4>3, <4>4, <4>5
              DEF QueueOK, q
    <3> QED BY <3>3, <3>4
  <2> QED BY <2>1, <2>2 DEF QueuesOK
<1>13. Source' = Source /\ Frames' = Frames
  <2>1. Source' = Source
    BY <1>2, SourceStays
  <2> QED BY <1>2, <2>1 DEF Frames
<1>14. CallsOK' /\ calls' \in Seq(1 .. Len(batches'))
  <2>1. batches'[b.id] = b
    BY <1>4, <1>7
  <2>2. Fits(b, targets[doc])
    <3>1. NotAhead(q, targets[doc])
      BY <1>3 DEF QueueOK
    <3> QED BY <1>5, <3>1 DEF Fits, NotAhead
  <2>3. calls \in Seq(1 .. Len(batches))
    BY <1>1 DEF Shapes
  <2> QED BY <1>1, <1>2, <1>4, <1>7, <1>11, <1>13, <2>1, <2>2, <2>3, CallAdded
<1>15. Shapes'
  <2>1. \A g \in {"source", "next"} : journal[g] \in Seq(FramesOf(batches'))
    BY <1>1, <1>7, SeqMonotonic DEF Shapes
  <2>2. journal' \in [{"source", "next"} -> Seq(FramesOf(batches'))]
    BY <1>1, <1>2, <2>1 DEF Shapes
  <2>3. accepted' \subseteq 1 .. Len(batches') /\ acked' \subseteq 1 .. Len(batches')
    BY <1>1, <1>2, <1>7 DEF Shapes
  <2> QED BY <1>1, <1>2, <1>14, <2>2, <2>3 DEF Shapes
<1>16. ContentsOK'
  BY <1>1, <1>2, <1>6, WrittenGrows DEF ContentsOK
<1>17. PublicationOK'
  BY <1>1, <1>2 DEF PublicationOK
<1>18. PhaseOK'
  BY <1>1, <1>2 DEF PhaseOK
<1>19. /\ Frames \in Seq(FramesOf(batches)) /\ journal["source"] \in Seq(FramesOf(batches))
  BY <1>1, SourceOK DEF Shapes
<1>20. JournalOK'
  BY <1>1, <1>6, <1>13, <1>19, InOrderGrows DEF JournalOK
<1>21. Recovered' = Recovered /\ SourceReplay' = SourceReplay
  <2>1. Recovered' = Recovered
    BY <1>6, <1>13, <1>19, ReplayGrows DEF Recovered
  <2>2. SourceReplay' = SourceReplay
    BY <1>2, <1>6, <1>19, ReplayGrows DEF SourceReplay, Baseline
  <2> QED BY <2>1, <2>2
<1>22. SessionOK'
  <2>1. Recovered.applied \subseteq 1 .. Len(batches)
    BY <1>1, RecoveredOutcome DEF Outcome, Replayed
  <2>2. \A a \in Recovered.applied : batches'[a] = batches[a]
    BY <1>7, <2>1
  <2>3. ASSUME NEW d \in Docs, NEW t, NEW h,
               OneAhead(batches, d, t, h, Recovered.applied)
        PROVE  OneAhead(batches', d, t, h, Recovered.applied)
    BY <2>2, <2>3 DEF OneAhead
  <2> QED BY <1>1, <1>2, <1>21, <2>3 DEF SessionOK
<1>23. AckedOK'
  <2>1. ASSUME NEW id \in acked PROVE Kept(id)' \/ Published(id)' \/ Hidden(id)'
    <3>1. batches'[id] = batches[id]
      BY <1>1, <1>7 DEF Shapes
    <3>2. Kept(id) => Kept(id)'
      BY <1>2, <1>13 DEF Kept
    <3>3. Published(id) => Published(id)'
      BY <1>2, <3>1 DEF Published
    <3>4. Hidden(id) => Hidden(id)'
      BY <1>2, <1>6, <1>21, HiddenGrows DEF Hidden
    <3> QED BY <1>1, <3>2, <3>3, <3>4 DEF AckedOK
  <2> QED BY <1>2, <2>1 DEF AckedOK
<1>24. CallsOnce'
  <2>1. calls \in Seq(1 .. Len(batches)) /\ 1 .. Len(batches) \subseteq Nat
    BY <1>1, <1>4 DEF Shapes
  <2>2. b.id \notin Elements(calls) /\ calls \in Seq(Nat)
    BY <1>11, <2>1, ElementsOf, SeqMonotonic
  <2>3. ASSUME NEW d \in Docs, queue'[d].failed
        PROVE  queue[d].failed /\ queue'[d].attempt = queue[d].attempt
               /\ queue'[d].attempt # b.id
    <3>1. QueueOK(batches, queue[d], d, targets[d], accepted)
      BY <1>1 DEF QueuesOK
    <3>2. queue'[d].failed = queue[d].failed
      BY <1>1, <1>2 DEF QueuesOK, WindowQueue
    <3>3. d # doc
      BY <1>2, <2>3, <3>1, <3>2 DEF QueueOK, q
    <3>4. queue'[d] = queue[d]
      BY <1>1, <1>2, <3>3 DEF QueuesOK
    <3> QED BY <1>11, <2>3, <3>1, <3>4 DEF QueueOK
  <2>4. \A d \in Docs : queue'[d].failed =>
               queue[d].failed /\ queue'[d].attempt = queue[d].attempt
               /\ queue'[d].attempt # b.id
    BY <2>3
  <2>5. Once(calls, queue)
    BY <1>1 DEF CallsOnce
  <2>6. Once(Append(calls, b.id), queue')
    <3> DEFINE new == b.id
    <3>1. new \in Nat /\ new \notin Elements(calls)
      BY <1>11, <2>2
    <3>2. \A d \in Docs : queue'[d].failed =>
               queue[d].failed /\ queue'[d].attempt = queue[d].attempt
               /\ queue'[d].attempt # new
      BY <2>4
    <3> HIDE DEF new
    <3>3. Once(Append(calls, new), queue')
      <4>1. calls \in Seq(Nat)
        BY <2>2
      <4> QED BY <4>1, <2>5, <3>1, <3>2, OnceAdded
    <3> QED BY <3>3 DEF new
  <2> QED BY <1>2, <2>6 DEF CallsOnce
<1> QED BY <1>9, <1>10, <1>12, <1>14, <1>15, <1>16, <1>17, <1>18, <1>20, <1>22, <1>23,
           <1>24 DEF IInv

(* A failed attempt is called again; it was not among the calls.           *)
LEMMA RetryKeeps ==
    ASSUME IInv, NEW doc \in Docs, Retry(doc) PROVE IInv'
<1>1. /\ Shapes /\ BatchesOK /\ ContentsOK /\ PublicationOK /\ HeadsOK /\ PhaseOK
      /\ CallsOK /\ CallsOnce /\ JournalOK /\ SessionOK /\ AckedOK /\ QueuesOK
  BY DEF IInv
<1> DEFINE q == queue[doc]
           id == q.attempt
<1>2. /\ startup = "clean" /\ q.failed
      /\ queue' = [queue EXCEPT ![doc].failed = FALSE]
      /\ calls' = Append(calls, id)
      /\ journal' = journal /\ synced' = synced /\ content' = content
      /\ nextCreated' = nextCreated /\ temporary' = temporary /\ publication' = publication
      /\ startup' = startup /\ available' = available /\ profile' = profile
      /\ targets' = targets /\ accepted' = accepted /\ append' = append
      /\ phase' = phase /\ batches' = batches /\ acked' = acked
  BY DEF Retry, journalVars, fileVars, startupVars
<1>3. q \in WindowQueue /\ QueueOK(batches, q, doc, targets[doc], accepted)
  BY <1>1 DEF QueuesOK
<1>4. /\ id \in 1 .. Len(batches) /\ batches[id].doc = doc
      /\ Fits(batches[id], targets[doc])
  BY <1>2, <1>3 DEF QueueOK, Fits, NotAhead
<1>5. /\ Source' = Source /\ Frames' = Frames /\ Recovered' = Recovered
      /\ Affected' = Affected /\ JournalOK'
  BY <1>1, <1>2, LogStays
<1> HIDE DEF id
<1>6. CallsOK' /\ calls' \in Seq(1 .. Len(batches'))
  <2>1. calls \in Seq(1 .. Len(batches))
    BY <1>1 DEF Shapes
  <2> QED BY <1>1, <1>2, <1>4, <1>5, <2>1, CallAdded
<1>7. QueuesOK'
  <2>1. queue' \in [Docs -> WindowQueue]
    BY <1>1, <1>2 DEF QueuesOK, WindowQueue
  <2>2. ASSUME NEW other \in Docs
        PROVE  QueueOK(batches', queue'[other], other, targets'[other], accepted')
    <3>1. QueueOK(batches, queue[other], other, targets[other], accepted)
      BY <1>1 DEF QueuesOK
    <3>2. /\ queue'[other].text = queue[other].text /\ queue'[other].next = queue[other].next
          /\ queue'[other].base = queue[other].base
          /\ queue'[other].attempt = queue[other].attempt
          /\ queue'[other].failed => queue[other].failed
      BY <1>1, <1>2 DEF QueuesOK, WindowQueue
    <3> QED BY <1>2, <3>1, <3>2 DEF QueueOK, NotAhead
  <2> QED BY <2>1, <2>2 DEF QueuesOK
<1>8. Shapes' /\ BatchesOK' /\ HeadsOK' /\ ContentsOK' /\ PublicationOK'
  BY <1>1, <1>2, <1>6 DEF Shapes, BatchesOK, HeadsOK, ContentsOK, PublicationOK
<1>9. PhaseOK' /\ SessionOK'
  BY <1>1, <1>2, <1>5 DEF PhaseOK, SessionOK
<1>10. AckedOK'
  BY <1>1, <1>2, AckedStays
<1>11. CallsOnce'
  <2>1. calls \in Seq(Nat) /\ id \in Nat
    BY <1>1, <1>4, SeqMonotonic DEF Shapes
  <2>2. id \notin Elements(calls)
    BY <1>1, <1>2 DEF CallsOnce, Once, id
  <2>3. ASSUME NEW d \in Docs, queue'[d].failed
        PROVE  queue[d].failed /\ queue'[d].attempt = queue[d].attempt
               /\ queue'[d].attempt # id
    <3>1. d # doc
      BY <1>1, <1>2, <2>3 DEF QueuesOK, WindowQueue
    <3>2. queue'[d] = queue[d]
      BY <1>1, <1>2, <3>1 DEF QueuesOK
    <3>3. QueueOK(batches, queue[d], d, targets[d], accepted)
      BY <1>1 DEF QueuesOK
    <3>4. queue[d].attempt # id
      BY <1>4, <2>3, <3>1, <3>2, <3>3 DEF QueueOK
    <3> QED BY <2>3, <3>2, <3>4
  <2>4. \A d \in Docs : queue'[d].failed =>
               queue[d].failed /\ queue'[d].attempt = queue[d].attempt
               /\ queue'[d].attempt # id
    BY <2>3
  <2>5. Once(calls, queue)
    BY <1>1 DEF CallsOnce
  <2>6. Once(Append(calls, id), queue')
    BY <2>1, <2>2, <2>4, <2>5, OnceAdded
  <2> QED BY <1>2, <2>6 DEF CallsOnce
<1> QED BY <1>5, <1>6, <1>7, <1>8, <1>9, <1>10, <1>11 DEF IInv

-----------------------------------------------------------------------------
(* The answers to the calls.                                               *)

(* The batch of the first call.                                            *)
LEMMA FirstIs ==
    ASSUME Shapes, BatchesOK, calls # <<>>
    PROVE  /\ Head(calls) \in 1 .. Len(batches) /\ Head(calls) \in Nat
           /\ First \in Batch /\ First.id = Head(calls) /\ First.doc \in Docs
           /\ First = batches[First.id] /\ First.id # Torn /\ First.id # NoBatch
           /\ Head(calls) = calls[1] /\ 1 \in 1 .. Len(calls)
           /\ Numbered(batches) /\ Len(batches) \in Nat
<1>1. calls \in Seq(1 .. Len(batches)) /\ Numbered(batches)
  BY DEF Shapes, BatchesOK
<1>2. Head(calls) \in 1 .. Len(batches)
  BY <1>1, HeadTailProperties
<1>3. Len(calls) \in Nat /\ Len(calls) # 0
  BY <1>1, EmptySeq, LenProperties
<1>4. First \in Batch /\ First.id = Head(calls)
  BY <1>1, <1>2, ElementOfSeq DEF First, Numbered
<1>5. Len(batches) \in Nat
  BY <1>1, LenProperties DEF Numbered
<1>6. First.doc \in Docs
  BY <1>4 DEF Batch
<1>7. Head(calls) = calls[1]
  BY <1>1
<1>8. First = batches[First.id]
  BY <1>4 DEF First
<1> QED BY <1>1, <1>2, <1>3, <1>4, <1>5, <1>6, <1>7, <1>8, ConstantsAssumption

(* The first call is answered.                                             *)
LEMMA CallGone ==
    ASSUME CallsOK, calls \in Seq(1 .. Len(batches)), calls # <<>>,
           startup = "clean", startup' = startup,
           calls' = Tail(calls), append' = "idle", batches' = batches,
           \A i \in 1 .. Len(batches) : Fits(batches[i], targets[batches[i].doc])
               => Fits(batches[i], targets'[batches[i].doc])
    PROVE  CallsOK' /\ calls' \in Seq(1 .. Len(batches'))
<1>1. /\ calls' \in Seq(1 .. Len(batches)) /\ Len(calls') = Len(calls) - 1
      /\ \A k \in 1 .. Len(calls') : calls'[k] = calls[k + 1]
      /\ Len(calls) \in Nat
  BY HeadTailProperties, LenProperties
<1>2. \A k \in 1 .. Len(calls) : calls[k] \in 1 .. Len(batches)
  BY ElementOfSeq
<1>3. ASSUME NEW k \in 1 .. Len(calls')
      PROVE  Fits(batches'[calls'[k]], targets'[batches'[calls'[k]].doc])
  <2>1. k + 1 \in 1 .. Len(calls) /\ calls'[k] = calls[k + 1]
    BY <1>1
  <2>2. Fits(batches[calls[k + 1]], targets[batches[calls[k + 1]].doc])
    BY <2>1 DEF CallsOK
  <2> QED BY <1>2, <2>1, <2>2
<1> QED BY <1>1, <1>3 DEF CallsOK

(* Without the first call every batch is still called once.                *)
LEMMA OnceGone ==
    ASSUME NEW cs \in Seq(Nat), cs # <<>>, NEW qs, NEW ps, Once(cs, qs),
           \A doc \in Docs : ps[doc].failed =>
               /\ ps[doc].attempt = qs[doc].attempt
               /\ qs[doc].failed \/ qs[doc].attempt = Head(cs)
    PROVE  Once(Tail(cs), ps)
<1> DEFINE ds == Tail(cs)
<1>1. /\ Len(ds) = Len(cs) - 1 /\ Len(cs) \in Nat /\ Len(cs) # 0
      /\ \A k \in 1 .. Len(ds) : ds[k] = cs[k + 1]
      /\ Head(cs) = cs[1]
  BY HeadTailProperties, LenProperties, EmptySeq
<1> HIDE DEF ds
<1>2. \A k \in 1 .. Len(ds) : k + 1 \in 1 .. Len(cs) /\ k + 1 # 1 /\ ds[k] = cs[k + 1]
  BY <1>1
<1>3. \A i, j \in 1 .. Len(cs) : cs[i] = cs[j] => i = j
  BY DEF Once
<1>4. ASSUME NEW i \in 1 .. Len(ds), NEW j \in 1 .. Len(ds), ds[i] = ds[j] PROVE i = j
  <2>1. i + 1 = j + 1
    BY <1>2, <1>3, <1>4
  <2> QED BY <2>1
<1>5. Elements(ds) \subseteq Elements(cs)
  BY <1>2 DEF Elements
<1>6. Head(cs) \notin Elements(ds)
  <2>1. 1 \in 1 .. Len(cs)
    BY <1>1
  <2>2. \A k \in 1 .. Len(ds) : ds[k] # cs[1]
    BY <1>2, <1>3, <2>1
  <2> QED BY <1>1, <2>2 DEF Elements
<1>7. \A doc \in Docs : ps[doc].failed => ps[doc].attempt \notin Elements(ds)
  BY <1>5, <1>6 DEF Once
<1> QED BY <1>4, <1>7 DEF Once, ds

(* The first call is refused.                                              *)
LEMMA RejectionKeeps ==
    ASSUME IInv, calls # <<>>, Rejection(First),
           startup = "clean", startup' = startup, targets' = targets,
           accepted' = accepted, batches' = batches
    PROVE  /\ QueuesOK' /\ CallsOK' /\ CallsOnce' /\ acked' = acked /\ append' = "idle"
           /\ calls' \in Seq(1 .. Len(batches'))
<1>1. /\ Shapes /\ BatchesOK /\ CallsOK /\ CallsOnce /\ QueuesOK
      /\ calls \in Seq(1 .. Len(batches))
  BY DEF IInv, Shapes
<1>2. /\ calls' = Tail(calls) /\ append' = "idle" /\ acked' = acked
      /\ queue' = IF queue[First.doc].attempt = First.id
                  THEN [queue EXCEPT ![First.doc].failed = TRUE] ELSE queue
  BY DEF Rejection, Awaits
<1>3. /\ First.doc \in Docs /\ First.id = Head(calls) /\ First.id # NoBatch
      /\ Head(calls) \in Nat
  BY <1>1, FirstIs
<1>4. CallsOK' /\ calls' \in Seq(1 .. Len(batches'))
  BY <1>1, <1>2, CallGone
<1>5. /\ queue' \in [Docs -> WindowQueue]
      /\ \A doc \in Docs :
             /\ queue'[doc].text = queue[doc].text /\ queue'[doc].next = queue[doc].next
             /\ queue'[doc].base = queue[doc].base
             /\ queue'[doc].attempt = queue[doc].attempt
             /\ queue'[doc].failed => queue[doc].failed \/ queue[doc].attempt = First.id
  <2>1. CASE queue[First.doc].attempt = First.id
    <3>1. queue' = [queue EXCEPT ![First.doc].failed = TRUE]
      BY <1>2, <2>1
    <3> QED BY <1>1, <1>3, <2>1, <3>1 DEF QueuesOK, WindowQueue
  <2>2. CASE queue[First.doc].attempt # First.id
    BY <1>1, <1>2, <2>2 DEF QueuesOK
  <2> QED BY <2>1, <2>2
<1>6. QueuesOK'
  <2>1. ASSUME NEW doc \in Docs
        PROVE  QueueOK(batches', queue'[doc], doc, targets'[doc], accepted')
    <3>1. QueueOK(batches, queue[doc], doc, targets[doc], accepted)
      BY <1>1 DEF QueuesOK
    <3> QED BY <1>3, <1>5, <3>1 DEF QueueOK, NotAhead
  <2> QED BY <1>5, <2>1 DEF QueuesOK
<1>7. CallsOnce'
  <2>1. calls \in Seq(Nat)
    BY <1>1, SeqMonotonic
  <2>2. \A doc \in Docs : queue'[doc].failed =>
               /\ queue'[doc].attempt = queue[doc].attempt
               /\ queue[doc].failed \/ queue[doc].attempt = Head(calls)
    BY <1>3, <1>5
  <2>3. Once(calls, queue)
    BY <1>1 DEF CallsOnce
  <2>4. Once(Tail(calls), queue')
    BY <2>1, <2>2, <2>3, OnceGone
  <2> QED BY <1>2, <2>4 DEF CallsOnce
<1> QED BY <1>2, <1>4, <1>6, <1>7

(* A save gets a receipt again, is refused, or is let into the journal.    *)
LEMMA ExecuteKeeps ==
    ASSUME IInv, Execute PROVE IInv'
<1>1. /\ Shapes /\ BatchesOK /\ ContentsOK /\ PublicationOK /\ HeadsOK /\ PhaseOK
      /\ CallsOK /\ CallsOnce /\ JournalOK /\ SessionOK /\ AckedOK /\ QueuesOK
      /\ calls \in Seq(1 .. Len(batches))
  BY DEF IInv, Shapes
<1>2. /\ startup = "clean" /\ append = "idle" /\ calls # <<>>
      /\ journal' = journal /\ synced' = synced /\ content' = content
      /\ nextCreated' = nextCreated /\ temporary' = temporary /\ publication' = publication
      /\ startup' = startup /\ available' = available /\ profile' = profile
      /\ targets' = targets /\ accepted' = accepted /\ phase' = phase /\ batches' = batches
  BY DEF Execute, journalVars, fileVars, startupVars
<1>3. \/ First.id \in accepted /\ Receipt(First)
      \/ First.id \notin accepted /\ ~Acceptable(targets[First.doc], First) /\ Rejection(First)
      \/ /\ First.id \notin accepted /\ Acceptable(targets[First.doc], First)
         /\ append' = "writing" /\ calls' = calls /\ queue' = queue /\ acked' = acked
  BY DEF Execute
<1>4. /\ First.doc \in Docs /\ First.id = Head(calls) /\ First.id # NoBatch
      /\ Head(calls) \in Nat
  BY <1>1, <1>2, FirstIs
<1>5. /\ Source' = Source /\ Frames' = Frames /\ Recovered' = Recovered
      /\ Affected' = Affected /\ JournalOK'
  BY <1>1, <1>2, LogStays
<1>6. /\ QueuesOK' /\ CallsOK' /\ CallsOnce' /\ acked' = acked
      /\ append' \in {"idle", "writing"} /\ calls' \in Seq(1 .. Len(batches'))
  <2>1. CASE First.id \in accepted /\ Receipt(First)
    <3>1. queue[First.doc].attempt # First.id
      <4>1. QueueOK(batches, queue[First.doc], First.doc, targets[First.doc], accepted)
        BY <1>1, <1>4 DEF QueuesOK
      <4> QED BY <1>4, <2>1, <4>1 DEF QueueOK
    <3>2. /\ calls' = Tail(calls) /\ append' = "idle" /\ queue' = queue /\ acked' = acked
      BY <2>1, <3>1 DEF Receipt, Awaits
    <3>3. CallsOK' /\ calls' \in Seq(1 .. Len(batches'))
      BY <1>1, <1>2, <3>2, CallGone
    <3>4. CallsOnce'
      <4>1. calls \in Seq(Nat)
        BY <1>1, SeqMonotonic
      <4>2. Once(calls, queue)
        BY <1>1 DEF CallsOnce
      <4>3. Once(Tail(calls), queue)
        BY <1>2, <4>1, <4>2, OnceGone
      <4> QED BY <3>2, <4>3 DEF CallsOnce
    <3>5. QueuesOK'
      BY <1>1, <1>2, <3>2 DEF QueuesOK
    <3> QED BY <3>2, <3>3, <3>4, <3>5
  <2>2. CASE /\ First.id \notin accepted /\ ~Acceptable(targets[First.doc], First)
             /\ Rejection(First)
    BY <1>2, <2>2, RejectionKeeps
  <2>3. CASE /\ First.id \notin accepted /\ Acceptable(targets[First.doc], First)
             /\ append' = "writing" /\ calls' = calls /\ queue' = queue /\ acked' = acked
    <3>1. QueuesOK' /\ CallsOnce'
      BY <1>1, <1>2, <2>3 DEF QueuesOK, CallsOnce
    <3>2. CallsOK'
      BY <1>1, <1>2, <1>4, <2>3 DEF CallsOK, First
    <3> QED BY <1>1, <1>2, <2>3, <3>1, <3>2
  <2> QED BY <1>3, <2>1, <2>2, <2>3
<1>7. Shapes' /\ BatchesOK' /\ HeadsOK' /\ ContentsOK' /\ PublicationOK'
  BY <1>1, <1>2, <1>6 DEF Shapes, BatchesOK, HeadsOK, ContentsOK, PublicationOK
<1>8. PhaseOK' /\ SessionOK'
  BY <1>1, <1>2, <1>5 DEF PhaseOK, SessionOK
<1>9. AckedOK'
  BY <1>1, <1>2, <1>6, AckedStays
<1> QED BY <1>5, <1>6, <1>7, <1>8, <1>9 DEF IInv

(* A sync that fails leaves the frame in the journal, unconfirmed.         *)
LEMMA SyncFailsKeeps ==
    ASSUME IInv, SyncFails PROVE IInv'
<1>1. /\ Shapes /\ BatchesOK /\ ContentsOK /\ PublicationOK /\ HeadsOK /\ PhaseOK
      /\ CallsOK /\ JournalOK /\ SessionOK /\ AckedOK
  BY DEF IInv
<1>2. /\ append = "syncing" /\ Rejection(First)
      /\ journal' = journal /\ synced' = synced /\ content' = content
      /\ nextCreated' = nextCreated /\ temporary' = temporary /\ publication' = publication
      /\ startup' = startup /\ available' = available /\ profile' = profile
      /\ targets' = targets /\ accepted' = accepted /\ phase' = phase /\ batches' = batches
  BY DEF SyncFails, journalVars, fileVars, startupVars
<1>3. startup = "clean" /\ calls # <<>>
  BY <1>1, <1>2 DEF CallsOK
<1>4. /\ QueuesOK' /\ CallsOK' /\ CallsOnce' /\ acked' = acked /\ append' = "idle"
      /\ calls' \in Seq(1 .. Len(batches'))
  BY <1>2, <1>3, RejectionKeeps
<1>5. /\ Recovered' = Recovered /\ Affected' = Affected /\ JournalOK'
  BY <1>1, <1>2, LogStays
<1>6. Shapes' /\ BatchesOK' /\ HeadsOK' /\ ContentsOK' /\ PublicationOK'
  BY <1>1, <1>2, <1>4 DEF Shapes, BatchesOK, HeadsOK, ContentsOK, PublicationOK
<1>7. PhaseOK' /\ SessionOK'
  BY <1>1, <1>2, <1>5 DEF PhaseOK, SessionOK
<1>8. AckedOK'
  BY <1>1, <1>2, <1>4, AckedStays
<1> QED BY <1>4, <1>5, <1>6, <1>7, <1>8 DEF IInv

-----------------------------------------------------------------------------
(* The journal is written.                                                 *)

(* A frame is written behind the others: what was kept is kept.            *)
LEMMA FrameAppended ==
    ASSUME IInv, NEW x \in FramesOf(batches), Written(x),
           synced' = synced, content' = content, nextCreated' = nextCreated,
           publication' = publication, batches' = batches, acked' = acked
    PROVE  /\ Source' = Source /\ Frames' = Append(Frames, x)
           /\ Frames' \in Seq(FramesOf(batches))
           /\ Elements(Frames') = Elements(Frames) \cup {x}
           /\ Recovered' = StepOf(batches, Recovered, x)
           /\ journal' \in [{"source", "next"} -> Seq(FramesOf(batches'))]
           /\ \A g \in {"source", "next"} : synced'[g] <= Len(journal'[g])
           /\ PublicationOK' /\ AckedOK'
<1>1. /\ Shapes /\ BatchesOK /\ ContentsOK /\ PublicationOK /\ AckedOK
  BY DEF IInv
<1> DEFINE g == Source.generation
           n == synced[g]
<1>2. /\ g \in {"source", "next"} /\ Frames \in Seq(FramesOf(batches)) /\ Frames = journal[g]
  BY <1>1, SourceOK DEF Frames
<1>3. journal' = [journal EXCEPT ![g] = Append(Frames, x)]
  BY DEF Written, Frames
<1>4. Source' = Source
  BY SourceStays
<1> HIDE DEF g, n
<1>5. /\ Append(Frames, x) \in Seq(FramesOf(batches))
      /\ Len(Append(Frames, x)) = Len(Frames) + 1 /\ Len(Frames) \in Nat
      /\ Elements(Append(Frames, x)) = Elements(Frames) \cup {x}
  BY <1>2, AppendProperties, LenProperties, ElementsAppend
<1>6. /\ journal' \in [{"source", "next"} -> Seq(FramesOf(batches))]
      /\ journal'[g] = Append(Frames, x)
      /\ \A h \in {"source", "next"} : h # g => journal'[h] = journal[h]
  BY <1>1, <1>2, <1>3, <1>5 DEF Shapes
<1>7. Frames' = Append(Frames, x)
  BY <1>4, <1>6 DEF Frames, g
<1>8. Recovered' = StepOf(batches, Recovered, x)
  <2>1. Recovered' = ReplayOf(batches, Source.heads, Append(Frames, x))
    BY <1>4, <1>7 DEF Recovered
  <2> QED BY <1>2, <2>1, ReplayAppend DEF Recovered
<1>9. \A h \in {"source", "next"} : synced'[h] <= Len(journal'[h])
  <2> TAKE h \in {"source", "next"}
  <2>1. synced[h] \in Nat /\ synced[h] <= Len(journal[h])
    BY <1>1 DEF Shapes
  <2>2. CASE h = g
    BY <1>2, <1>5, <1>6, <2>1, <2>2
  <2>3. CASE h # g
    BY <1>6, <2>1, <2>3
  <2> QED BY <2>2, <2>3
<1>10. PublicationOK'
  <2>1. publication = Absent => g = "source"
    BY SourceIs DEF g
  <2> QED BY <1>1, <1>6, <2>1 DEF PublicationOK
<1>11. AckedOK'
  <2>1. ASSUME NEW id \in acked PROVE Kept(id)' \/ Published(id)' \/ Hidden(id)'
    <3>1. CASE Kept(id)
      <4>1. n \in 0 .. Len(Frames)
        BY <1>1, <1>2, <1>5 DEF Shapes, n
      <4>2. Part(Append(Frames, x), n) = Part(Frames, n)
        BY <1>2, <4>1, PartOfAppend
      <4> QED BY <1>4, <1>7, <3>1, <4>2 DEF Kept, n, g
    <3>2. CASE Published(id)
      BY <3>2 DEF Published
    <3>3. CASE Hidden(id)
      <4>1. publication # Absent /\ g = "next"
        BY <3>3, SourceIs DEF Hidden, g
      <4>2. journal'["source"] = journal["source"]
        BY <1>6, <4>1
      <4>3. SourceReplay' = SourceReplay
        BY <4>2 DEF SourceReplay, Baseline
      <4> QED BY <3>3, <4>2, <4>3 DEF Hidden
    <3> QED BY <1>1, <3>1, <3>2, <3>3 DEF AckedOK
  <2> QED BY <2>1 DEF AckedOK
<1> QED BY <1>4, <1>5, <1>6, <1>7, <1>8, <1>9, <1>10, <1>11

(* The batch of the first call was made on the text the runtime knows.     *)
LEMMA FirstFits ==
    ASSUME Shapes, BatchesOK, HeadsOK, CallsOK, append # "idle"
    PROVE  /\ calls # <<>> /\ startup = "clean" /\ Acceptable(targets[First.doc], First)
           /\ First.id \notin accepted
           /\ First.before = targets[First.doc].text
<1>1. /\ calls # <<>> /\ startup = "clean" /\ Acceptable(targets[First.doc], First)
      /\ Head(calls) \notin accepted
  BY DEF CallsOK
<1>2. First.id = Head(calls) /\ Head(calls) = calls[1] /\ 1 \in 1 .. Len(calls)
  BY <1>1, FirstIs
<1>3. Fits(First, targets[First.doc])
  BY <1>2 DEF CallsOK, First
<1>4. First.before = targets[First.doc].text
  BY <1>1, <1>3 DEF Fits, Acceptable
<1> QED BY <1>1, <1>2, <1>4

(* The frame of a batch is written: it is applied on the head the runtime  *)
(* knows, is there before, or claims the place of an unconfirmed one.      *)
LEMMA WriteFrameKeeps ==
    ASSUME IInv, WriteFrame PROVE IInv'
<1>1. /\ Shapes /\ BatchesOK /\ ContentsOK /\ PublicationOK /\ HeadsOK /\ PhaseOK
      /\ CallsOK /\ CallsOnce /\ JournalOK /\ SessionOK /\ QueuesOK
  BY DEF IInv
<1> DEFINE x == First.id
           d == First.doc
           t == targets[d]
           r == Recovered
<1>2. /\ append = "writing" /\ append' = "syncing" /\ Written(x)
      /\ synced' = synced /\ content' = content
      /\ nextCreated' = nextCreated /\ temporary' = temporary /\ publication' = publication
      /\ startup' = startup /\ available' = available /\ profile' = profile
      /\ targets' = targets /\ accepted' = accepted /\ calls' = calls /\ phase' = phase
      /\ queue' = queue /\ batches' = batches /\ acked' = acked
  BY DEF WriteFrame, fileVars, startupVars, windowVars
<1>3. /\ calls # <<>> /\ startup = "clean" /\ Acceptable(t, First)
      /\ x \notin accepted /\ First.before = t.text
  BY <1>1, <1>2, FirstFits
<1>4. /\ x \in 1 .. Len(batches) /\ x = Head(calls) /\ First \in Batch /\ d \in Docs
      /\ First = batches[x] /\ x # Torn /\ Numbered(batches)
  BY <1>1, <1>3, FirstIs
<1>5. x \in FramesOf(batches)
  BY <1>4 DEF FramesOf
<1>6. /\ Source' = Source /\ Frames' = Append(Frames, x)
      /\ Elements(Frames') = Elements(Frames) \cup {x}
      /\ Recovered' = StepOf(batches, r, x)
      /\ journal' \in [{"source", "next"} -> Seq(FramesOf(batches'))]
      /\ \A g \in {"source", "next"} : synced'[g] <= Len(journal'[g])
      /\ PublicationOK' /\ AckedOK'
  BY <1>1, <1>2, <1>5, FrameAppended
<1>7. Outcome(batches, Source.heads, Frames, r)
  BY <1>1, RecoveredOutcome
<1>8. /\ r \in Replayed(batches) /\ r.applied \subseteq 1 .. Len(batches)
      /\ r.applied \subseteq Elements(Frames)
      /\ Frames \in Seq(FramesOf(batches)) /\ Len(Frames) \in Nat
      /\ Source.heads \in [Docs -> DocumentHead]
  BY <1>1, <1>7, SourceOK, LenProperties DEF Outcome, Replayed
<1>9. t \in DocumentHead
  BY <1>1, <1>4 DEF HeadsOK
<1> HIDE DEF x, d, t, r
<1>10. ASSUME ~r.stopped, x \notin r.applied
       PROVE  \/ r.heads[d] = t
              \/ \E a \in r.applied :
                     /\ SamePlace(batches[a], batches[x])
                     /\ ~Acceptable(r.heads[d], First)
  <2>1. OneAhead(batches, d, t, r.heads[d], r.applied)
    BY <1>1, <1>3, <1>4, <1>10 DEF SessionOK, t, r
  <2>2. ASSUME NEW a \in r.applied, batches[a].doc = d, Acceptable(t, batches[a]),
               r.heads[d] = [text |-> Append(t.text, a), next |-> t.next + 1,
                             base |-> t.base]
        PROVE  SamePlace(batches[a], batches[x]) /\ ~Acceptable(r.heads[d], First)
    <3>1. batches[a] # batches[x]
      <4>1. batches[a].id = a /\ batches[x].id = x /\ a # x
        BY <1>4, <1>8, <1>10 DEF Numbered
      <4> QED BY <4>1
    <3>2. batches[x].doc = d
      BY <1>4 DEF d
    <3>3. SamePlace(batches[a], batches[x])
      BY <1>3, <1>4, <2>2, <3>1, <3>2 DEF SamePlace, Acceptable
    <3>4. r.heads[d].next # First.sequence
      BY <1>3, <1>9, <2>2 DEF Acceptable, DocumentHead
    <3> QED BY <3>3, <3>4 DEF Acceptable
  <2> QED BY <2>1, <2>2 DEF OneAhead
<1>11. JournalOK'
  <2>1. InOrder(batches, Source.heads, Frames)
    BY <1>1 DEF JournalOK
  <2>2. r = ReplayOf(batches, Source.heads, Frames)
    BY DEF r, Recovered
  <2>3. ~r.stopped /\ x # Torn /\ x \notin r.applied =>
            IF Acceptable(r.heads[batches[x].doc], batches[x])
            THEN batches[x].before = r.heads[batches[x].doc].text
            ELSE \E i \in 1 .. Len(Frames) :
                     Frames[i] \in 1 .. Len(batches) /\ SamePlace(batches[Frames[i]], batches[x])
    <3> SUFFICES ASSUME ~r.stopped, x \notin r.applied
                 PROVE  IF Acceptable(r.heads[d], First)
                        THEN First.before = r.heads[d].text
                        ELSE \E i \in 1 .. Len(Frames) :
                                 /\ Frames[i] \in 1 .. Len(batches)
                                 /\ SamePlace(batches[Frames[i]], batches[x])
      BY <1>4 DEF d
    <3>1. CASE r.heads[d] = t
      BY <1>3, <3>1
    <3>2. ASSUME NEW a \in r.applied, SamePlace(batches[a], batches[x]),
                 ~Acceptable(r.heads[d], First)
          PROVE  \E i \in 1 .. Len(Frames) :
                     /\ Frames[i] \in 1 .. Len(batches)
                     /\ SamePlace(batches[Frames[i]], batches[x])
      <4>1. PICK i \in 1 .. Len(Frames) : Frames[i] = a
        BY <1>8 DEF Elements
      <4> QED BY <1>8, <3>2, <4>1
    <3> QED BY <1>10, <3>1, <3>2
  <2>4. InOrder(batches, Source.heads, Append(Frames, x))
    BY <1>4, <1>5, <1>8, <2>1, <2>2, <2>3, InOrderAppend
  <2> QED BY <1>2, <1>6, <2>4 DEF JournalOK
<1>12. SessionOK'
  <2> SUFFICES ASSUME ~Recovered'.stopped, NEW doc \in Docs
               PROVE  OneAhead(batches, doc, targets[doc], Recovered'.heads[doc],
                               Recovered'.applied)
    BY <1>2 DEF SessionOK
  <2>1. Stepped(batches, r, x, Recovered')
    BY <1>4, <1>5, <1>6, <1>7, <1>8, StepIs DEF Outcome
  <2>2. ~r.stopped /\ r.applied \subseteq Recovered'.applied
    BY <2>1 DEF Stepped
  <2>3. OneAhead(batches, doc, targets[doc], r.heads[doc], r.applied)
    BY <1>1, <1>3, <2>2 DEF SessionOK, r
  <2>4. CASE x \in r.applied
    <3>1. Recovered' = r
      BY <1>4, <1>6, <2>4, StepStopped
    <3> QED BY <2>3, <3>1
  <2>5. CASE x \notin r.applied
    <3>1. Acceptable(r.heads[batches[x].doc], batches[x])
      <4>1. ASSUME ~Acceptable(r.heads[batches[x].doc], batches[x]) PROVE FALSE
        <5>1. Recovered' = [heads |-> r.heads, applied |-> r.applied, stopped |-> TRUE]
          BY <1>4, <1>5, <1>6, <1>8, <2>2, <2>5, <4>1, StepStops DEF Numbered
        <5> QED BY <5>1
      <4> QED BY <4>1
    <3>2. Recovered' = [heads |-> Advance(r.heads, batches[x]),
                        applied |-> r.applied \cup {x}, stopped |-> FALSE]
      BY <1>4, <1>6, <1>8, <2>2, <2>5, <3>1, StepApplies DEF Numbered
    <3>3. r.heads[d] = t
      BY <1>4, <1>10, <2>2, <2>5, <3>1 DEF d
    <3> DEFINE heads == r.heads
    <3>4. heads \in [Docs -> DocumentHead]
      BY <1>8 DEF Replayed
    <3> HIDE DEF heads
    <3>5. /\ Advance(heads, First)[d] = [text |-> Append(heads[d].text, x),
                                         next |-> heads[d].next + 1, base |-> heads[d].base]
          /\ \A other \in Docs \ {d} : Advance(heads, First)[other] = heads[other]
      BY <1>4, <3>4, AdvanceIs DEF d, x
    <3>6. CASE doc = d
      <4>1. /\ Recovered'.heads[d] = [text |-> Append(t.text, x), next |-> t.next + 1,
                                      base |-> t.base]
            /\ x \in Recovered'.applied
        BY <1>4, <3>2, <3>3, <3>5 DEF heads
      <4>2. batches[x].doc = d /\ Acceptable(t, batches[x]) /\ batches[x].before = t.text
        BY <1>3, <1>4 DEF d
      <4> QED BY <3>6, <4>1, <4>2 DEF OneAhead, t
    <3>7. CASE doc # d
      <4>1. Recovered'.heads[doc] = r.heads[doc]
        BY <1>4, <3>2, <3>5, <3>7 DEF heads
      <4> QED BY <2>2, <2>3, <4>1 DEF OneAhead
    <3> QED BY <3>6, <3>7
  <2> QED BY <2>4, <2>5
<1>13. CallsOK'
  BY <1>1, <1>2, <1>3, <1>4, <1>6 DEF CallsOK, First
<1>14. Shapes'
  BY <1>1, <1>2, <1>6 DEF Shapes
<1>15. BatchesOK' /\ HeadsOK' /\ ContentsOK' /\ QueuesOK' /\ CallsOnce'
  BY <1>1, <1>2 DEF BatchesOK, HeadsOK, ContentsOK, QueuesOK, CallsOnce
<1>16. PhaseOK'
  BY <1>1, <1>2, <1>3 DEF PhaseOK
<1> QED BY <1>6, <1>11, <1>12, <1>13, <1>14, <1>15, <1>16 DEF IInv

(* Damage is written, or nothing, and the save is refused.                 *)
LEMMA WriteFailsKeeps ==
    ASSUME IInv, WriteFails PROVE IInv'
<1>1. /\ Shapes /\ BatchesOK /\ ContentsOK /\ PublicationOK /\ HeadsOK /\ PhaseOK
      /\ CallsOK /\ JournalOK /\ SessionOK /\ AckedOK
  BY DEF IInv
<1>2. /\ append = "writing" /\ Rejection(First) /\ (Written(Torn) \/ journal' = journal)
      /\ synced' = synced /\ content' = content
      /\ nextCreated' = nextCreated /\ temporary' = temporary /\ publication' = publication
      /\ startup' = startup /\ available' = available /\ profile' = profile
      /\ targets' = targets /\ accepted' = accepted /\ phase' = phase /\ batches' = batches
  BY DEF WriteFails, fileVars, startupVars
<1>3. startup = "clean" /\ calls # <<>>
  BY <1>1, <1>2 DEF CallsOK
<1>4. /\ QueuesOK' /\ CallsOK' /\ CallsOnce' /\ acked' = acked /\ append' = "idle"
      /\ calls' \in Seq(1 .. Len(batches'))
  BY <1>2, <1>3, RejectionKeeps
<1>5. /\ journal' \in [{"source", "next"} -> Seq(FramesOf(batches'))]
      /\ \A g \in {"source", "next"} : synced'[g] <= Len(journal'[g])
      /\ PublicationOK' /\ AckedOK' /\ JournalOK' /\ SessionOK'
  <2>1. CASE journal' = journal
    <3>1. Recovered' = Recovered /\ JournalOK'
      BY <1>1, <1>2, <2>1, LogStays
    <3>2. AckedOK'
      BY <1>1, <1>2, <1>4, <2>1, AckedStays
    <3>3. PublicationOK' /\ SessionOK'
      BY <1>1, <1>2, <2>1, <3>1 DEF PublicationOK, SessionOK
    <3> QED BY <1>1, <1>2, <2>1, <3>1, <3>2, <3>3 DEF Shapes
  <2>2. CASE Written(Torn)
    <3>1. Torn \in FramesOf(batches)
      BY DEF FramesOf
    <3>2. /\ Source' = Source /\ Frames' = Append(Frames, Torn)
          /\ Recovered' = StepOf(batches, Recovered, Torn)
          /\ journal' \in [{"source", "next"} -> Seq(FramesOf(batches'))]
          /\ \A g \in {"source", "next"} : synced'[g] <= Len(journal'[g])
          /\ PublicationOK' /\ AckedOK'
      BY <1>2, <1>4, <2>2, <3>1, FrameAppended
    <3>3. /\ Frames \in Seq(FramesOf(batches)) /\ Source.heads \in [Docs -> DocumentHead]
          /\ Numbered(batches)
      BY <1>1, SourceOK DEF BatchesOK
    <3>4. JournalOK'
      <4>1. InOrder(batches, Source.heads, Append(Frames, Torn))
        BY <1>1, <3>1, <3>3, InOrderAppend DEF JournalOK
      <4> QED BY <1>2, <3>2, <4>1 DEF JournalOK
    <3>5. Recovered'.stopped
      <4>1. Outcome(batches, Source.heads, Frames, Recovered)
        BY <1>1, RecoveredOutcome
      <4>2. Stepped(batches, Recovered, Torn, Recovered')
        BY <3>1, <3>2, <3>3, <4>1, StepIs DEF Outcome
      <4>3. Recovered'.applied \subseteq 1 .. Len(batches)
        BY <4>2 DEF Stepped, Replayed
      <4>4. Len(batches) \in Nat
        BY <3>3, LenProperties DEF Numbered
      <4>5. Torn \notin 1 .. Len(batches)
        BY <4>4, ConstantsAssumption
      <4> QED BY <4>2, <4>3, <4>5 DEF Stepped
    <3>6. SessionOK'
      BY <3>5 DEF SessionOK
    <3> QED BY <3>2, <3>4, <3>6
  <2> QED BY <1>2, <2>1, <2>2
<1>6. Shapes'
  BY <1>1, <1>2, <1>4, <1>5 DEF Shapes
<1>7. BatchesOK' /\ HeadsOK' /\ ContentsOK' /\ PhaseOK'
  BY <1>1, <1>2, <1>3 DEF BatchesOK, HeadsOK, ContentsOK, PhaseOK
<1> QED BY <1>4, <1>5, <1>6, <1>7 DEF IInv

(* A head with one more batch is further than before.                      *)
LEMMA FurtherAhead ==
    ASSUME NEW t \in DocumentHead, NEW t2, t2.next = t.next + 1, t2.base = t.base
    PROVE  /\ \A h : h.next \in Nat /\ NotAhead(h, t) => NotAhead(h, t2)
           /\ \A b \in Batch : Fits(b, t) => Fits(b, t2)
<1>1. t.next \in Nat
  BY DEF DocumentHead
<1>2. ASSUME NEW h, h.next \in Nat, NotAhead(h, t) PROVE NotAhead(h, t2)
  BY <1>1, <1>2 DEF NotAhead
<1>3. ASSUME NEW b \in Batch, Fits(b, t) PROVE Fits(b, t2)
  BY <1>1, <1>3 DEF Fits, Batch
<1> QED BY <1>2, <1>3

(* A batch on a text is not part of it.                                    *)
LEMMA NotInItsText ==
    ASSUME NEW bs, NEW text, WrittenText(bs, text), NEW id, bs[id].before = text
    PROVE  id \notin Elements(text)
<1> SUFFICES ASSUME id \in Elements(text) PROVE FALSE
  OBVIOUS
<1>1. text \in Seq(Nat) /\ Len(text) \in Nat
  BY LenProperties DEF WrittenText
<1>2. PICK i \in 1 .. Len(text) : text[i] = id
  BY DEF Elements
<1>3. text = SubSeq(text, 1, i - 1)
  BY <1>2 DEF WrittenText
<1>4. i - 1 \in 0 .. Len(text) /\ i - 1 # Len(text)
  BY <1>1
<1>5. Len(SubSeq(text, 1, i - 1)) = i - 1
  BY <1>1, <1>4, FirstOnes
<1> QED BY <1>3, <1>4, <1>5

(* The queue that waits for the receipt has the batch in its text; the     *)
(* others do not wait for it.                                              *)
LEMMA ReceiptKeeps ==
    ASSUME IInv, append # "idle", Receipt(First), batches' = batches,
           accepted' = accepted \cup {First.id},
           \A doc \in Docs \ {First.doc} : targets'[doc] = targets[doc],
           targets'[First.doc] =
               [text |-> Append(targets[First.doc].text, First.id),
                next |-> targets[First.doc].next + 1, base |-> targets[First.doc].base]
    PROVE  QueuesOK' /\ CallsOnce' /\ acked' \in {acked, acked \cup {First.id}}
<1> DEFINE x == First.id
           d == First.doc
           t == targets[d]
           q == queue[d]
<1>1. /\ Shapes /\ BatchesOK /\ HeadsOK /\ CallsOK /\ CallsOnce /\ QueuesOK
      /\ calls \in Seq(1 .. Len(batches))
  BY DEF IInv, Shapes
<1>2. /\ calls # <<>> /\ Acceptable(t, First) /\ First.before = t.text
  BY <1>1, FirstFits
<1>3. /\ x \in 1 .. Len(batches) /\ x = Head(calls) /\ First \in Batch /\ d \in Docs
      /\ First = batches[x] /\ x # NoBatch /\ Len(batches) \in Nat /\ x \in Nat
      /\ Head(calls) = calls[1] /\ 1 \in 1 .. Len(calls)
  BY <1>1, <1>2, FirstIs
<1>4. /\ calls' = Tail(calls)
      /\ \/ /\ q.attempt = x
            /\ queue' = [queue EXCEPT ![d].text = Append(@, x), ![d].next = @ + 1,
                                      ![d].attempt = NoBatch]
            /\ acked' = acked \cup {x}
         \/ q.attempt # x /\ queue' = queue /\ acked' = acked
  BY DEF Receipt, Awaits
<1>5. q \in WindowQueue /\ QueueOK(batches, q, d, t, accepted)
  BY <1>1, <1>3 DEF QueuesOK
<1>6. /\ t \in DocumentHead /\ HeadOK(batches, t)
      /\ targets'[d].text = Append(t.text, x) /\ targets'[d].next = t.next + 1
      /\ targets'[d].base = t.base
  BY <1>1, <1>3 DEF HeadsOK
<1>7. \A doc \in Docs \ {d} : targets'[doc] = targets[doc]
  OBVIOUS
<1> HIDE DEF x, d, t, q
<1>8. ASSUME NEW doc \in Docs, doc # d
      PROVE  QueueOK(batches, queue[doc], doc, targets'[doc], accepted')
  <2>1. QueueOK(batches, queue[doc], doc, targets[doc], accepted)
    BY <1>1 DEF QueuesOK
  <2>2. queue[doc].attempt # NoBatch => queue[doc].attempt # x
    BY <1>3, <1>8, <2>1 DEF QueueOK, d
  <2> QED BY <1>7, <1>8, <2>1, <2>2 DEF QueueOK, x
<1>9. CASE q.attempt = x
  <2>1. queue' = [queue EXCEPT ![d].text = Append(@, x), ![d].next = @ + 1,
                               ![d].attempt = NoBatch]
    BY <1>4, <1>9
  <2>2. q.text = t.text /\ q.next = t.next /\ q.base = t.base
    BY <1>2, <1>3, <1>5, <1>9 DEF QueueOK, Acceptable
  <2>3. q.failed = FALSE
    <3>1. x \in Elements(calls)
      BY <1>3 DEF Elements
    <3>2. ~q.failed
      BY <1>1, <1>3, <1>9, <3>1 DEF CallsOnce, Once, q
    <3> QED BY <1>5, <3>2 DEF WindowQueue
  <2>4. /\ WrittenText(batches, Append(t.text, x)) /\ Append(t.text, x) \in Seq(Nat)
        /\ Len(Append(t.text, x)) = Len(t.text) + 1 /\ t.next = Len(t.text)
    <3>1. /\ WrittenText(batches, Append(t.text, x))
          /\ Len(Append(t.text, x)) = Len(t.text) + 1
      BY <1>2, <1>3, <1>6, WrittenAppend DEF HeadOK
    <3> QED BY <1>6, <3>1 DEF HeadOK, WrittenText
  <2>5. /\ queue'[d] = [text |-> Append(t.text, x), next |-> t.next + 1, base |-> t.base,
                        attempt |-> NoBatch, failed |-> FALSE]
        /\ \A doc \in Docs : doc # d => queue'[doc] = queue[doc]
        /\ DOMAIN queue' = Docs /\ queue' = [doc \in Docs |-> queue'[doc]]
    <3> DEFINE new == [text |-> Append(q.text, x), next |-> q.next + 1, base |-> q.base,
                       attempt |-> NoBatch, failed |-> q.failed]
    <3>1. queue' = [queue EXCEPT ![d] = new]
      <4>1. queue \in [Docs -> WindowQueue]
        BY <1>1 DEF QueuesOK
      <4> QED BY <1>3, <1>5, <2>1, <4>1 DEF q, WindowQueue
    <3>2. new = [text |-> Append(t.text, x), next |-> t.next + 1, base |-> t.base,
                 attempt |-> NoBatch, failed |-> FALSE]
      BY <1>5, <2>2, <2>3 DEF WindowQueue
    <3> HIDE DEF new
    <3> QED BY <1>1, <1>3, <3>1, <3>2 DEF QueuesOK
  <2>6. queue'[d] \in WindowQueue
    BY <1>6, <2>4, <2>5 DEF WindowQueue, DocumentHead
  <2>7. queue' \in [Docs -> WindowQueue]
    BY <1>1, <2>5, <2>6 DEF QueuesOK
  <2>8. QueueOK(batches, queue'[d], d, targets'[d], accepted')
    BY <1>6, <2>4, <2>5 DEF QueueOK, NotAhead, DocumentHead
  <2>9. QueuesOK'
    <3>1. \A doc \in Docs : QueueOK(batches, queue'[doc], doc, targets'[doc], accepted')
      BY <1>8, <2>5, <2>8
    <3> QED BY <2>7, <3>1 DEF QueuesOK
  <2>10. CallsOnce'
    <3>1. \A doc \in Docs : queue'[doc].failed =>
              /\ queue'[doc].attempt = queue[doc].attempt
              /\ queue[doc].failed \/ queue[doc].attempt = Head(calls)
      BY <2>5
    <3>2. calls \in Seq(Nat) /\ Once(calls, queue)
      BY <1>1, <1>3, SeqMonotonic DEF CallsOnce
    <3>3. Once(Tail(calls), queue')
      BY <1>2, <3>1, <3>2, OnceGone
    <3> QED BY <1>4, <3>3 DEF CallsOnce
  <2> QED BY <1>4, <2>9, <2>10 DEF x
<1>10. CASE q.attempt # x
  <2>1. queue' = queue /\ acked' = acked
    BY <1>4, <1>10
  <2>2. QueueOK(batches, q, d, targets'[d], accepted')
    <3>1. q.next \in Nat
      BY <1>5 DEF WindowQueue
    <3>2. NotAhead(q, targets'[d])
      BY <1>5, <1>6, <3>1, FurtherAhead DEF QueueOK
    <3> QED BY <1>5, <1>10, <3>2 DEF QueueOK, x
  <2>3. \A doc \in Docs : QueueOK(batches, queue[doc], doc, targets'[doc], accepted')
    BY <1>8, <2>2 DEF q
  <2>4. QueuesOK'
    BY <1>1, <2>1, <2>3 DEF QueuesOK
  <2>5. CallsOnce'
    <3>1. calls \in Seq(Nat) /\ Once(calls, queue)
      BY <1>1, <1>3, SeqMonotonic DEF CallsOnce
    <3>2. Once(Tail(calls), queue)
      BY <1>2, <3>1, OnceGone DEF Once
    <3> QED BY <1>4, <2>1, <3>2 DEF CallsOnce
  <2> QED BY <2>1, <2>4, <2>5
<1> QED BY <1>9, <1>10

(* The batch is confirmed: the head of the runtime takes it over, and it   *)
(* is kept.                                                                *)
LEMMA SyncSucceedsKeeps ==
    ASSUME IInv, SyncSucceeds PROVE IInv'
<1> DEFINE x == First.id
           d == First.doc
           t == targets[d]
           g == Source.generation
<1>1. /\ Shapes /\ BatchesOK /\ ContentsOK /\ PublicationOK /\ HeadsOK /\ PhaseOK
      /\ CallsOK /\ CallsOnce /\ JournalOK /\ SessionOK /\ QueuesOK /\ AckedOK
      /\ calls \in Seq(1 .. Len(batches))
  BY DEF IInv, Shapes
<1>2. /\ append = "syncing" /\ Receipt(First)
      /\ synced' = [synced EXCEPT ![g] = Len(journal[g])]
      /\ targets' = Advance(targets, First) /\ accepted' = accepted \cup {x}
      /\ calls' = Tail(calls) /\ append' = "idle"
      /\ journal' = journal /\ content' = content
      /\ nextCreated' = nextCreated /\ temporary' = temporary /\ publication' = publication
      /\ startup' = startup /\ available' = available /\ profile' = profile
      /\ phase' = phase /\ batches' = batches
  BY DEF SyncSucceeds, Receipt, fileVars, startupVars
<1>3. /\ calls # <<>> /\ startup = "clean" /\ Acceptable(t, First) /\ First.before = t.text
      /\ x \in Elements(Frames)
  <2>1. /\ calls # <<>> /\ startup = "clean" /\ Acceptable(t, First) /\ First.before = t.text
    BY <1>1, <1>2, FirstFits
  <2>2. x = Head(calls)
    BY <1>1, <2>1, FirstIs
  <2> QED BY <1>1, <1>2, <2>1, <2>2 DEF CallsOK
<1>4. /\ x \in 1 .. Len(batches) /\ x = Head(calls) /\ First \in Batch /\ d \in Docs
      /\ First = batches[x] /\ Numbered(batches) /\ Len(batches) \in Nat
  BY <1>1, <1>3, FirstIs
<1>5. /\ targets' \in [Docs -> DocumentHead]
      /\ targets'[d] = [text |-> Append(t.text, x), next |-> t.next + 1, base |-> t.base]
      /\ \A doc \in Docs \ {d} : targets'[doc] = targets[doc]
  <2>1. targets \in [Docs -> DocumentHead]
    BY <1>1 DEF HeadsOK
  <2> QED BY <1>2, <1>4, <2>1, AdvanceIs
<1>6. t \in DocumentHead /\ HeadOK(batches, t)
  BY <1>1, <1>4 DEF HeadsOK
<1>7. QueuesOK' /\ CallsOnce' /\ acked' \in {acked, acked \cup {x}}
  BY <1>2, <1>5, ReceiptKeeps
<1> HIDE DEF x, d, t
<1>8. \A doc \in Docs :
          /\ \A h : h.next \in Nat /\ NotAhead(h, targets[doc]) => NotAhead(h, targets'[doc])
          /\ \A b \in Batch : Fits(b, targets[doc]) => Fits(b, targets'[doc])
  <2>1. targets'[d].next = t.next + 1 /\ targets'[d].base = t.base
    BY <1>5
  <2>2. /\ \A h : h.next \in Nat /\ NotAhead(h, t) => NotAhead(h, targets'[d])
        /\ \A b \in Batch : Fits(b, t) => Fits(b, targets'[d])
    BY <1>6, <2>1, FurtherAhead
  <2> QED BY <1>5, <2>2 DEF t
<1>9. HeadsOK'
  <2>1. HeadOK(batches, targets'[d])
    BY <1>3, <1>4, <1>5, <1>6, HeadAppend
  <2>2. \A doc \in Docs : HeadOK(batches, targets'[doc])
    BY <1>1, <1>5, <2>1 DEF HeadsOK
  <2>3. \A doc \in Docs : profile[doc].next \in Nat
    BY <1>1 DEF HeadsOK, DocumentHead
  <2>4. \A doc \in Docs : NotAhead(profile[doc], targets'[doc])
    BY <1>1, <1>8, <2>3 DEF HeadsOK
  <2> QED BY <1>1, <1>2, <1>5, <2>2, <2>4 DEF HeadsOK
<1>10. CallsOK' /\ calls' \in Seq(1 .. Len(batches'))
  <2>1. \A i \in 1 .. Len(batches) : batches[i] \in Batch /\ batches[i].doc \in Docs
    <3>1. \A i \in 1 .. Len(batches) : batches[i] \in Batch
      BY <1>4, ElementOfSeq DEF Numbered
    <3> QED BY <3>1 DEF Batch
  <2>2. \A i \in 1 .. Len(batches) : Fits(batches[i], targets[batches[i].doc])
               => Fits(batches[i], targets'[batches[i].doc])
    BY <1>8, <2>1
  <2> QED BY <1>1, <1>2, <1>3, <2>2, CallGone
<1>11. /\ Source' = Source /\ Frames' = Frames /\ Recovered' = Recovered
       /\ SourceReplay' = SourceReplay /\ Affected' = Affected /\ JournalOK'
  BY <1>1, <1>2, LogStays
<1>12. /\ g \in {"source", "next"} /\ Frames \in Seq(FramesOf(batches)) /\ Frames = journal[g]
       /\ Len(Frames) \in Nat
  BY <1>1, SourceOK, LenProperties DEF Frames
<1>13. /\ synced' \in [{"source", "next"} -> Nat] /\ synced'[g] = Len(Frames)
       /\ \A h \in {"source", "next"} : synced'[h] <= Len(journal'[h])
  BY <1>1, <1>2, <1>12 DEF Shapes
<1>14. Shapes'
  <2>1. accepted' \subseteq 1 .. Len(batches') /\ acked' \subseteq 1 .. Len(batches')
    BY <1>1, <1>2, <1>4, <1>7 DEF Shapes
  <2> QED BY <1>1, <1>2, <1>10, <1>13, <2>1 DEF Shapes
<1>15. BatchesOK' /\ ContentsOK' /\ PublicationOK' /\ PhaseOK'
  BY <1>1, <1>2, <1>11 DEF BatchesOK, ContentsOK, PublicationOK, PhaseOK
<1>16. SessionOK'
  <2> DEFINE h == Recovered.heads[d]
             applied == Recovered.applied
  <2> SUFFICES ASSUME ~Recovered.stopped, NEW doc \in Docs
               PROVE  OneAhead(batches, doc, targets'[doc], Recovered.heads[doc], applied)
    BY <1>2, <1>11 DEF SessionOK
  <2>1. OneAhead(batches, doc, targets[doc], Recovered.heads[doc], applied)
    BY <1>1, <1>3 DEF SessionOK
  <2>2. CASE doc # d
    BY <1>5, <2>1, <2>2
  <2>3. CASE doc = d
    <3>1. Outcome(batches, Source.heads, Frames, Recovered)
      BY <1>1, RecoveredOutcome
    <3>2. x \in Elements(h.text)
      <4>1. x \in Recovered.applied
        BY <1>3, <3>1 DEF Outcome
      <4> QED BY <1>4, <3>1, <4>1 DEF Outcome, InTexts, d
    <3>3. x \notin Elements(t.text)
      BY <1>3, <1>4, <1>6, NotInItsText DEF HeadOK
    <3>4. OneAhead(batches, d, t, h, applied)
      BY <2>1, <2>3 DEF t
    <3> HIDE DEF h, applied
    <3>5. h # t
      BY <3>2, <3>3
    <3>6. PICK a \in applied : h = [text |-> Append(t.text, a), next |-> t.next + 1,
                                    base |-> t.base]
      BY <3>4, <3>5 DEF OneAhead
    <3>7. x = a
      <4>1. a \in Nat
        BY <1>4, <3>1 DEF Outcome, Replayed, applied
      <4>2. t.text \in Seq(Nat)
        BY <1>6 DEF DocumentHead
      <4>3. Elements(h.text) = Elements(t.text) \cup {a}
        <5>1. Elements(Append(t.text, a)) = Elements(t.text) \cup {a}
          BY <4>1, <4>2, ElementsAppend
        <5> QED BY <3>6, <5>1
      <4> QED BY <3>2, <3>3, <4>3
    <3>8. h = targets'[d]
      BY <1>5, <3>6, <3>7
    <3> QED BY <2>3, <3>8 DEF OneAhead, h
  <2> QED BY <2>2, <2>3
<1>17. AckedOK'
  <2>1. Part(Frames, Len(Frames)) = Frames
    BY <1>12, PartIsWhole
  <2>2. \A id : id \in Elements(Frames) => Kept(id)'
    BY <1>11, <1>13, <2>1 DEF Kept
  <2>3. synced[g] \in 0 .. Len(Frames)
    BY <1>1, <1>12 DEF Shapes
  <2>4. \A id : Kept(id) => Kept(id)'
    BY <1>12, <2>2, <2>3, PartIs DEF Kept
  <2>5. \A id : (Published(id) => Published(id)') /\ (Hidden(id) => Hidden(id)')
    BY <1>2, <1>11 DEF Published, Hidden
  <2> QED BY <1>1, <1>3, <1>7, <2>2, <2>4, <2>5 DEF AckedOK
<1> QED BY <1>7, <1>9, <1>10, <1>11, <1>14, <1>15, <1>16, <1>17 DEF IInv

-----------------------------------------------------------------------------
(* The candidate is applied.                                               *)

(* A step of a compaction before its commit point: the journals and what   *)
(* the startup reads from them stay.                                       *)
LEMMA PreparationKeeps ==
    ASSUME IInv, publication = Absent, publication' = publication,
           UNCHANGED journalVars, UNCHANGED compactionUnchanged,
           ContentsOK', PhaseOK', nextCreated' \in BOOLEAN,
           temporary' \in (SUBSET Docs) \cup {Absent, Partial},
           phase' \in {"idle", "prepare", "temporary", "rename", "reclaim", "resolve"}
    PROVE  IInv'
<1>1. /\ Shapes /\ BatchesOK /\ PublicationOK /\ HeadsOK /\ CallsOK /\ CallsOnce
      /\ JournalOK /\ SessionOK /\ QueuesOK /\ AckedOK
  BY DEF IInv
<1>2. /\ journal' = journal /\ synced' = synced
      /\ startup' = startup /\ available' = available /\ profile' = profile
      /\ targets' = targets /\ accepted' = accepted /\ calls' = calls /\ append' = append
      /\ queue' = queue /\ batches' = batches /\ acked' = acked
  BY DEF journalVars, compactionUnchanged, startupVars, saveVars, windowVars
<1>3. /\ Source' = Source /\ Frames' = Frames /\ Recovered' = Recovered /\ JournalOK'
  BY <1>1, <1>2, LogStays
<1>4. AckedOK'
  BY <1>1, <1>2, AckedStays
<1>5. Shapes' /\ BatchesOK' /\ PublicationOK' /\ HeadsOK' /\ CallsOnce' /\ QueuesOK'
  BY <1>1, <1>2 DEF Shapes, BatchesOK, PublicationOK, HeadsOK, CallsOnce, QueuesOK
<1>6. SessionOK'
  BY <1>1, <1>2, <1>3 DEF SessionOK
<1>7. CallsOK'
  BY <1>1, <1>2, <1>3 DEF CallsOK, First
<1> QED BY <1>3, <1>4, <1>5, <1>6, <1>7 DEF IInv

(* An apply begins before anything is published.                           *)
LEMMA ApplyBeginsKeeps ==
    ASSUME IInv, ApplyBegins PROVE IInv'
<1>1. Shapes /\ ContentsOK /\ PhaseOK
  BY DEF IInv
<1>2. /\ startup = "pending" /\ available /\ phase = "idle" /\ phase' = "prepare"
      /\ UNCHANGED journalVars /\ UNCHANGED compactionUnchanged
      /\ content' = content /\ nextCreated' = nextCreated /\ temporary' = temporary
      /\ publication' = publication /\ batches' = batches /\ startup' = startup
  BY DEF ApplyBegins, fileVars, compactionUnchanged, startupVars, windowVars
<1>3. publication = Absent
  BY <1>1, <1>2 DEF PhaseOK
<1>4. ContentsOK' /\ PhaseOK'
  BY <1>1, <1>2, <1>3 DEF ContentsOK, PhaseOK
<1> QED BY <1>1, <1>2, <1>3, <1>4, PreparationKeeps DEF Shapes

(* A content file is created.                                              *)
LEMMA PrepareRevisionKeeps ==
    ASSUME IInv, NEW doc \in Docs, PrepareRevision(doc) PROVE IInv'
<1>1. Shapes /\ ContentsOK /\ PhaseOK
  BY DEF IInv
<1>2. /\ phase = "prepare" /\ content' = [content EXCEPT ![doc] = Partial]
      /\ UNCHANGED journalVars /\ UNCHANGED compactionUnchanged
      /\ nextCreated' = nextCreated /\ temporary' = temporary
      /\ publication' = publication /\ batches' = batches /\ startup' = startup
      /\ phase' = phase
  BY DEF PrepareRevision, compactionUnchanged, startupVars, windowVars
<1>3. publication = Absent
  BY <1>1, <1>2 DEF PhaseOK
<1>4. ContentsOK' /\ PhaseOK'
  BY <1>1, <1>2, <1>3 DEF ContentsOK, PhaseOK
<1> QED BY <1>1, <1>2, <1>3, <1>4, PreparationKeeps DEF Shapes

(* The content that is written is a text the author had.                   *)
LEMMA RevisionSyncedKeeps ==
    ASSUME IInv, NEW doc \in Docs, RevisionSynced(doc) PROVE IInv'
<1>1. Shapes /\ BatchesOK /\ ContentsOK /\ PublicationOK /\ PhaseOK /\ JournalOK
  BY DEF IInv
<1>2. /\ phase = "prepare" /\ content' = [content EXCEPT ![doc] = Recovered.heads[doc].text]
      /\ UNCHANGED journalVars /\ UNCHANGED compactionUnchanged
      /\ nextCreated' = nextCreated /\ temporary' = temporary
      /\ publication' = publication /\ batches' = batches /\ startup' = startup
      /\ phase' = phase
  BY CandidateIs DEF RevisionSynced, compactionUnchanged, startupVars, windowVars
<1>3. publication = Absent
  BY <1>1, <1>2 DEF PhaseOK
<1>4. WrittenText(batches, Recovered.heads[doc].text)
  BY <1>1, RecoveredHeads DEF HeadOK
<1>5. ContentsOK'
  BY <1>1, <1>2, <1>4 DEF ContentsOK, WrittenText
<1>6. PhaseOK'
  BY <1>1, <1>2, <1>3 DEF PhaseOK
<1> QED BY <1>1, <1>2, <1>3, <1>5, <1>6, PreparationKeeps DEF Shapes

(* The contents are the recovered texts when the next journal is created.  *)
LEMMA CreateNextJournalKeeps ==
    ASSUME IInv, CreateNextJournal PROVE IInv'
<1>1. Shapes /\ ContentsOK /\ PhaseOK /\ JournalOK
  BY DEF IInv
<1>2. /\ phase = "prepare" /\ phase' = "temporary" /\ nextCreated' = TRUE
      /\ \A doc \in Affected : content[doc] = Recovered.heads[doc].text
      /\ UNCHANGED journalVars /\ UNCHANGED compactionUnchanged
      /\ content' = content /\ temporary' = temporary /\ journal' = journal
      /\ publication' = publication /\ batches' = batches /\ startup' = startup
  BY CandidateIs DEF CreateNextJournal, compactionUnchanged, startupVars, windowVars,
                     journalVars
<1>3. publication = Absent
  BY <1>1, <1>2 DEF PhaseOK
<1>4. Recovered' = Recovered /\ Affected' = Affected
  BY <1>1, <1>2, LogStays
<1>5. PhaseOK'
  BY <1>1, <1>2, <1>3, <1>4 DEF PhaseOK
<1>6. ContentsOK'
  BY <1>1, <1>2 DEF ContentsOK
<1> QED BY <1>1, <1>2, <1>3, <1>5, <1>6, PreparationKeeps DEF Shapes

(* The temporary file names the documents that were recovered.             *)
LEMMA WriteTemporaryKeeps ==
    ASSUME IInv, WriteTemporary PROVE IInv'
<1>1. Shapes /\ ContentsOK /\ PhaseOK /\ JournalOK
  BY DEF IInv
<1>2. /\ phase = "temporary"
      /\ \/ temporary' = Partial /\ phase' = phase
         \/ temporary' = Affected /\ phase' = "rename"
      /\ UNCHANGED journalVars /\ UNCHANGED compactionUnchanged
      /\ content' = content /\ nextCreated' = nextCreated /\ journal' = journal
      /\ publication' = publication /\ batches' = batches /\ startup' = startup
  BY DEF WriteTemporary, compactionUnchanged, startupVars, windowVars, journalVars
<1>3. publication = Absent
  BY <1>1, <1>2 DEF PhaseOK
<1>4. Recovered' = Recovered /\ Affected' = Affected
  BY <1>1, <1>2, LogStays
<1>5. Affected \subseteq Docs
  BY DEF Affected
<1>6. PhaseOK'
  BY <1>1, <1>2, <1>3, <1>4 DEF PhaseOK
<1>7. ContentsOK'
  BY <1>1, <1>2 DEF ContentsOK
<1> QED BY <1>1, <1>2, <1>3, <1>5, <1>6, <1>7, PreparationKeeps DEF Shapes

(* An apply fails before its commit point.                                 *)
LEMMA ApplyFailsKeeps ==
    ASSUME IInv, ApplyFails PROVE IInv'
<1>1. Shapes /\ ContentsOK /\ PhaseOK
  BY DEF IInv
<1>2. /\ phase \in {"prepare", "temporary", "rename"} /\ phase' = "idle"
      /\ UNCHANGED journalVars /\ UNCHANGED compactionUnchanged
      /\ content' = content /\ nextCreated' = nextCreated /\ temporary' = temporary
      /\ publication' = publication /\ batches' = batches
  BY DEF ApplyFails, fileVars, compactionUnchanged, windowVars
<1>3. publication = Absent
  BY <1>1, <1>2 DEF PhaseOK
<1>4. ContentsOK' /\ PhaseOK'
  BY <1>1, <1>2, <1>3 DEF ContentsOK, PhaseOK
<1> QED BY <1>1, <1>2, <1>3, <1>4, PreparationKeeps DEF Shapes

(* A text that is there is neither missing nor partial.                    *)
LEMMA WrittenIsThere ==
    ASSUME BatchesOK, NEW text, WrittenText(batches, text)
    PROVE  text \notin {Absent, Partial}
BY WrittenIsText, ConstantsAssumption

(* The commit point: every acknowledged batch that the compaction read is  *)
(* published, and the others are behind the frame the replay stopped at.   *)
LEMMA RenamePublicationKeeps ==
    ASSUME IInv, RenamePublication PROVE IInv'
<1>1. /\ Shapes /\ BatchesOK /\ ContentsOK /\ PublicationOK /\ HeadsOK /\ PhaseOK
      /\ CallsOK /\ CallsOnce /\ JournalOK /\ QueuesOK /\ AckedOK /\ Numbered(batches)
  BY DEF IInv, BatchesOK
<1>2. /\ phase = "rename" /\ phase' = "reclaim"
      /\ publication' = temporary /\ temporary' = Absent
      /\ journal' = journal /\ synced' = synced /\ content' = content
      /\ nextCreated' = nextCreated /\ startup' = startup /\ available' = available
      /\ profile' = profile /\ targets' = targets /\ accepted' = accepted
      /\ calls' = calls /\ append' = append
      /\ queue' = queue /\ batches' = batches /\ acked' = acked
  BY DEF RenamePublication, journalVars, compactionUnchanged, startupVars, saveVars,
         windowVars
<1>3. /\ publication = Absent /\ startup = "pending" /\ nextCreated
      /\ \A doc \in Affected : content[doc] = Recovered.heads[doc].text
      /\ publication' = Affected
      /\ journal["next"] = <<>> /\ calls = <<>> /\ append = "idle"
  BY <1>1, <1>2 DEF PhaseOK, PublicationOK, CallsOK
<1>4. /\ Affected \subseteq Docs /\ Affected \notin {Absent, Partial}
  <2>1. Affected \subseteq Docs
    BY DEF Affected
  <2> QED BY <2>1, ConstantsAssumption
<1>5. \A doc \in Affected : WrittenText(batches, content[doc])
  BY <1>1, <1>3, <1>4, RecoveredHeads DEF HeadOK
<1>6. Shapes'
  BY <1>1, <1>2, <1>3, <1>4 DEF Shapes
<1>7. BatchesOK' /\ HeadsOK' /\ QueuesOK' /\ ContentsOK' /\ CallsOnce'
  BY <1>1, <1>2 DEF BatchesOK, HeadsOK, QueuesOK, ContentsOK, CallsOnce
<1>8. CallsOK' /\ SessionOK'
  BY <1>1, <1>2, <1>3, EmptySeq DEF CallsOK, SessionOK
<1>9. PhaseOK'
  BY <1>2, <1>3, <1>4 DEF PhaseOK
<1>10. PublicationOK'
  <2>1. \A doc \in Affected : content[doc] \notin {Absent, Partial}
    BY <1>1, <1>5, WrittenIsThere
  <2> QED BY <1>2, <1>3, <1>4, <2>1 DEF PublicationOK
<1>11. JournalOK'
  <2>1. Source' = [generation |-> "next", heads |-> HeadsOf(Affected, content)]
    BY <1>2, <1>3, <1>4 DEF Source, PublishedHeads, HeadsOf, Baseline
  <2>2. Frames' = <<>> /\ Source'.heads = HeadsOf(Affected, content)
    BY <1>2, <1>3, <2>1 DEF Frames
  <2>3. \A doc \in Docs : HeadOK(batches, HeadsOf(Affected, content)[doc])
    BY <1>4, <1>5, HeadsOfOK
  <2>4. InOrder(batches, HeadsOf(Affected, content), <<>>)
    BY <2>3, InOrderEmpty
  <2> QED BY <1>2, <2>2, <2>4 DEF JournalOK
<1>12. AckedOK'
  <2>1. Source = [generation |-> "source", heads |-> Baseline]
    BY <1>3, SourceIs
  <2>2. /\ Frames = journal["source"] /\ Frames \in Seq(FramesOf(batches))
        /\ Recovered = SourceReplay /\ Source.heads = Baseline /\ Source.generation = "source"
        /\ SourceReplay' = SourceReplay
    BY <1>1, <1>2, <2>1 DEF Frames, Recovered, SourceReplay, Shapes, Baseline
  <2>3. /\ Len(Frames) \in 0 .. Len(Frames) /\ synced["source"] \in 0 .. Len(Frames)
        /\ Part(Frames, Len(Frames)) = Frames
    BY <1>1, <2>2, LenProperties, PartIsWhole DEF Shapes
  <2>4. Outcome(batches, Source.heads, Frames, Recovered)
    BY <1>1, RecoveredOutcome
  <2>5. ASSUME NEW id \in acked PROVE Published(id)' \/ Hidden(id)'
    <3>1. Kept(id)
      BY <1>1, <1>3 DEF AckedOK, Published, Hidden
    <3>2. id \in Elements(Frames)
      BY <2>2, <2>3, <3>1, PartIs DEF Kept
    <3>3. CASE id \in Recovered.applied
      <4> DEFINE doc == batches[id].doc
      <4>1. id \in 1 .. Len(batches) /\ doc \in Docs
        <5>1. id \in 1 .. Len(batches)
          BY <1>1 DEF Shapes
        <5>2. batches[id] \in Batch
          BY <1>1, <5>1, ElementOfSeq DEF Numbered
        <5> QED BY <5>1, <5>2 DEF Batch
      <4>2. id \in Elements(Recovered.heads[doc].text)
        BY <2>4, <3>3 DEF Outcome, InTexts
      <4> HIDE DEF doc
      <4>3. Elements(Baseline[doc].text) = {}
        BY <4>1, ElementsEmpty DEF Baseline
      <4>4. doc \in Affected
        <5>1. Recovered.heads[doc] # Source.heads[doc]
          BY <2>2, <4>2, <4>3
        <5> QED BY <4>1, <5>1, CandidateIs DEF Affected
      <4>5. id \in Elements(content[doc])
        BY <1>3, <4>2, <4>4
      <4> QED BY <1>2, <1>3, <1>4, <4>4, <4>5 DEF Published, doc
    <3>4. CASE id \notin Recovered.applied
      <4>1. InOrder(batches, Source.heads, Frames) /\ Source.heads \in [Docs -> DocumentHead]
        BY <1>1, SourceOK DEF JournalOK
      <4>2. Recovered = ReplayOf(batches, Source.heads, Part(Frames, Len(Frames)))
        BY <2>3 DEF Recovered
      <4>3. id \in Elements(Part(Frames, Len(Frames)))
        BY <2>3, <3>2
      <4>4. Recovered.stopped /\ HiddenIn(batches, Frames, id)
        BY <1>1, <2>2, <2>3, <3>4, <4>1, <4>2, <4>3, AppliedOrHidden
      <4> QED BY <1>2, <1>3, <1>4, <2>2, <4>4 DEF Hidden
    <3> QED BY <3>3, <3>4
  <2> QED BY <1>2, <2>5 DEF AckedOK
<1> QED BY <1>6, <1>7, <1>8, <1>9, <1>10, <1>11, <1>12 DEF IInv

(* The source journal is deleted when nothing in it is behind damage.      *)
LEMMA ReclaimKeeps ==
    ASSUME IInv, Reclaim PROVE IInv'
<1>1. /\ Shapes /\ BatchesOK /\ ContentsOK /\ PublicationOK /\ HeadsOK /\ PhaseOK
      /\ CallsOK /\ CallsOnce /\ JournalOK /\ QueuesOK /\ AckedOK
  BY DEF IInv
<1>2. /\ phase = "reclaim" /\ phase' = "resolve"
      /\ \/ /\ ~SourceReplay.stopped
            /\ journal' = [journal EXCEPT !["source"] = <<>>]
            /\ synced' = [synced EXCEPT !["source"] = 0]
         \/ journal' = journal /\ synced' = synced
      /\ publication' = publication /\ temporary' = temporary /\ content' = content
      /\ nextCreated' = nextCreated /\ startup' = startup /\ available' = available
      /\ profile' = profile /\ targets' = targets /\ accepted' = accepted
      /\ calls' = calls /\ append' = append
      /\ queue' = queue /\ batches' = batches /\ acked' = acked
  BY CandidateIs DEF Reclaim, fileVars, journalVars, compactionUnchanged, startupVars,
                     saveVars, windowVars
<1>3. /\ publication # Absent /\ startup = "pending" /\ calls = <<>> /\ append = "idle"
  BY <1>1, <1>2 DEF PhaseOK, CallsOK
<1>4. Source' = Source /\ Source.generation = "next"
  BY <1>2, <1>3, SourceStays, SourceIs
<1>5. /\ journal' \in [{"source", "next"} -> Seq(FramesOf(batches))]
      /\ synced' \in [{"source", "next"} -> Nat]
      /\ \A g \in {"source", "next"} : synced'[g] <= Len(journal'[g])
      /\ journal'["next"] = journal["next"] /\ synced'["next"] = synced["next"]
  <2>1. <<>> \in Seq(FramesOf(batches)) /\ Len(<<>>) = 0
    BY EmptySeq
  <2>2. /\ journal \in [{"source", "next"} -> Seq(FramesOf(batches))]
        /\ synced \in [{"source", "next"} -> Nat]
        /\ \A g \in {"source", "next"} : synced[g] <= Len(journal[g])
    BY <1>1 DEF Shapes
  <2>3. CASE /\ journal' = [journal EXCEPT !["source"] = <<>>]
             /\ synced' = [synced EXCEPT !["source"] = 0]
    <3>1. /\ journal'["source"] = <<>> /\ synced'["source"] = 0
          /\ journal'["next"] = journal["next"] /\ synced'["next"] = synced["next"]
      BY <2>2, <2>3
    <3>2. synced'["source"] <= Len(journal'["source"])
      BY <2>1, <3>1
    <3> QED BY <2>1, <2>2, <2>3, <3>1, <3>2
  <2>4. CASE journal' = journal /\ synced' = synced
    BY <2>2, <2>4
  <2> QED BY <1>2, <2>3, <2>4
<1>6. Frames' = Frames
  BY <1>4, <1>5 DEF Frames
<1>7. Shapes'
  BY <1>1, <1>2, <1>5 DEF Shapes
<1>8. /\ BatchesOK' /\ HeadsOK' /\ QueuesOK' /\ ContentsOK' /\ CallsOnce'
      /\ PublicationOK' /\ PhaseOK'
  BY <1>1, <1>2, <1>3, <1>5
     DEF BatchesOK, HeadsOK, QueuesOK, ContentsOK, CallsOnce, PublicationOK, PhaseOK
<1>9. CallsOK' /\ SessionOK'
  BY <1>1, <1>2, <1>3, EmptySeq DEF CallsOK, SessionOK
<1>10. JournalOK'
  BY <1>1, <1>2, <1>4, <1>6 DEF JournalOK
<1>11. AckedOK'
  <2>1. \A id : Kept(id) => Kept(id)'
    BY <1>4, <1>5, <1>6 DEF Kept
  <2>2. \A id : Published(id) => Published(id)'
    BY <1>2 DEF Published
  <2>3. ASSUME NEW id, Hidden(id) PROVE Hidden(id)'
    <3>1. journal' = journal
      BY <1>2, <2>3 DEF Hidden
    <3>2. SourceReplay' = SourceReplay
      BY <1>2, <3>1 DEF SourceReplay, Baseline
    <3> QED BY <1>2, <2>3, <3>1, <3>2 DEF Hidden
  <2> QED BY <1>1, <1>2, <2>1, <2>2, <2>3 DEF AckedOK
<1> QED BY <1>7, <1>8, <1>9, <1>10, <1>11 DEF IInv

(* The startup source is resolved again.                                   *)
LEMMA ApplyResolvesKeeps ==
    ASSUME IInv, ApplyResolves PROVE IInv'
<1>1. /\ Shapes /\ BatchesOK /\ ContentsOK /\ PublicationOK /\ PhaseOK /\ CallsOK
      /\ JournalOK /\ AckedOK
  BY DEF IInv
<1> DEFINE heads == Source.heads
<1>2. /\ phase = "resolve" /\ phase' = "idle" /\ StartWith(Resolution, heads)
      /\ available' = FALSE /\ content' = content /\ nextCreated' = nextCreated
      /\ temporary' = temporary /\ publication' = publication
      /\ journal' = journal /\ synced' = synced
      /\ calls' = calls /\ append' = append
      /\ batches' = batches /\ acked' = acked
  BY DEF ApplyResolves, journalVars, fileVars
<1>3. heads \in [Docs -> DocumentHead] /\ \A doc \in Docs : HeadOK(batches, heads[doc])
  BY <1>1, SourceOK
<1>4. /\ startup' = Resolution /\ targets' = heads /\ accepted' = {}
      /\ queue' = [doc \in Docs |-> IdleQueue(heads[doc])]
  BY <1>2 DEF StartWith
<1>5. calls = <<>> /\ append = "idle"
  BY <1>1, <1>2 DEF CallsOK, PhaseOK
<1>6. /\ Source' = Source /\ Recovered' = Recovered /\ JournalOK'
  BY <1>1, <1>2, LogStays
<1> HIDE DEF heads
<1>7. Resolution \in {"clean", "pending", "read-only"}
  BY DEF Resolution
<1>8. Shapes'
  BY <1>1, <1>2, <1>4, <1>7 DEF Shapes
<1>9. BatchesOK' /\ ContentsOK' /\ PublicationOK' /\ PhaseOK'
  BY <1>1, <1>2 DEF BatchesOK, ContentsOK, PublicationOK, PhaseOK
<1>10. HeadsOK' /\ QueuesOK'
  BY <1>2, <1>3, StartsWith
<1>11. CallsOK'
  BY <1>2, <1>5, EmptySeq DEF CallsOK
<1>12. SessionOK'
  <2>1. CASE Resolution = "clean"
    <3>1. Recovered = Unread(Source.heads)
      BY <1>1, <2>1, CleanIsEmpty
    <3>2. \A doc \in Docs : Recovered'.heads[doc] = targets'[doc]
      BY <1>4, <1>6, <3>1 DEF Unread, heads
    <3> QED BY <3>2 DEF SessionOK, OneAhead
  <2>2. CASE Resolution # "clean"
    BY <1>4, <2>2 DEF SessionOK
  <2> QED BY <2>1, <2>2
<1>13. AckedOK'
  BY <1>1, <1>2, AckedStays
<1>14. CallsOnce'
  <2>1. \A doc \in Docs : queue'[doc].failed = FALSE
    BY <1>4 DEF IdleQueue
  <2> QED BY <1>2, <1>5, <2>1, EmptySeq DEF CallsOnce, Once
<1> QED BY <1>6, <1>8, <1>9, <1>10, <1>11, <1>12, <1>13, <1>14 DEF IInv

-----------------------------------------------------------------------------
(* Every step keeps the invariant.                                         *)

(* A step that changes nothing.                                            *)
LEMMA StutterKeeps ==
    ASSUME IInv, UNCHANGED vars PROVE IInv'
<1>1. /\ Shapes /\ BatchesOK /\ ContentsOK /\ PublicationOK /\ HeadsOK /\ PhaseOK
      /\ CallsOK /\ CallsOnce /\ JournalOK /\ SessionOK /\ AckedOK /\ QueuesOK
  BY DEF IInv
<1>2. /\ journal' = journal /\ synced' = synced /\ content' = content
      /\ nextCreated' = nextCreated /\ temporary' = temporary /\ publication' = publication
      /\ startup' = startup /\ available' = available /\ profile' = profile
      /\ targets' = targets /\ accepted' = accepted /\ calls' = calls /\ append' = append
      /\ phase' = phase /\ queue' = queue /\ batches' = batches /\ acked' = acked
  BY DEF vars, journalVars, fileVars, startupVars, saveVars, windowVars
<1>3. /\ Frames' = Frames /\ Recovered' = Recovered /\ Affected' = Affected /\ JournalOK'
  BY <1>1, <1>2, LogStays
<1>4. /\ Shapes' /\ BatchesOK' /\ HeadsOK' /\ ContentsOK' /\ PublicationOK' /\ QueuesOK'
      /\ CallsOnce'
  BY <1>1, <1>2
     DEF Shapes, BatchesOK, HeadsOK, ContentsOK, PublicationOK, QueuesOK, CallsOnce
<1>5. PhaseOK' /\ SessionOK' /\ CallsOK'
  BY <1>1, <1>2, <1>3 DEF PhaseOK, SessionOK, CallsOK, First
<1>6. AckedOK'
  BY <1>1, <1>2, AckedStays
<1> QED BY <1>3, <1>4, <1>5, <1>6 DEF IInv

(* Each step of the specification.                                         *)
LEMMA NextKeeps == IInv /\ [Next]_vars => IInv'
<1> SUFFICES ASSUME IInv, [Next]_vars PROVE IInv'
  OBVIOUS
<1>1. CASE Start
  BY <1>1, StartKeeps
<1>2. CASE Crash
  BY <1>2, CrashKeeps
<1>3. CASE Reload
  BY <1>3, ReloadKeeps
<1>4. ASSUME NEW doc \in Docs, Send(doc) PROVE IInv'
  BY <1>4, SendKeeps
<1>5. ASSUME NEW doc \in Docs, Retry(doc) PROVE IInv'
  BY <1>5, RetryKeeps
<1>6. CASE Save
  BY <1>6, ExecuteKeeps, WriteFrameKeeps, WriteFailsKeeps, SyncSucceedsKeeps,
     SyncFailsKeeps DEF Save
<1>7. CASE ApplyBegins
  BY <1>7, ApplyBeginsKeeps
<1>8. CASE Apply
  BY <1>8, PrepareRevisionKeeps, RevisionSyncedKeeps, CreateNextJournalKeeps,
     WriteTemporaryKeeps, RenamePublicationKeeps, ReclaimKeeps, ApplyFailsKeeps,
     ApplyResolvesKeeps DEF Apply
<1>9. CASE UNCHANGED vars
  BY <1>9, StutterKeeps
<1> QED BY <1>1, <1>2, <1>3, <1>4, <1>5, <1>6, <1>7, <1>8, <1>9 DEF Next

-----------------------------------------------------------------------------
(* The inductive invariant holds of every state: through saves that fail,  *)
(* kills, recovery and compaction, whatever the number of documents, of    *)
(* batches, of failures and of kills.                                      *)
THEOREM InvariantHolds == Spec => []IInv
<1>1. Init => IInv
  BY InitKeeps
<1>2. IInv /\ [Next]_vars => IInv'
  BY NextKeeps
<1> QED BY <1>1, <1>2, PTL DEF Spec

(* Every variable has the shape the code gives it, in every state of every *)
(* instance.                                                               *)
THEOREM TypeCorrect == Spec => []TypeOK
<1>1. IInv => TypeOK
  BY InvariantMeans
<1> QED BY <1>1, InvariantHolds, PTL

(* A receipt means the edit survives a kill at any moment, and what a      *)
(* restart comes to is a text the author had: what SaveChangeBatch         *)
(* confirms, replay-journal.ts finds, or the compaction has published it,  *)
(* unless damage or a conflict stands before it.                           *)
THEOREM RecoveryExact == Spec => []RecoveryIsExact
<1>1. IInv => RecoveryIsExact
  BY InvariantMeans
<1> QED BY <1>1, InvariantHolds, PTL

(* The compaction of poc-journal-compaction-port.ts deletes no byte of an  *)
(* acknowledged edit that it has not published, and what it publishes is   *)
(* whole.                                                                  *)
THEOREM CompactionSafe == Spec => []CompactionIsSafe
<1>1. IInv => CompactionIsSafe
  BY InvariantMeans
<1> QED BY <1>1, InvariantHolds, PTL
=============================================================================
