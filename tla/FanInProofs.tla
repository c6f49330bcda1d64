---------------------------- MODULE FanInProofs ----------------------------
(***************************************************************************)
(* The fan-in's type correctness and its three invariants, for any number  *)
(* of peers, events, runs of the engines, losses and any queue bound that  *)
(* handshakes and heartbeats alone do not fill.                            *)
(*                                                                         *)
(* IInv follows each origin's positions from the engine to the client:     *)
(* applied, cursor, held frames, resume point, upstream and bus are in     *)
(* this order (OrderInv); an event between the client's position and the   *)
(* resume point is held, announced by something held, counted as dropped,  *)
(* or a resync is due (CoverInv); and a client that re-bases is not given  *)
(* a frame that skips one (ChainInv).  From it follow NoSilentLoss,        *)
(* AppliedInOrder and ResumeIsCovered.                                     *)
(*                                                                         *)
(* A frame is either read by the client (Takes), as it comes or from the   *)
(* queues, or held, dropped, or turned into a gap: there is a group of     *)
(* lemmas for each, and then one lemma per action.                         *)
(***************************************************************************)
EXTENDS FanIn, FiniteSetTheorems, SequenceTheorems, TLAPS

-----------------------------------------------------------------------------
(* The inductive invariant                                                 *)

\* All that is held, in the order in which it will be written.
Held == verbatim \o pending

\* Entry i of what is held is a frame of origin o.
IsFrame(i, o) == Held[i].type # "gap" /\ Held[i].o = o

\* The position of origin o in the composite cursor.
Cur(o) == Get(composite, o)

\* Position p is strictly before position q.
Before(p, q) == AtOrBehind(p, q) /\ p # q

\* The position p, if there is one, is at or behind q; and before it.
UpTo(p, q) == p = None \/ AtOrBehind(p, q)
Under(p, q) == p = None \/ Before(p, q)

\* When entries wait, and on which of the two paths they came.
FlowInv ==
    /\ \A o \in Origins : arm[o] # None =>
          arm[o].hello \in {<<>>, <<"connected">>, <<"reset", "connected">>}
    /\ link = "down" => ~ draining /\ \A o \in Origins : arm[o] = None
    /\ link = "up" =>
          /\ draining => flowing
          /\ flowing /\ ~ draining => verbatim = <<>> /\ pending = <<>> /\ dropped = {}
          /\ \A i \in 1 .. Len(verbatim) : verbatim[i].o = Local
          /\ \A i \in 1 .. Len(pending) : pending[i].type # "reset"
          /\ pending # <<>> => peerArms # {}
          /\ \A o \in Peers : arm[o] # None => o \in peerArms
    /\ HeldControls <= MaxControls

\* A map has each key once.
MapOf(m) == \A i, j \in 1 .. Len(m) : m[i].o = m[j].o => i = j

\* The client's position is what its raw cursor says, and what the composite says.
CursorInv ==
    /\ raw # None => MapOf(raw.at)
    /\ \A o \in Origins : applied[o] = IF raw = None THEN None ELSE Get(raw.at, o)
    /\ link = "up" =>
          /\ MapOf(composite)
          /\ \A o \in Peers : applied[o] \in {None, Cur(o)}
          /\ verbatim = <<>> => applied[Local] = Cur(Local)
          /\ verbatim # <<>> => Cur(Local) = verbatim[Len(verbatim)].at

\* What has been applied of an origin is behind what its engine has emitted.
AppliedOf(o) ==
    /\ UpTo(applied[o], head[o])
    /\ AtOrBehind(last[o], head[o])
    /\ applied[o] # None => AtOrBehind(last[o], applied[o])

(* Held frames of an origin ascend, events strictly; what was applied is   *)
(* behind them, the resume point and the upstream are ahead of them.       *)
FramesOf(o) ==
    \A i \in 1 .. Len(Held) : IsFrame(i, o) =>
        /\ Held[i].at.epoch = head[o].epoch
        /\ resumeAt[o] # None
        /\ AtOrBehind(Held[i].at, resumeAt[o])
        /\ UpTo(applied[o], Held[i].at)
        /\ AtOrBehind(last[o], Held[i].at)
        /\ o \in Peers => UpTo(Cur(o), Held[i].at)
        /\ Held[i].type = "event" =>
              /\ Under(applied[o], Held[i].at)
              /\ Before(last[o], Held[i].at)
              /\ o \in Peers => Under(Cur(o), Held[i].at)
        /\ \A j \in 1 .. Len(Held) : IsFrame(j, o) /\ i < j =>
              /\ AtOrBehind(Held[i].at, Held[j].at)
              /\ Held[j].type = "event" => Before(Held[i].at, Held[j].at)

\* The resume point is between what was written and what the upstream has sent.
ResumeOf(o) ==
    /\ Cur(o) # None => /\ resumeAt[o] # None
                        /\ AtOrBehind(Cur(o), resumeAt[o])
                        /\ AtOrBehind(last[o], Cur(o))
    /\ resumeAt[o] # None => /\ AtOrBehind(last[o], resumeAt[o])
                             /\ AtOrBehind(resumeAt[o], head[o])
    /\ arm[o] # None => /\ arm[o].at.epoch = head[o].epoch
                        /\ AtOrBehind(arm[o].at, head[o])
                        /\ UpTo(resumeAt[o], arm[o].at)
                        /\ AtOrBehind(last[o], arm[o].at)

OrderInv ==
    /\ \A o \in Origins : AppliedOf(o)
    /\ \A e \in unseen : AtOrBehind(e.at, head[e.o])
    /\ link = "up" => \A o \in Origins : FramesOf(o) /\ ResumeOf(o)

\* The upstream of origin o has a reset to announce.
ResetPending(o) == arm[o].hello # <<>> /\ Head(arm[o].hello) = "reset"

\* The resume point or the upstream is at event e or past it.
Reached(e) ==
    \/ resumeAt[e.o] # None /\ AtOrBehind(e.at, resumeAt[e.o])
    \/ arm[e.o] # None /\ ~ ResetPending(e.o) /\ AtOrBehind(e.at, arm[e.o].at)

\* The client has, or will be given, a position of e's origin before e.
Needs(e) ==
    \/ applied[e.o] # None
    \/ e.o \in Peers /\ Cur(e.o) # None /\ ~ AtOrBehind(e.at, Cur(e.o))
    \/ \E i \in 1 .. Len(Held) : IsFrame(i, e.o) /\ Before(Held[i].at, e.at)

IsOwn(i, e) == Held[i] = Frame("event", e.o, e.at)

\* Entry i announces a loss of origin o.
Announces(i, o) == Held[i].type \in {"gap", "reset"} /\ Held[i].o = o

\* A held frame will give the client another position of origin o.
Moves(i, o) == IsFrame(i, o) /\ Held[i].at # applied[o]

\* Something on its way will apply event e or make its loss known.
Covered(e) ==
    \/ \E i \in 1 .. Len(Held) : IsOwn(i, e) \/ Announces(i, e.o)
    \/ /\ e.o \in dropped
       /\ \/ applied[e.o] = None
          \/ e.o \notin rebase
          \/ \E i \in 1 .. Len(Held) : Moves(i, e.o)

CoverInv ==
    link = "up" => \A e \in unseen : Reached(e) /\ Needs(e) => owed \/ Covered(e)

(* The first held frame that re-bases the client does not skip an event,   *)
(* unless a loss is announced before it or by it.                          *)
ChainOf(e) ==
    \A i \in 1 .. Len(Held) :
        /\ IsFrame(i, e.o)
        /\ AtOrBehind(e.at, Held[i].at)
        /\ \A j \in 1 .. i - 1 : ~ Moves(j, e.o)
        => IsOwn(i, e) \/ \E j \in 1 .. i : Announces(j, e.o)

ChainInv ==
    link = "up" =>
        \A e \in unseen :
            e.o \in rebase /\ applied[e.o] # None => owed \/ ChainOf(e)

IInv == TypeOK /\ FlowInv /\ CursorInv /\ OrderInv /\ NoSilentLoss /\ CoverInv /\ ChainInv

-----------------------------------------------------------------------------
(* Positions, maps and what is held                                        *)

\* Positions are totally ordered.
LEMMA OrderLaws ==
    /\ \A p \in Positions : AtOrBehind(p, p)
    /\ \A p, q \in Positions : AtOrBehind(p, q) \/ AtOrBehind(q, p)
    /\ \A p, q \in Positions : AtOrBehind(p, q) /\ AtOrBehind(q, p) => p = q
    /\ \A p, q, r \in Positions : AtOrBehind(p, q) /\ AtOrBehind(q, r) => AtOrBehind(p, r)
<1> USE FanInAssumption DEF Positions, Seqs, AtOrBehind
<1>1. \A p \in Positions : AtOrBehind(p, p)
  OBVIOUS
<1>2. \A p, q \in Positions : AtOrBehind(p, q) \/ AtOrBehind(q, p)
  OBVIOUS
<1>3. \A p, q \in Positions : AtOrBehind(p, q) /\ AtOrBehind(q, p) => p = q
  OBVIOUS
<1>4. \A p, q, r \in Positions : AtOrBehind(p, q) /\ AtOrBehind(q, r) => AtOrBehind(p, r)
  OBVIOUS
<1> QED
  BY <1>1, <1>2, <1>3, <1>4

\* The position after p is the next one.
LEMMA NextPosition ==
    ASSUME NEW p \in Positions, NEW q \in Positions, p.epoch = q.epoch, p.seq < q.seq
    PROVE  /\ [p EXCEPT !.seq = @ + 1] \in Positions
           /\ [p EXCEPT !.seq = @ + 1].epoch = p.epoch
           /\ Before(p, [p EXCEPT !.seq = @ + 1])
           /\ AtOrBehind([p EXCEPT !.seq = @ + 1], q)
           /\ \A r \in Positions : AtOrBehind(r, [p EXCEPT !.seq = @ + 1]) =>
                 AtOrBehind(r, p) \/ r = [p EXCEPT !.seq = @ + 1]
<1> USE FanInAssumption DEF Positions, Seqs, AtOrBehind, Before
<1> DEFINE n == [p EXCEPT !.seq = @ + 1]
<1>1. n = [epoch |-> p.epoch, seq |-> p.seq + 1]
  OBVIOUS
<1>2. n \in Positions
  BY <1>1
<1>3. n.epoch = p.epoch /\ n.seq = p.seq + 1
  BY <1>1
<1> HIDE DEF n
<1>4. Before(p, n) /\ AtOrBehind(n, q)
  BY <1>3
<1>5. ASSUME NEW r \in Positions, AtOrBehind(r, n), ~ AtOrBehind(r, p)
      PROVE  r = n
  <2>1. r.epoch = n.epoch /\ r.seq = n.seq
    BY <1>3, <1>5
  <2>2. QED
    BY <1>2, <2>1
<1> QED
  BY <1>2, <1>3, <1>4, <1>5 DEF n

\* The value of a key that a map has.
LEMMA GetIs ==
    ASSUME NEW m \in Seq(Events), MapOf(m), NEW i \in 1 .. Len(m)
    PROVE  Get(m, m[i].o) = m[i].at
<1> DEFINE S == {m[j] : j \in 1 .. Len(m)}
           e == CHOOSE d \in S : d.o = m[i].o
<1>1. m[i].o \in Keys(m)
  BY DEF Keys
<1>2. e \in S /\ e.o = m[i].o
  <2>1. m[i] \in S
    OBVIOUS
  <2>2. QED
    BY <2>1
<1>3. PICK j \in 1 .. Len(m) : e = m[j]
  BY <1>2
<1>4. j = i
  BY <1>2, <1>3 DEF MapOf
<1>5. Get(m, m[i].o) = e.at
  BY <1>1 DEF Get
<1>6. QED
  BY <1>3, <1>4, <1>5

\* A map has a position for each of its keys, and none for the others.
LEMMA GetType ==
    ASSUME NEW m \in Seq(Events), MapOf(m), NEW o
    PROVE  /\ o \in Keys(m) => Get(m, o) \in Positions /\ Get(m, o) # None
           /\ o \notin Keys(m) => Get(m, o) = None
           /\ Keys(m) \subseteq Origins
<1>1. \A i \in 1 .. Len(m) : m[i] \in Events
  OBVIOUS
<1>2. ASSUME o \in Keys(m) PROVE Get(m, o) \in Positions
  <2>1. PICK i \in 1 .. Len(m) : o = m[i].o
    BY <1>2 DEF Keys
  <2>2. QED
    BY <1>1, <2>1, GetIs DEF Events
<1>3. o \notin Keys(m) => Get(m, o) = None
  BY DEF Get
<1>4. Keys(m) \subseteq Origins
  BY <1>1 DEF Keys, Events
<1>5. QED
  BY <1>2, <1>3, <1>4, NoneAssumption

\* A put sets one key and leaves the others.
LEMMA PutIs ==
    ASSUME NEW m \in Seq(Events), MapOf(m), NEW o \in Origins, NEW p \in Positions
    PROVE  /\ Put(m, o, p) \in Seq(Events)
           /\ MapOf(Put(m, o, p))
           /\ Keys(Put(m, o, p)) = Keys(m) \cup {o}
           /\ Get(Put(m, o, p), o) = p
           /\ \A k : k # o => Get(Put(m, o, p), k) = Get(m, k)
<1> DEFINE n == Put(m, o, p)
           e == [o |-> o, at |-> p]
<1>1. e \in Events
  BY DEF Events
<1>2. \A i \in 1 .. Len(m) : m[i] \in Events
  OBVIOUS
<1>3. CASE o \in Keys(m)
  <2>1. n = [i \in 1 .. Len(m) |-> IF m[i].o = o THEN e ELSE m[i]]
    BY <1>3 DEF Put
  <2>2. n \in Seq(Events) /\ Len(n) = Len(m)
    BY <1>1, <1>2, <2>1
  <2>3. \A i \in 1 .. Len(m) : n[i] = IF m[i].o = o THEN e ELSE m[i]
    BY <2>1
  <2> HIDE DEF n
  <2>4. \A i \in 1 .. Len(m) : n[i].o = m[i].o
    BY <2>3
  <2>5. MapOf(n)
    BY <2>2, <2>4 DEF MapOf
  <2>6. Keys(n) = Keys(m)
    BY <2>2, <2>4 DEF Keys
  <2>7. PICK i \in 1 .. Len(m) : m[i].o = o
    BY <1>3 DEF Keys
  <2>8. Get(n, o) = p
    <3>1. i \in 1 .. Len(n) /\ n[i].o = o /\ n[i].at = p
      BY <2>2, <2>3, <2>7
    <3>2. QED
      BY <2>2, <2>5, <3>1, GetIs
  <2>9. ASSUME NEW k, k # o PROVE Get(n, k) = Get(m, k)
    <3>1. CASE k \in Keys(m)
      <4>1. PICK j \in 1 .. Len(m) : m[j].o = k
        BY <3>1 DEF Keys
      <4>2. j \in 1 .. Len(n) /\ n[j] = m[j]
        BY <2>2, <2>3, <2>9, <4>1
      <4>3. Get(m, k) = m[j].at
        BY <4>1, GetIs
      <4>4. Get(n, k) = n[j].at
        BY <2>2, <2>5, <4>1, <4>2, GetIs
      <4>5. QED
        BY <4>2, <4>3, <4>4
    <3>2. CASE k \notin Keys(m)
      BY <2>6, <3>2 DEF Get
    <3>3. QED
      BY <3>1, <3>2
  <2>10. Keys(m) = Keys(m) \cup {o}
    BY <1>3
  <2>11. QED
    BY <2>2, <2>5, <2>6, <2>8, <2>9, <2>10 DEF n
<1>4. CASE o \notin Keys(m)
  <2>1. n = Append(m, e)
    BY <1>4 DEF Put
  <2>2. n \in Seq(Events) /\ Len(n) = Len(m) + 1 /\ n[Len(m) + 1] = e
    BY <1>1, <2>1
  <2>3. \A i \in 1 .. Len(m) : n[i] = m[i]
    BY <2>1
  <2>4. \A i \in 1 .. Len(m) : m[i].o # o
    BY <1>4 DEF Keys
  <2> HIDE DEF n
  <2>5. MapOf(n)
    <3> SUFFICES ASSUME NEW i \in 1 .. Len(n), NEW j \in 1 .. Len(n), n[i].o = n[j].o
                 PROVE  i = j
      BY DEF MapOf
    <3>1. CASE i \in 1 .. Len(m) /\ j \in 1 .. Len(m)
      BY <2>3, <3>1 DEF MapOf
    <3>2. CASE i = Len(m) + 1 /\ j \in 1 .. Len(m)
      BY <2>2, <2>3, <2>4, <3>2
    <3>3. CASE j = Len(m) + 1 /\ i \in 1 .. Len(m)
      BY <2>2, <2>3, <2>4, <3>3
    <3>4. CASE j = Len(m) + 1 /\ i = Len(m) + 1
      BY <3>4
    <3>5. QED
      BY <2>2, <3>1, <3>2, <3>3, <3>4
  <2>6. Keys(n) = Keys(m) \cup {o}
    <3>1. \A k : k \in Keys(n) <=> \E i \in 1 .. Len(n) : n[i].o = k
      BY DEF Keys
    <3>2. \A k : k \in Keys(m) <=> \E i \in 1 .. Len(m) : m[i].o = k
      BY DEF Keys
    <3>3. Len(m) \in Nat
      OBVIOUS
    <3>4. 1 .. Len(n) = 1 .. Len(m) \cup {Len(m) + 1}
      BY <2>2, <3>3
    <3>5. \A k : k \in Keys(n) <=> (k \in Keys(m) \/ k = o)
      BY <2>2, <2>3, <3>1, <3>2, <3>4
    <3>6. QED
      BY <3>5
  <2>7. Get(n, o) = p
    <3>1. Len(m) + 1 \in 1 .. Len(n) /\ n[Len(m) + 1].o = o /\ n[Len(m) + 1].at = p
      BY <2>2
    <3>2. QED
      BY <2>2, <2>5, <3>1, GetIs
  <2>8. ASSUME NEW k, k # o PROVE Get(n, k) = Get(m, k)
    <3>1. CASE k \in Keys(m)
      <4>1. PICK j \in 1 .. Len(m) : m[j].o = k
        BY <3>1 DEF Keys
      <4>2. j \in 1 .. Len(n) /\ n[j] = m[j]
        BY <2>2, <2>3, <4>1
      <4>3. Get(m, k) = m[j].at
        BY <4>1, GetIs
      <4>4. Get(n, k) = n[j].at
        BY <2>2, <2>5, <4>1, <4>2, GetIs
      <4>5. QED
        BY <4>2, <4>3, <4>4
    <3>2. CASE k \notin Keys(m)
      BY <2>6, <2>8, <3>2 DEF Get
    <3>3. QED
      BY <3>1, <3>2
  <2>9. QED
    BY <2>2, <2>5, <2>6, <2>7, <2>8 DEF n
<1>5. QED
  BY <1>3, <1>4

\* What may be held.
Entries == DataFrames \cup Gaps

\* The two queues are read as one.
LEMMA JoinedQueues ==
    ASSUME NEW v \in Seq(DataFrames), NEW q \in Seq(Entries)
    PROVE  /\ v \o q \in Seq(Entries)
           /\ Len(v \o q) = Len(v) + Len(q)
           /\ \A i \in 1 .. Len(v) : (v \o q)[i] = v[i]
           /\ \A i \in 1 .. Len(q) : (v \o q)[Len(v) + i] = q[i]
<1>1. v \in Seq(Entries)
  BY DEF Entries
<1>2. v \o q \in Seq(Entries) /\ Len(v \o q) = Len(v) + Len(q)
  BY <1>1, ConcatProperties
<1>3. \A i \in 1 .. Len(v) + Len(q) :
         (v \o q)[i] = IF i <= Len(v) THEN v[i] ELSE q[i - Len(v)]
  BY <1>1, ConcatProperties
<1>4. Len(v) \in Nat /\ Len(q) \in Nat
  OBVIOUS
<1>5. \A i \in 1 .. Len(v) : (v \o q)[i] = v[i]
  BY <1>3, <1>4
<1>6. \A i \in 1 .. Len(q) : (v \o q)[Len(v) + i] = q[i]
  <2> TAKE i \in 1 .. Len(q)
  <2>1. /\ Len(v) + i \in 1 .. Len(v) + Len(q)
        /\ ~ (Len(v) + i <= Len(v))
        /\ (Len(v) + i) - Len(v) = i
    BY <1>4
  <2>2. QED
    BY <1>3, <2>1
<1>7. QED
  BY <1>2, <1>5, <1>6

\* Entry x is held behind all others.
Grows(x) ==
    /\ Len(Held') = Len(Held) + 1
    /\ Held'[Len(Held) + 1] = x
    /\ \A i \in 1 .. Len(Held) : Held'[i] = Held[i]

\* The first entry is let go.
Shrinks ==
    /\ Len(Held') \in Nat
    /\ Len(Held) = Len(Held') + 1
    /\ \A i \in 1 .. Len(Held') : Held'[i] = Held[i + 1]

\* A frame held on the verbatim path, an entry held in the pending stream.
LEMMA HoldGrows ==
    ASSUME TypeOK, NEW x \in Entries,
           \/ /\ x \in DataFrames /\ verbatim' = Append(verbatim, x)
              /\ pending = <<>> /\ pending' = pending
           \/ pending' = Append(pending, x) /\ verbatim' = verbatim
    PROVE  Grows(x)
<1>1. verbatim \in Seq(DataFrames) /\ pending \in Seq(Entries)
  BY DEF TypeOK, Entries
<1>2. Len(verbatim) \in Nat /\ Len(pending) \in Nat
  BY <1>1
<1>3. CASE /\ x \in DataFrames /\ verbatim' = Append(verbatim, x)
           /\ pending = <<>> /\ pending' = pending
  <2>1. /\ verbatim' \in Seq(DataFrames)
        /\ Len(verbatim') = Len(verbatim) + 1
        /\ verbatim'[Len(verbatim) + 1] = x
        /\ \A i \in 1 .. Len(verbatim) : verbatim'[i] = verbatim[i]
    BY <1>1, <1>3
  <2>2. pending' = pending /\ Len(pending) = 0
    BY <1>3
  <2>3. /\ Len(Held) = Len(verbatim)
        /\ \A i \in 1 .. Len(verbatim) : Held[i] = verbatim[i]
    BY <1>1, <1>2, <2>2, JoinedQueues DEF Held
  <2>4. /\ Len(Held') = Len(verbatim')
        /\ \A i \in 1 .. Len(verbatim') : Held'[i] = verbatim'[i]
    BY <1>1, <1>2, <2>1, <2>2, JoinedQueues DEF Held
  <2>5. QED
    BY <1>2, <2>1, <2>3, <2>4 DEF Grows
<1>4. CASE pending' = Append(pending, x) /\ verbatim' = verbatim
  <2>1. /\ pending' \in Seq(Entries)
        /\ Len(pending') = Len(pending) + 1
        /\ pending'[Len(pending) + 1] = x
        /\ \A i \in 1 .. Len(pending) : pending'[i] = pending[i]
    BY <1>1, <1>4
  <2>2. /\ Len(Held) = Len(verbatim) + Len(pending)
        /\ \A i \in 1 .. Len(verbatim) : Held[i] = verbatim[i]
        /\ \A i \in 1 .. Len(pending) : Held[Len(verbatim) + i] = pending[i]
    BY <1>1, JoinedQueues DEF Held
  <2>3. /\ Len(Held') = Len(verbatim) + Len(pending')
        /\ \A i \in 1 .. Len(verbatim) : Held'[i] = verbatim[i]
        /\ \A i \in 1 .. Len(pending') : Held'[Len(verbatim) + i] = pending'[i]
    BY <1>1, <1>4, <2>1, JoinedQueues DEF Held
  <2>4. Held'[Len(Held) + 1] = x
    <3>1. Len(verbatim) + (Len(pending) + 1) = Len(Held) + 1
      BY <1>2, <2>2
    <3>2. Len(pending) + 1 \in 1 .. Len(pending')
      BY <1>2, <2>1
    <3>3. QED
      BY <2>1, <2>3, <3>1, <3>2
  <2>5. ASSUME NEW i \in 1 .. Len(Held) PROVE Held'[i] = Held[i]
    <3>1. CASE i <= Len(verbatim)
      BY <1>2, <2>2, <2>3, <3>1
    <3>2. CASE i > Len(verbatim)
      <4>1. PICK k \in 1 .. Len(pending) : i = Len(verbatim) + k
        <5>1. i - Len(verbatim) \in 1 .. Len(pending) /\ i = Len(verbatim) + (i - Len(verbatim))
          BY <1>2, <2>2, <3>2
        <5>2. QED
          BY <5>1
      <4>2. k \in 1 .. Len(pending')
        BY <1>2, <2>1, <4>1
      <4>3. QED
        BY <2>1, <2>2, <2>3, <4>1, <4>2
    <3>3. QED
      BY <1>2, <2>2, <3>1, <3>2
  <2>6. Len(Held') = Len(Held) + 1
    BY <1>2, <2>1, <2>2, <2>3
  <2>7. QED
    BY <2>4, <2>5, <2>6 DEF Grows
<1>5. QED
  BY <1>3, <1>4

\* resume() takes the first entry of the verbatim buffer, then of the pending stream.
LEMMA HeldShrinks ==
    ASSUME TypeOK,
           \/ verbatim # <<>> /\ verbatim' = Tail(verbatim) /\ pending' = pending
           \/ /\ verbatim = <<>> /\ verbatim' = verbatim
              /\ pending # <<>> /\ pending' = Tail(pending)
    PROVE  /\ Shrinks
           /\ 1 \in 1 .. Len(Held)
           /\ Held[1] = IF verbatim # <<>> THEN Head(verbatim) ELSE Head(pending)
<1>1. verbatim \in Seq(DataFrames) /\ pending \in Seq(Entries)
  BY DEF TypeOK, Entries
<1>2. Len(verbatim) \in Nat /\ Len(pending) \in Nat
  BY <1>1
<1>3. /\ Len(Held) = Len(verbatim) + Len(pending)
      /\ \A i \in 1 .. Len(verbatim) : Held[i] = verbatim[i]
      /\ \A i \in 1 .. Len(pending) : Held[Len(verbatim) + i] = pending[i]
  BY <1>1, JoinedQueues DEF Held
<1>4. CASE verbatim # <<>> /\ verbatim' = Tail(verbatim) /\ pending' = pending
  <2>1. /\ verbatim' \in Seq(DataFrames)
        /\ Len(verbatim) = Len(verbatim') + 1
        /\ \A i \in 1 .. Len(verbatim') : verbatim'[i] = verbatim[i + 1]
        /\ Head(verbatim) = verbatim[1]
    BY <1>1, <1>4
  <2>2. /\ Len(Held') = Len(verbatim') + Len(pending)
        /\ \A i \in 1 .. Len(verbatim') : Held'[i] = verbatim'[i]
        /\ \A i \in 1 .. Len(pending) : Held'[Len(verbatim') + i] = pending[i]
    BY <1>1, <1>4, <2>1, JoinedQueues DEF Held
  <2>3. Len(verbatim') \in Nat
    BY <2>1
  <2>4. Len(Held) = Len(Held') + 1 /\ 1 \in 1 .. Len(Held) /\ 1 \in 1 .. Len(verbatim)
    BY <1>2, <1>3, <2>1, <2>2, <2>3
  <2>5. ASSUME NEW i \in 1 .. Len(Held') PROVE Held'[i] = Held[i + 1]
    <3>1. CASE i <= Len(verbatim')
      <4>1. i \in 1 .. Len(verbatim') /\ i + 1 \in 1 .. Len(verbatim)
        BY <2>1, <2>3, <3>1
      <4>2. QED
        BY <1>3, <2>1, <2>2, <4>1
    <3>2. CASE i > Len(verbatim')
      <4>1. PICK k \in 1 .. Len(pending) : i = Len(verbatim') + k
        <5>1. /\ i - Len(verbatim') \in 1 .. Len(pending)
              /\ i = Len(verbatim') + (i - Len(verbatim'))
          BY <1>2, <2>2, <2>3, <3>2
        <5>2. QED
          BY <5>1
      <4>2. i + 1 = Len(verbatim) + k
        BY <1>2, <2>1, <2>3, <4>1
      <4>3. QED
        BY <1>3, <2>2, <4>1, <4>2
    <3>3. QED
      BY <2>3, <3>1, <3>2
  <2>6. Held[1] = Head(verbatim)
    BY <1>3, <2>1, <2>4
  <2>7. Len(Held') \in Nat
    BY <1>2, <2>2, <2>3
  <2>8. QED
    BY <1>4, <2>4, <2>5, <2>6, <2>7 DEF Shrinks
<1>5. CASE /\ verbatim = <<>> /\ verbatim' = verbatim
           /\ pending # <<>> /\ pending' = Tail(pending)
  <2>1. /\ pending' \in Seq(Entries)
        /\ Len(pending) = Len(pending') + 1
        /\ \A i \in 1 .. Len(pending') : pending'[i] = pending[i + 1]
        /\ Head(pending) = pending[1]
    BY <1>1, <1>5
  <2>2. Len(verbatim) = 0 /\ Len(pending') \in Nat
    BY <1>5, <2>1
  <2>3. /\ Len(Held') = Len(verbatim) + Len(pending')
        /\ \A i \in 1 .. Len(pending') : Held'[Len(verbatim) + i] = pending'[i]
    BY <1>1, <1>5, <2>1, JoinedQueues DEF Held
  <2>4. /\ Len(Held) = Len(pending) /\ \A i \in 1 .. Len(pending) : Held[i] = pending[i]
    BY <1>2, <1>3, <2>2
  <2>5. /\ Len(Held') = Len(pending') /\ \A i \in 1 .. Len(pending') : Held'[i] = pending'[i]
    BY <2>2, <2>3
  <2>6. 1 \in 1 .. Len(Held) /\ \A i \in 1 .. Len(pending') : i + 1 \in 1 .. Len(pending)
    BY <1>2, <2>1, <2>2, <2>4
  <2>7. QED
    BY <1>5, <2>1, <2>2, <2>4, <2>5, <2>6 DEF Shrinks
<1>6. QED
  BY <1>4, <1>5

-----------------------------------------------------------------------------
(* Type correctness                                                        *)

ClientOK ==
    /\ raw = None \/ raw \in Ids
    /\ applied \in [Origins -> Positions \cup {None}]
    /\ rebase \subseteq Origins
    /\ owed \in BOOLEAN
    /\ unseen \subseteq Events
    /\ last \in [Origins -> Positions]

CursorOK ==
    /\ composite \in Seq(Events)
    /\ delivered \subseteq Origins
    /\ resumeAt \in [Origins -> Positions \cup {None}]
    /\ resuming \subseteq Origins

QueueOK ==
    /\ flowing \in BOOLEAN
    /\ pending \in Seq(DataFrames \cup Gaps)
    /\ verbatim \in Seq(DataFrames)
    /\ dropped \subseteq Origins

RestOK ==
    /\ head \in [Origins -> Positions]
    /\ floor \in [Origins -> Seqs]
    /\ arm \in [Origins -> Arms \cup {None}]
    /\ peerArms \subseteq Peers
    /\ draining \in BOOLEAN
    /\ link \in {"up", "down"}
    /\ breaks \in 0 .. MaxBreaks

LEMMA TypeOKIs == TypeOK <=> ClientOK /\ CursorOK /\ QueueOK /\ RestOK
  BY DEF TypeOK, ClientOK, CursorOK, QueueOK, RestOK

\* A put gives a map, a get a position or nothing.
LEMMA MapTypes ==
    ASSUME NEW m \in Seq(Events)
    PROVE  /\ \A o \in Origins, p \in Positions : Put(m, o, p) \in Seq(Events)
           /\ \A o : Get(m, o) \in Positions \cup {None}
           /\ \A o \in Keys(m) : Get(m, o) \in Positions
<1>1. \A i \in 1 .. Len(m) : m[i] \in Events
  OBVIOUS
<1>2. ASSUME NEW o \in Origins, NEW p \in Positions
      PROVE  Put(m, o, p) \in Seq(Events)
  <2>1. [o |-> o, at |-> p] \in Events
    BY DEF Events
  <2>2. QED
    BY <1>1, <2>1 DEF Put
<1>3. ASSUME NEW o \in Keys(m) PROVE Get(m, o) \in Positions
  <2> DEFINE S == {m[i] : i \in 1 .. Len(m)}
             e == CHOOSE d \in S : d.o = o
  <2>1. e \in S
    <3>1. \E d \in S : d.o = o
      BY DEF Keys
    <3>2. QED
      BY <3>1
  <2>2. e.at \in Positions
    BY <1>1, <2>1 DEF Events
  <2>3. Get(m, o) = e.at
    BY DEF Get
  <2>4. QED
    BY <2>2, <2>3
<1>4. \A o : Get(m, o) \in Positions \cup {None}
  BY <1>3 DEF Get
<1>5. QED
  BY <1>2, <1>3, <1>4

\* The client reads a frame.
LEMMA ReceiveTypes ==
    ASSUME ClientOK, NEW f \in DataFrames, NEW id \in Ids, Receive(f, id)
    PROVE  ClientOK'
<1>1. CASE UNCHANGED clientVars
  BY <1>1 DEF ClientOK, clientVars
<1>2. CASE /\ raw' = id
           /\ applied' = Advance(id)
           /\ rebase' = rebase \ Changed(id)
           /\ owed' = (owed \/ f.type = "reset" \/ \E o \in Changed(id) : Hole(f, id, o))
           /\ IF f.type = "event"
              THEN /\ unseen' = (unseen \ Skipped(id)) \ {[o |-> f.o, at |-> f.at]}
                   /\ last' = [last EXCEPT ![f.o] = f.at]
              ELSE /\ unseen' = unseen \ Skipped(id)
                   /\ UNCHANGED last
  <2>1. id.at \in Seq(Events)
    BY DEF Ids
  <2>2. applied' \in [Origins -> Positions \cup {None}]
    BY <1>2, <2>1, MapTypes DEF ClientOK, Advance
  <2>3. f.o \in Origins /\ f.at \in Positions
    BY DEF DataFrames
  <2>4. last' \in [Origins -> Positions] /\ unseen' \subseteq Events
    BY <1>2, <2>3 DEF ClientOK
  <2>5. owed' \in BOOLEAN
    BY <1>2
  <2>6. QED
    BY <1>2, <2>2, <2>4, <2>5 DEF ClientOK
<1>3. QED
  BY <1>1, <1>2 DEF Receive

\* The client reads a gap.
LEMMA GapTypes ==
    ASSUME ClientOK, NEW os \in SUBSET Origins, ReceiveGap(os)
    PROVE  ClientOK'
  BY DEF ClientOK, ReceiveGap

\* Every id is one.
LEMMA IdTypes ==
    ASSUME NEW m \in Seq(Events), NEW p \in Positions
    PROVE  CompositeId(m) \in Ids /\ BareId(p) \in Ids
<1>1. <<[o |-> Local, at |-> p]>> \in Seq(Events)
  BY DEF Events, Origins
<1>2. QED
  BY <1>1 DEF Ids, CompositeId, BareId

\* A frame is written to the listener.
LEMMA DeliverTypes ==
    ASSUME ClientOK, CursorOK, NEW f \in DataFrames, Deliver(f)
    PROVE  /\ ClientOK'
           /\ composite' \in Seq(Events)
           /\ resumeAt' \in [Origins -> Positions \cup {None}]
           /\ flowing' \in BOOLEAN
<1>1. f.o \in Origins /\ f.at \in Positions
  BY DEF DataFrames
<1>2. composite' \in Seq(Events)
  BY <1>1, MapTypes DEF CursorOK, Deliver
<1>3. ClientOK'
  BY <1>1, <1>2, IdTypes, ReceiveTypes DEF Deliver
<1>4. resumeAt' \in [Origins -> Positions \cup {None}]
  BY <1>1 DEF CursorOK, Deliver, AdvanceResume
<1>5. QED
  BY <1>2, <1>3, <1>4 DEF Deliver, Sink

\* One frame of an arm.
LEMMA IngestTypes ==
    ASSUME TypeOK, NEW f \in DataFrames, Ingest(f)
    PROVE  ClientOK' /\ CursorOK' /\ QueueOK'
<1>1. f.o \in Origins /\ f.at \in Positions /\ Local \in Origins
  BY DEF DataFrames, Origins
<1>2. ClientOK /\ CursorOK /\ QueueOK
  BY TypeOKIs
<1>3. delivered' \subseteq Origins /\ resuming' \subseteq Origins
  BY <1>1, <1>2 DEF Ingest, CursorOK
<1>4. \A o \in Origins : AdvanceResume(o, f.at) => resumeAt' \in [Origins -> Positions \cup {None}]
  BY <1>1, <1>2 DEF AdvanceResume, CursorOK
<1>5. UNCHANGED clientVars => ClientOK'
  BY <1>2 DEF ClientOK, clientVars
<1>6. CASE IngestVerbatim(f)
  <2>1. composite' \in Seq(Events)
    BY <1>1, <1>2, <1>6, MapTypes DEF IngestVerbatim, CursorOK
  <2>2. CASE flowing /\ Receive(f, BareId(f.at)) /\ Sink /\ UNCHANGED verbatim
    <3>1. <<>> \in Seq(Events)
      OBVIOUS
    <3>2. ClientOK'
      BY <1>1, <1>2, <2>2, <3>1, IdTypes, ReceiveTypes
    <3>3. QED
      BY <1>1, <1>2, <1>3, <1>4, <1>6, <2>1, <2>2, <3>2
         DEF IngestVerbatim, CursorOK, QueueOK, Sink
  <2>3. CASE ~ flowing /\ verbatim' = Append(verbatim, f) /\ UNCHANGED <<flowing, clientVars>>
    BY <1>1, <1>2, <1>3, <1>4, <1>5, <1>6, <2>1, <2>3 DEF IngestVerbatim, CursorOK, QueueOK
  <2>4. QED
    BY <1>6, <2>2, <2>3 DEF IngestVerbatim
<1>7. CASE IngestComposite(f)
  <2>1. CASE /\ AdvanceResume(f.o, f.at)
             /\ UNCHANGED <<composite, pending, verbatim, dropped, flowing, clientVars>>
    BY <1>1, <1>2, <1>3, <1>4, <1>5, <2>1 DEF CursorOK, QueueOK
  <2>2. CASE /\ AdvanceResume(f.o, f.at)
             /\ WriteGap(f.o)
             /\ UNCHANGED <<composite, verbatim, dropped>>
    <3>1. CASE flowing /\ ReceiveGap({f.o}) /\ Sink /\ UNCHANGED pending
      BY <1>1, <1>2, <1>3, <1>4, <2>2, <3>1, GapTypes DEF CursorOK, QueueOK, Sink
    <3>2. CASE /\ pending' = Append(pending, [type |-> "gap", o |-> f.o])
               /\ UNCHANGED <<flowing, clientVars>>
      <4>1. [type |-> "gap", o |-> f.o] \in DataFrames \cup Gaps
        BY <1>1 DEF Gaps
      <4>2. QED
        BY <1>1, <1>2, <1>3, <1>4, <1>5, <2>2, <3>2, <4>1 DEF CursorOK, QueueOK
    <3>3. QED
      BY <2>2, <3>1, <3>2 DEF WriteGap
  <2>3. CASE Deliver(f) /\ UNCHANGED <<pending, dropped, verbatim>>
    BY <1>2, <1>3, <2>3, DeliverTypes DEF CursorOK, QueueOK
  <2>4. CASE Enqueue(f) /\ UNCHANGED verbatim
    <3>1. CASE dropped' = dropped \cup {f.o} /\ UNCHANGED <<pending, resumeAt>>
      BY <1>1, <1>2, <1>3, <1>5, <2>4, <3>1 DEF CursorOK, QueueOK, Enqueue
    <3>2. CASE pending' = Append(pending, f) /\ AdvanceResume(f.o, f.at) /\ UNCHANGED dropped
      BY <1>1, <1>2, <1>3, <1>4, <1>5, <2>4, <3>2 DEF CursorOK, QueueOK, Enqueue
    <3>3. QED
      BY <2>4, <3>1, <3>2 DEF Enqueue
  <2>5. QED
    BY <1>7, <2>1, <2>2, <2>3, <2>4 DEF IngestComposite
<1>8. QED
  BY <1>6, <1>7 DEF Ingest

\* An upstream that has been opened.
LEMMA OpenedTypes ==
    ASSUME TypeOK, NEW o \in Origins, NEW p \in Positions \cup {None}
    PROVE  Opened(o, p) \in Arms
<1>1. head[o] \in Positions
  BY DEF TypeOK
<1>2. <<"connected">> \in Seq({"connected", "reset"})
  OBVIOUS
<1>3. <<"reset", "connected">> \in Seq({"connected", "reset"})
  OBVIOUS
<1>4. CASE p = None
  BY <1>1, <1>2, <1>4 DEF Opened, Arms
<1>5. CASE p # None /\ p.epoch = head[o].epoch /\ p.seq <= head[o].seq /\ p.seq >= floor[o]
  BY <1>2, <1>5 DEF Opened, Arms
<1>6. CASE p # None /\ ~ (p.epoch = head[o].epoch /\ p.seq <= head[o].seq /\ p.seq >= floor[o])
  BY <1>1, <1>3, <1>6 DEF Opened, Arms
<1>7. QED
  BY <1>4, <1>5, <1>6

LEMMA InitTypes == Init => TypeOK
<1> USE FanInAssumption
<1>1. Zero \in Positions /\ 0 \in Seqs
  BY DEF Zero, Positions, Seqs
<1>2. <<>> \in Seq(Events) /\ <<>> \in Seq(DataFrames \cup Gaps) /\ <<>> \in Seq(DataFrames)
  OBVIOUS
<1>3. Init => ClientOK
  BY <1>1 DEF Init, ClientOK
<1>6. 0 \in 0 .. MaxBreaks /\ {} \subseteq Peers
  OBVIOUS
<1>7. Init => RestOK
  BY <1>1, <1>6 DEF Init, RestOK
<1>4. Init => CursorOK /\ QueueOK
  BY <1>1, <1>2 DEF Init, CursorOK, QueueOK
<1>5. QED
  BY <1>3, <1>4, <1>7, TypeOKIs

\* Every step keeps the types.
LEMMA NextTypes == TypeOK /\ [Next]_vars => TypeOK'
<1> SUFFICES ASSUME TypeOK, [Next]_vars PROVE TypeOK'
  OBVIOUS
<1>0. ClientOK /\ CursorOK /\ QueueOK /\ RestOK /\ Local \in Origins
  BY TypeOKIs DEF Origins
<1>a. \A f : f \in DataFrames /\ Ingest(f) => ClientOK' /\ CursorOK' /\ QueueOK'
  BY IngestTypes
<1>b. ClientOK' /\ CursorOK' /\ QueueOK' /\ RestOK' => TypeOK'
  BY DEF TypeOK, ClientOK, CursorOK, QueueOK, RestOK
<1>c. UNCHANGED clientVars => ClientOK'
  BY <1>0 DEF ClientOK, clientVars
<1>d. UNCHANGED cursorVars => CursorOK'
  BY <1>0 DEF CursorOK, cursorVars
<1>e. UNCHANGED <<flowing, pending, verbatim, dropped>> => QueueOK'
  BY <1>0 DEF QueueOK
<1>1. ASSUME NEW o \in Origins, PumpHello(o) PROVE TypeOK'
  <2>1. arm[o] \in Arms /\ arm[o].hello # <<>>
    BY <1>0, <1>1 DEF PumpHello, CanPump, RestOK
  <2>2. /\ arm[o].hello \in Seq({"connected", "reset"})
        /\ arm[o].at \in Positions
    BY <2>1 DEF Arms
  <2>3. Head(arm[o].hello) \in {"connected", "reset"} /\ Tail(arm[o].hello) \in Seq({"connected", "reset"})
    BY <2>1, <2>2
  <2>4. Frame(Head(arm[o].hello), o, arm[o].at) \in DataFrames
    BY <2>2, <2>3 DEF Frame, DataFrames, ControlTypes
  <2>5. arm' = [arm EXCEPT ![o].hello = Tail(@)]
    BY <1>1 DEF PumpHello
  <2>6. arm' \in [Origins -> Arms \cup {None}]
    <3>1. [arm[o] EXCEPT !.hello = Tail(@)] \in Arms
      BY <2>1, <2>2, <2>3 DEF Arms
    <3>2. QED
      BY <1>0, <2>5, <3>1 DEF RestOK
  <2>7. RestOK'
    BY <1>0, <1>1, <2>6 DEF PumpHello, RestOK, engineVars
  <2>8. QED
    BY <1>1, <1>a, <1>b, <2>4, <2>7 DEF PumpHello
<1>2. ASSUME NEW o \in Origins, PumpEvent(o) PROVE TypeOK'
  <2> DEFINE p == [arm[o].at EXCEPT !.seq = @ + 1]
  <2>1. arm[o] \in Arms /\ head[o] \in Positions
    BY <1>0, <1>2 DEF PumpEvent, CanPump, RestOK
  <2>2. p \in Positions
    <3>1. /\ arm[o].at \in [epoch : 0 .. MaxEpoch, seq : Seqs] /\ head[o].seq \in Seqs
          /\ arm[o].at.seq < head[o].seq
      BY <1>2, <2>1 DEF PumpEvent, Arms, Positions
    <3>2. arm[o].at.seq + 1 \in Seqs
      BY <3>1, FanInAssumption DEF Seqs
    <3>3. QED
      BY <3>1, <3>2 DEF Positions
  <2>3. Frame("event", o, p) \in DataFrames
    BY <2>2 DEF Frame, DataFrames
  <2>4. arm' = [arm EXCEPT ![o].at = p]
    BY <1>2 DEF PumpEvent
  <2> HIDE DEF p
  <2>5. arm' \in [Origins -> Arms \cup {None}]
    BY <1>0, <2>1, <2>2, <2>4 DEF RestOK, Arms
  <2>6. RestOK' /\ Ingest(Frame("event", o, p))
    BY <1>0, <1>2, <2>5 DEF PumpEvent, RestOK, engineVars, p
  <2>7. QED
    BY <1>a, <1>b, <2>3, <2>6
<1>3. ASSUME NEW o \in Origins, PumpBeat(o) PROVE TypeOK'
  <2>1. arm[o] \in Arms
    BY <1>0, <1>3 DEF PumpBeat, CanPump, RestOK
  <2>2. Frame("heartbeat", o, arm[o].at) \in DataFrames
    BY <2>1 DEF Frame, DataFrames, ControlTypes, Arms
  <2>3. RestOK'
    BY <1>0, <1>3 DEF PumpBeat, RestOK, engineVars
  <2>4. QED
    BY <1>3, <1>a, <1>b, <2>2, <2>3 DEF PumpBeat
<1>4. CASE Drain
  <2>1. RestOK' /\ QueueOK'
    BY <1>0, <1>4 DEF Drain, RestOK, QueueOK, engineVars
  <2>2. QED
    BY <1>4, <1>b, <1>c, <1>d, <2>1 DEF Drain
<1>5. CASE DrainStep
  <2>2. CASE DrainVerbatim
    <3>1. Head(verbatim) \in DataFrames /\ Tail(verbatim) \in Seq(DataFrames)
      BY <1>0, <2>2 DEF DrainVerbatim, QueueOK
    <3>2. Head(verbatim).at \in Positions /\ <<>> \in Seq(Events)
      BY <3>1 DEF DataFrames
    <3>3. ClientOK'
      BY <1>0, <2>2, <3>1, <3>2, IdTypes, ReceiveTypes DEF DrainVerbatim
    <3>4. CursorOK' /\ QueueOK' /\ flowing' \in BOOLEAN
      BY <1>0, <1>d, <2>2, <3>1 DEF DrainVerbatim, QueueOK, Sink
    <3>5. RestOK'
      BY <1>0, <1>5, <3>4 DEF DrainStep, RestOK, engineVars
    <3>6. QED
      BY <1>b, <3>3, <3>4, <3>5
  <2>3. CASE DrainPending
    <3>1. Head(pending) \in DataFrames \cup Gaps /\ Tail(pending) \in Seq(DataFrames \cup Gaps)
      BY <1>0, <2>3 DEF DrainPending, QueueOK
    <3>2. CASE /\ Head(pending).type = "gap" /\ ReceiveGap({Head(pending).o}) /\ Sink
               /\ UNCHANGED <<composite, resumeAt>>
      <4>1. Head(pending).o \in Origins
        BY <3>1 DEF DataFrames, Gaps
      <4>2. ClientOK' /\ CursorOK'
        BY <1>0, <2>3, <3>2, <4>1, GapTypes DEF DrainPending, CursorOK
      <4>3. QueueOK' /\ flowing' \in BOOLEAN
        BY <1>0, <2>3, <3>1, <3>2 DEF DrainPending, QueueOK, Sink
      <4>4. QED
        BY <1>0, <1>5, <1>b, <4>2, <4>3 DEF DrainStep, RestOK, engineVars
    <3>3. CASE Head(pending).type # "gap" /\ Deliver(Head(pending))
      <4>1. Head(pending) \in DataFrames
        BY <3>1, <3>3 DEF Gaps
      <4>2. ClientOK' /\ CursorOK' /\ flowing' \in BOOLEAN
        BY <1>0, <2>3, <3>3, <4>1, DeliverTypes DEF DrainPending, CursorOK
      <4>3. QueueOK'
        BY <1>0, <2>3, <3>1, <4>2 DEF DrainPending, QueueOK
      <4>4. QED
        BY <1>0, <1>5, <1>b, <4>2, <4>3 DEF DrainStep, RestOK, engineVars
    <3>4. QED
      BY <2>3, <3>2, <3>3 DEF DrainPending
  <2>4. CASE DrainEnd /\ draining' = FALSE
    <3>1. ClientOK'
      BY <1>0, <1>c, <2>4, GapTypes DEF DrainEnd, QueueOK
    <3>2. CursorOK' /\ QueueOK'
      BY <1>0, <1>d, <2>4 DEF DrainEnd, QueueOK, Sink
    <3>3. QED
      BY <1>0, <1>5, <1>b, <2>4, <3>1, <3>2 DEF DrainStep, RestOK, engineVars
  <2>5. QED
    BY <1>5, <2>2, <2>3, <2>4 DEF DrainStep
<1>6. CASE Connect
  <2> DEFINE cursor == IF raw = None THEN <<>> ELSE raw.at
  <2>1. cursor \in Seq(Events)
    BY <1>0 DEF ClientOK, Ids
  <2>2. PICK usable \in SUBSET Peers :
           /\ SeedCursor(cursor)
           /\ arm' = [o \in Origins |-> IF o \in usable \cup {Local}
                                        THEN Opened(o, Get(cursor, o)) ELSE None]
           /\ peerArms' = usable
    BY <1>6 DEF Connect
  <2> HIDE DEF cursor
  <2>3. CursorOK'
    BY <1>6, <2>1, <2>2, MapTypes DEF Connect, SeedCursor, CursorOK
  <2>4. QueueOK'
    BY <1>6 DEF Connect, QueueOK, Sink
  <2>5. \A o \in Origins : Opened(o, Get(cursor, o)) \in Arms
    BY <2>1, OpenedTypes, MapTypes
  <2>6. RestOK'
    BY <1>0, <1>6, <2>2, <2>5 DEF Connect, RestOK, engineVars
  <2>7. QED
    BY <1>6, <1>b, <1>c, <2>3, <2>4, <2>6 DEF Connect
<1>7. CASE Reconcile
  <2>1. PICK usable \in SUBSET Peers :
           /\ SetMembership(usable)
           /\ arm' = [o \in Origins |-> IF o \notin usable \cup {Local} THEN None
                                        ELSE IF arm[o] # None THEN arm[o]
                                        ELSE Opened(o, resumeAt[o])]
           /\ ReopenArms(usable \cup {Local})
    BY <1>7 DEF Reconcile
  <2>2. \A o \in Origins : Opened(o, resumeAt[o]) \in Arms
    BY <1>0, OpenedTypes DEF CursorOK
  <2>3. RestOK'
    BY <1>0, <1>7, <2>1, <2>2 DEF Reconcile, RestOK, engineVars, SetMembership
  <2>4. CursorOK'
    BY <1>0, <1>7, <2>1 DEF Reconcile, CursorOK, ReopenArms, Origins
  <2>5. QueueOK'
    BY <1>0, <1>7, <2>1 DEF Reconcile, QueueOK, SetMembership
  <2>6. QED
    BY <1>7, <1>b, <1>c, <2>3, <2>4, <2>5 DEF Reconcile
<1>8. ASSUME NEW o \in Origins, BreakArm(o) PROVE TypeOK'
  <2>1. RestOK'
    BY <1>0, <1>8, FanInAssumption DEF BreakArm, RestOK, engineVars, queueVars
  <2>2. QED
    BY <1>8, <1>b, <1>c, <1>d, <1>e, <2>1 DEF BreakArm, queueVars
<1>9. CASE HangUp
  <2>1. RestOK'
    BY <1>0, <1>9, FanInAssumption DEF HangUp, RestOK, engineVars, queueVars
  <2>2. QED
    BY <1>9, <1>b, <1>c, <1>d, <1>e, <2>1 DEF HangUp, queueVars
<1>10. ASSUME NEW o \in Origins, Emit(o) PROVE TypeOK'
  <2>1. head[o] \in [epoch : 0 .. MaxEpoch, seq : Seqs]
    BY <1>0 DEF RestOK, Positions
  <2>2. head[o].seq + 1 \in Seqs
    BY <1>10, <2>1, FanInAssumption DEF Emit, Seqs
  <2>3. head' \in [Origins -> Positions]
    BY <1>0, <1>10, <2>1, <2>2 DEF Emit, RestOK, Positions
  <2>4. ClientOK'
    BY <1>0, <1>10, <2>3 DEF Emit, ClientOK, Events
  <2>5. RestOK'
    BY <1>0, <1>10, <2>3 DEF Emit, RestOK, queueVars
  <2>6. QED
    BY <1>10, <1>b, <1>d, <1>e, <2>4, <2>5 DEF Emit, queueVars
<1>11. ASSUME NEW o \in Origins, Evict(o) PROVE TypeOK'
  <2>1. RestOK'
    BY <1>0, <1>11 DEF Evict, RestOK, queueVars, Positions
  <2>2. QED
    BY <1>11, <1>b, <1>c, <1>d, <1>e, <2>1 DEF Evict, queueVars
<1>12. ASSUME NEW o \in Origins, Restart(o) PROVE TypeOK'
  <2>1. head[o] \in [epoch : 0 .. MaxEpoch, seq : Seqs]
    BY <1>0 DEF RestOK, Positions
  <2>2. head[o].epoch + 1 \in 0 .. MaxEpoch /\ 0 \in Seqs
    BY <1>12, <2>1, FanInAssumption DEF Restart, Seqs
  <2>3. head' \in [Origins -> Positions]
    BY <1>0, <1>12, <2>2 DEF Restart, RestOK, Positions
  <2>4. RestOK'
    BY <1>0, <1>12, <2>2, <2>3 DEF Restart, RestOK, queueVars
  <2>5. QED
    BY <1>12, <1>b, <1>c, <1>d, <1>e, <2>4 DEF Restart, queueVars
<1>13. CASE Resync
  <2>1. RestOK'
    BY <1>0, <1>13 DEF Resync, RestOK, queueVars, engineVars
  <2>2. ClientOK'
    BY <1>0, <1>13 DEF Resync, ClientOK
  <2>3. QED
    BY <1>13, <1>b, <1>d, <1>e, <2>1, <2>2 DEF Resync, queueVars
<1>14. CASE UNCHANGED vars
  BY <1>14 DEF vars, TypeOK, engineVars, cursorVars, queueVars, clientVars
<1>15. QED
  BY <1>1, <1>2, <1>3, <1>4, <1>5, <1>6, <1>7, <1>8, <1>9, <1>10, <1>11, <1>12, <1>13, <1>14
     DEF Next

(* Type correctness of the fan-in, for any peers, bounds and losses: what  *)
(* is held, the two cursors and the upstreams.                             *)
THEOREM FanInTypes == Spec => []TypeOK
  BY InitTypes, NextTypes, PTL DEF Spec

-----------------------------------------------------------------------------
(* What a frame does to the client                                         *)

\* The types of single positions and entries.
Typed ==
    /\ \A o \in Origins :
          /\ head[o] \in Positions
          /\ last[o] \in Positions
          /\ applied[o] \in Positions \cup {None}
          /\ resumeAt[o] \in Positions \cup {None}
          /\ Cur(o) \in Positions \cup {None}
          /\ arm[o] # None => arm[o].at \in Positions
    /\ \A e \in unseen : e.o \in Origins /\ e.at \in Positions /\ e = [o |-> e.o, at |-> e.at]
    /\ rebase \subseteq Origins /\ dropped \subseteq Origins
    /\ Len(Held) \in Nat
    /\ \A i \in 1 .. Len(Held) :
          /\ Held[i].o \in Origins
          /\ Held[i].type # "gap" => Held[i] \in DataFrames /\ Held[i].at \in Positions
          /\ Held[i].type = "gap" => Held[i] \in Gaps

LEMMA TypedState == TypeOK => Typed
<1> SUFFICES ASSUME TypeOK PROVE Typed
  OBVIOUS
<1>1. ASSUME NEW o \in Origins
      PROVE  /\ head[o] \in Positions
             /\ last[o] \in Positions
             /\ applied[o] \in Positions \cup {None}
             /\ resumeAt[o] \in Positions \cup {None}
  BY DEF TypeOK
<1>2. \A o : Cur(o) \in Positions \cup {None}
  <2>1. composite \in Seq(Events)
    BY DEF TypeOK
  <2>2. QED
    BY <2>1, MapTypes DEF Cur
<1>3. ASSUME NEW o \in Origins, arm[o] # None PROVE arm[o].at \in Positions
  <2>1. arm[o] \in Arms
    BY <1>3 DEF TypeOK
  <2>2. QED
    BY <2>1 DEF Arms
<1>4. \A e \in unseen : e.o \in Origins /\ e.at \in Positions /\ e = [o |-> e.o, at |-> e.at]
  BY DEF TypeOK, Events
<1>5. Held \in Seq(Entries)
  <2>1. verbatim \in Seq(DataFrames) /\ pending \in Seq(Entries)
    BY DEF TypeOK, Entries
  <2>2. QED
    BY <2>1, JoinedQueues DEF Held
<1>6. ASSUME NEW i \in 1 .. Len(Held)
      PROVE  /\ Held[i].o \in Origins
             /\ Held[i].type # "gap" => Held[i] \in DataFrames /\ Held[i].at \in Positions
             /\ Held[i].type = "gap" => Held[i] \in Gaps
  <2>1. Held[i] \in DataFrames \cup Gaps
    BY <1>5 DEF Entries
  <2>2. CASE Held[i] \in DataFrames
    BY <2>2 DEF DataFrames, ControlTypes
  <2>3. CASE Held[i] \in Gaps
    BY <2>3 DEF Gaps
  <2>4. QED
    BY <2>1, <2>2, <2>3
<1>7. Len(Held) \in Nat
  BY <1>5
<1>8. rebase \subseteq Origins /\ dropped \subseteq Origins
  BY DEF TypeOK
<1>9. QED
  BY <1>1, <1>2, <1>3, <1>4, <1>6, <1>7, <1>8 DEF Typed

(* The client takes frame f: it moves the position of its origin, may      *)
(* give a peer its first position or forget it, and is silent about what   *)
(* it skips only where a position is the first or re-bases.                *)
Takes(f) ==
    /\ applied'[f.o] = f.at
    /\ \A o \in Origins \ {f.o} :
          \/ applied'[o] \in {applied[o], None}
          \/ o \in Peers /\ applied[o] = None /\ applied'[o] = Cur(o)
    /\ rebase' \subseteq rebase
    /\ \A o \in rebase' : applied'[o] \in {applied[o], None}
    /\ owed \/ f.type = "reset" => owed'
    /\ applied[f.o] # None /\ f.o \notin rebase /\ ~ owed' =>
          \A p \in Positions : AtOrBehind(p, f.at) =>
              AtOrBehind(p, applied[f.o]) \/ (f.type = "event" /\ p = f.at)
    /\ \A e \in unseen' :
          /\ e \in unseen
          /\ ~ (f.type = "event" /\ e = [o |-> f.o, at |-> f.at])
          /\ applied[e.o] = None /\ applied'[e.o] # None => ~ AtOrBehind(e.at, applied'[e.o])
    /\ last' = IF f.type = "event" THEN [last EXCEPT ![f.o] = f.at] ELSE last

\* No position lies between p and the next one.
LEMMA Contiguous ==
    ASSUME NEW p \in Positions, NEW q \in Positions, NEW r \in Positions,
           p.epoch = q.epoch, AtOrBehind(r, q), ~ AtOrBehind(r, p)
    PROVE  /\ ~ (q.seq <= p.seq)
           /\ q.seq <= p.seq + 1 => r = q
<1>1. /\ p.epoch \in Int /\ q.epoch \in Int /\ r.epoch \in Int
      /\ p.seq \in Int /\ q.seq \in Int /\ r.seq \in Int
  BY FanInAssumption DEF Positions, Seqs
<1>2. ~ (q.seq <= p.seq)
  BY <1>1 DEF AtOrBehind
<1>3. q.seq <= p.seq + 1 => r.epoch = q.epoch /\ r.seq = q.seq
  BY <1>1 DEF AtOrBehind
<1>4. r.epoch = q.epoch /\ r.seq = q.seq => r = q
  BY DEF Positions
<1>5. QED
  BY <1>2, <1>3, <1>4

\* A frame whose id moves no origin but its own is never behind or repeated.
LEMMA Taken ==
    ASSUME ClientOK, NEW f \in DataFrames, NEW id \in Ids, Receive(f, id),
           MapOf(id.at), f.o \in Keys(id.at), Get(id.at, f.o) = f.at,
           UpTo(applied[f.o], f.at),
           id.bare /\ f.type = "event" => Under(applied[f.o], f.at),
           \A o \in Keys(id.at) \ {f.o} :
              /\ Get(id.at, o) = Cur(o)
              /\ applied[o] # Cur(o) => applied[o] = None /\ o \in Peers
    PROVE  Takes(f) /\ raw' = id /\ applied' = Advance(id)
<1>1. f.o \in Origins /\ f.at \in Positions
  BY DEF DataFrames
<1>2. id.at \in Seq(Events)
  BY DEF Ids
<1>3. /\ \A o \in Keys(id.at) : o \in Origins /\ Get(id.at, o) \in Positions /\ Get(id.at, o) # None
      /\ \A o \in Origins : applied[o] \in Positions \cup {None}
  BY <1>2, GetType DEF ClientOK
<1>4. \A o \in Changed(id) : o # f.o => applied[o] = None
  BY DEF Changed
<1>5. ~ Behind(f, id)
  <2> SUFFICES ASSUME NEW o \in Changed(id), ~ Rebased(f, o),
                      Get(id.at, o).epoch = applied[o].epoch,
                      Get(id.at, o).seq <= applied[o].seq
               PROVE  FALSE
    BY DEF Behind
  <2>1. o = f.o /\ applied[o] # None /\ applied[o] # f.at
    BY <1>4 DEF Rebased, Changed
  <2>2. AtOrBehind(applied[o], f.at) /\ AtOrBehind(f.at, applied[o])
    BY <2>1 DEF UpTo, AtOrBehind
  <2>3. applied[o] \in Positions
    BY <1>1, <1>3, <2>1
  <2>4. QED
    BY <1>1, <2>1, <2>2, <2>3, OrderLaws
<1>6. ~ Repeated(f, id)
  <2>1. SUFFICES ASSUME Changed(id) = {}, id.bare, f.type = "event" PROVE FALSE
    BY DEF Repeated
  <2>2. applied[f.o] = f.at
    BY <2>1 DEF Changed
  <2>3. Under(applied[f.o], f.at)
    BY <2>1
  <2>4. QED
    BY <1>1, <2>2, <2>3, NoneAssumption DEF Under, Before
<1>7. /\ raw' = id
      /\ applied' = Advance(id)
      /\ rebase' = rebase \ Changed(id)
      /\ owed' = (owed \/ f.type = "reset" \/ \E o \in Changed(id) : Hole(f, id, o))
      /\ IF f.type = "event"
         THEN /\ unseen' = (unseen \ Skipped(id)) \ {[o |-> f.o, at |-> f.at]}
              /\ last' = [last EXCEPT ![f.o] = f.at]
         ELSE /\ unseen' = unseen \ Skipped(id)
              /\ UNCHANGED last
  BY <1>5, <1>6 DEF Receive
<1>8. \A o \in Origins :
         applied'[o] = IF o \in Keys(id.at) THEN Get(id.at, o) ELSE IF id.bare THEN None ELSE applied[o]
  BY <1>7 DEF Advance
<1>9. applied'[f.o] = f.at
  BY <1>1, <1>8
<1>10. ASSUME NEW o \in Origins \ {f.o}
       PROVE  \/ applied'[o] \in {applied[o], None}
              \/ o \in Peers /\ applied[o] = None /\ applied'[o] = Cur(o)
  BY <1>8
<1>11. \A o \in rebase' : applied'[o] \in {applied[o], None}
  <2> SUFFICES ASSUME NEW o \in rebase' PROVE applied'[o] \in {applied[o], None}
    OBVIOUS
  <2>1. o \notin Changed(id) /\ o \in Origins
    BY <1>7 DEF ClientOK
  <2>2. o \in Keys(id.at) => Get(id.at, o) = applied[o]
    BY <2>1 DEF Changed
  <2>3. QED
    BY <1>8, <2>1, <2>2
<1>12. ASSUME applied[f.o] # None, f.o \notin rebase, ~ owed',
              NEW p \in Positions, AtOrBehind(p, f.at), ~ AtOrBehind(p, applied[f.o])
       PROVE  f.type = "event" /\ p = f.at
  <2>1. applied[f.o] \in Positions
    BY <1>1, <1>3, <1>12
  <2>2. f.at # applied[f.o]
    BY <1>12
  <2>3. f.o \in Changed(id)
    BY <2>2 DEF Changed
  <2>4. f.type # "reset" /\ ~ Hole(f, id, f.o)
    BY <1>7, <1>12, <2>3
  <2>5. ~ Rebased(f, f.o)
    BY <1>12, <2>4 DEF Rebased
  <2>6. /\ f.at.epoch = applied[f.o].epoch
        /\ ~ (f.at.seq > applied[f.o].seq + (IF f.type \in ControlTypes THEN 0 ELSE 1))
    BY <2>4, <2>5 DEF Hole
  <2>7. f.at.seq \in Int /\ applied[f.o].seq \in Int
    BY <1>1, <2>1, FanInAssumption DEF Positions, Seqs
  <2>8. f.type \notin ControlTypes
    BY <1>1, <1>12, <2>1, <2>6, <2>7, Contiguous
  <2>9. f.type = "event"
    BY <2>8 DEF DataFrames
  <2>10. f.at.seq <= applied[f.o].seq + 1
    BY <2>6, <2>7, <2>8
  <2>11. QED
    BY <1>1, <1>12, <2>1, <2>6, <2>9, <2>10, Contiguous
<1>13. ASSUME NEW e \in unseen'
       PROVE  /\ e \in unseen
              /\ ~ (f.type = "event" /\ e = [o |-> f.o, at |-> f.at])
              /\ applied[e.o] = None /\ applied'[e.o] # None => ~ AtOrBehind(e.at, applied'[e.o])
  <2>1. e \in unseen /\ e \notin Skipped(id) /\ ~ (f.type = "event" /\ e = [o |-> f.o, at |-> f.at])
    BY <1>7
  <2>2. ASSUME applied[e.o] = None, applied'[e.o] # None, AtOrBehind(e.at, applied'[e.o])
        PROVE  FALSE
    <3>1. e.o \in Origins
      BY <2>1 DEF ClientOK, Events
    <3>2. e.o \in Keys(id.at) /\ applied'[e.o] = Get(id.at, e.o)
      BY <1>8, <2>2, <3>1
    <3>3. e.o \in Changed(id)
      BY <1>3, <2>2, <3>2 DEF Changed
    <3>4. e \in Skipped(id)
      BY <2>1, <2>2, <3>2, <3>3 DEF Skipped
    <3>5. QED
      BY <2>1, <3>4
  <2>3. QED
    BY <2>1, <2>2
<1>14. rebase' \subseteq rebase /\ (owed \/ f.type = "reset" => owed')
  BY <1>7
<1>15. last' = IF f.type = "event" THEN [last EXCEPT ![f.o] = f.at] ELSE last
  BY <1>7
<1>16. Takes(f)
  BY <1>9, <1>10, <1>11, <1>12, <1>13, <1>14, <1>15 DEF Takes
<1>17. QED
  BY <1>7, <1>16

\* What the ids say.
LEMMA IdMaps ==
    ASSUME NEW p \in Positions
    PROVE  /\ BareId(p) \in Ids
           /\ MapOf(BareId(p).at)
           /\ Keys(BareId(p).at) = {Local}
           /\ Get(BareId(p).at, Local) = p
           /\ \A o : o # Local => Get(BareId(p).at, o) = None
<1> DEFINE m == <<[o |-> Local, at |-> p]>>
<1>1. m \in Seq(Events)
  BY DEF Events, Origins
<1>2. Len(m) = 1 /\ m[1].o = Local /\ m[1].at = p
  OBVIOUS
<1>3. BareId(p) \in Ids /\ BareId(p).at = m
  BY <1>1 DEF BareId, Ids
<1> HIDE DEF m
<1>4. 1 .. Len(m) = {1}
  BY <1>2
<1>5. MapOf(m) /\ Keys(m) = {Local}
  BY <1>2, <1>4 DEF MapOf, Keys
<1>6. Get(m, Local) = p
  BY <1>1, <1>2, <1>4, <1>5, GetIs
<1>7. \A o : o # Local => Get(m, o) = None
  BY <1>5 DEF Get
<1>8. QED
  BY <1>3, <1>5, <1>6, <1>7

\* A frame with a bare id: the client knows the local engine only.
LEMMA BareTaken ==
    ASSUME TypeOK, NEW f \in DataFrames, f.o = Local, Receive(f, BareId(f.at)),
           UpTo(applied[Local], f.at),
           f.type = "event" => Under(applied[Local], f.at)
    PROVE  /\ Takes(f)
           /\ raw' # None /\ MapOf(raw'.at)
           /\ \A o \in Origins : applied'[o] = Get(raw'.at, o)
           /\ \A o \in Peers : applied'[o] = None
           /\ applied'[Local] = f.at
<1> DEFINE id == BareId(f.at)
<1>1. f.at \in Positions /\ ClientOK
  BY TypeOKIs DEF DataFrames
<1>2. /\ id \in Ids /\ MapOf(id.at) /\ Keys(id.at) = {Local} /\ Get(id.at, Local) = f.at
      /\ \A o : o # Local => Get(id.at, o) = None
  BY <1>1, IdMaps
<1>3. id.bare /\ id # None
  BY <1>1, <1>2, NoneAssumption DEF BareId
<1>4. Takes(f) /\ raw' = id /\ applied' = Advance(id)
  BY <1>1, <1>2, Taken
<1> HIDE DEF id
<1>5. \A o \in Origins : applied'[o] = Get(id.at, o)
  BY <1>2, <1>3, <1>4 DEF Advance
<1>6. Local \in Origins /\ \A o \in Peers : o \in Origins /\ o # Local
  BY FanInAssumption DEF Origins
<1>7. QED
  BY <1>2, <1>3, <1>4, <1>5, <1>6

\* A frame with the composite cursor: the client knows what the aggregator knows.
LEMMA StampedTaken ==
    ASSUME TypeOK, CursorInv, link = "up", verbatim = <<>>,
           NEW f \in DataFrames, Deliver(f), UpTo(applied[f.o], f.at)
    PROVE  /\ Takes(f)
           /\ raw' # None /\ MapOf(raw'.at) /\ MapOf(composite')
           /\ \A o \in Origins : applied'[o] = Get(raw'.at, o) /\ applied'[o] = Cur(o)'
           /\ Cur(f.o)' = f.at
           /\ \A o \in Origins \ {f.o} : Cur(o)' = Cur(o)
<1> DEFINE m == Put(composite, f.o, f.at)
           id == CompositeId(m)
<1>1. f.o \in Origins /\ f.at \in Positions /\ ClientOK /\ composite \in Seq(Events)
  BY TypeOKIs DEF DataFrames, CursorOK
<1>2. /\ MapOf(composite)
      /\ \A o \in Peers : applied[o] \in {None, Cur(o)}
      /\ applied[Local] = Cur(Local)
  BY DEF CursorInv
<1>3. /\ m \in Seq(Events) /\ MapOf(m) /\ Keys(m) = Keys(composite) \cup {f.o}
      /\ Get(m, f.o) = f.at
      /\ \A o : o # f.o => Get(m, o) = Get(composite, o)
  BY <1>1, <1>2, PutIs
<1>4. composite' = m /\ Receive(f, id)
  BY DEF Deliver
<1>5. id \in Ids /\ id.at = m /\ ~ id.bare /\ id # None
  BY <1>1, <1>3, IdTypes, NoneAssumption DEF CompositeId
<1>6. \A o \in Keys(m) : o \in Origins
  BY <1>3, GetType
<1> HIDE DEF m, id
<1>7. ASSUME NEW o \in Keys(m) \ {f.o}
      PROVE  Get(m, o) = Cur(o) /\ (applied[o] # Cur(o) => applied[o] = None /\ o \in Peers)
  <2>1. o \in Peers \/ o = Local
    BY <1>6 DEF Origins
  <2>2. QED
    BY <1>2, <1>3, <2>1 DEF Cur
<1>8. Takes(f) /\ raw' = id /\ applied' = Advance(id)
  BY <1>1, <1>3, <1>4, <1>5, <1>7, Taken
<1>9. ASSUME NEW o \in Origins PROVE applied'[o] = Get(m, o)
  <2>1. CASE o \in Keys(m)
    BY <1>5, <1>8, <2>1 DEF Advance
  <2>2. CASE o \notin Keys(m)
    <3>1. applied'[o] = applied[o]
      BY <1>5, <1>8, <2>2 DEF Advance
    <3>2. Get(m, o) = None /\ Cur(o) = None
      BY <1>3, <2>2 DEF Get, Cur
    <3>3. applied[o] = None
      BY <1>2, <3>2 DEF Origins
    <3>4. QED
      BY <3>1, <3>2, <3>3
  <2>3. QED
    BY <2>1, <2>2
<1>10. \A o : Cur(o)' = Get(m, o)
  BY <1>4 DEF Cur
<1>11. QED
  BY <1>3, <1>4, <1>5, <1>8, <1>9, <1>10 DEF Cur

\* What the client passes silently when it takes a frame is what it had passed.
LEMMA Passing ==
    ASSUME Typed, NoSilentLoss, NEW f \in DataFrames, Takes(f),
           \A e \in unseen :
              /\ e.o = f.o /\ f.o \in rebase /\ applied[f.o] # None
              /\ AtOrBehind(e.at, f.at)
              => owed' \/ AtOrBehind(e.at, applied[f.o]) \/ (f.type = "event" /\ e.at = f.at)
    PROVE  NoSilentLoss'
<1> SUFFICES ASSUME NEW e \in unseen', applied'[e.o] # None, AtOrBehind(e.at, applied'[e.o]),
                    ~ owed'
             PROVE  FALSE
  BY DEF NoSilentLoss
<1>1. /\ e \in unseen
      /\ ~ (f.type = "event" /\ e = [o |-> f.o, at |-> f.at])
      /\ applied[e.o] # None
  BY DEF Takes
<1>2. e.o \in Origins /\ e.at \in Positions /\ e = [o |-> e.o, at |-> e.at]
  BY <1>1 DEF Typed
<1>3. ~ owed
  BY DEF Takes
<1>4. ~ AtOrBehind(e.at, applied[e.o])
  BY <1>1, <1>3 DEF NoSilentLoss
<1>5. CASE e.o = f.o
  <2>1. applied'[f.o] = f.at
    BY DEF Takes
  <2>2. f.o \notin rebase
    BY <1>1, <1>2, <1>4, <1>5, <2>1
  <2>3. QED
    BY <1>1, <1>2, <1>4, <1>5, <2>1, <2>2 DEF Takes
<1>6. CASE e.o # f.o
  <2>1. applied'[e.o] = applied[e.o]
    BY <1>1, <1>2, <1>6 DEF Takes
  <2>2. QED
    BY <1>4, <2>1
<1>7. QED
  BY <1>5, <1>6

-----------------------------------------------------------------------------
(* What is held, and where                                                 *)

\* The entries of the two queues.
LEMMA Entry ==
    ASSUME TypeOK
    PROVE  /\ Len(verbatim) \in Nat /\ Len(pending) \in Nat
           /\ Len(Held) = Len(verbatim) + Len(pending)
           /\ \A i \in 1 .. Len(verbatim) :
                 i \in 1 .. Len(Held) /\ Held[i] = verbatim[i] /\ verbatim[i] \in DataFrames
           /\ \A i \in 1 .. Len(pending) :
                 /\ Len(verbatim) + i \in 1 .. Len(Held)
                 /\ Held[Len(verbatim) + i] = pending[i]
           /\ \A i \in 1 .. Len(Held) :
                 \/ i \in 1 .. Len(verbatim)
                 \/ \E j \in 1 .. Len(pending) : i = Len(verbatim) + j
<1>1. verbatim \in Seq(DataFrames) /\ pending \in Seq(Entries)
  BY DEF TypeOK, Entries
<1>2. Len(verbatim) \in Nat /\ Len(pending) \in Nat
  BY <1>1
<1>3. /\ Len(Held) = Len(verbatim) + Len(pending)
      /\ \A i \in 1 .. Len(verbatim) : Held[i] = verbatim[i]
      /\ \A i \in 1 .. Len(pending) : Held[Len(verbatim) + i] = pending[i]
  BY <1>1, JoinedQueues DEF Held
<1>4. \A i \in 1 .. Len(verbatim) : i \in 1 .. Len(Held) /\ verbatim[i] \in DataFrames
  BY <1>1, <1>2, <1>3
<1>5. \A i \in 1 .. Len(pending) : Len(verbatim) + i \in 1 .. Len(Held)
  BY <1>2, <1>3
<1>6. ASSUME NEW i \in 1 .. Len(Held), i \notin 1 .. Len(verbatim)
      PROVE  \E j \in 1 .. Len(pending) : i = Len(verbatim) + j
  <2>1. i - Len(verbatim) \in 1 .. Len(pending) /\ i = Len(verbatim) + (i - Len(verbatim))
    BY <1>2, <1>3, <1>6
  <2>2. QED
    BY <2>1
<1>7. QED
  BY <1>2, <1>3, <1>4, <1>5, <1>6

\* Nothing is held when the two queues are empty.
LEMMA EmptyQueues ==
    ASSUME NEW v, NEW q, v = <<>>, q = <<>>
    PROVE  Len(v \o q) = 0
  OBVIOUS

\* The client is never ahead of the resume point.
LEMMA ResumeAhead ==
    ASSUME TypeOK, FlowInv, CursorInv, OrderInv, link = "up", NEW o \in Origins
    PROVE  applied[o] # None => resumeAt[o] # None /\ AtOrBehind(applied[o], resumeAt[o])
<1> SUFFICES ASSUME applied[o] # None
             PROVE  resumeAt[o] # None /\ AtOrBehind(applied[o], resumeAt[o])
  OBVIOUS
<1>1. FramesOf(o) /\ ResumeOf(o) /\ Typed
  BY TypedState DEF OrderInv
<1>2. CASE applied[o] = Cur(o)
  BY <1>1, <1>2 DEF ResumeOf
<1>3. CASE applied[o] # Cur(o)
  <2>1. o = Local /\ verbatim # <<>>
    BY <1>3 DEF CursorInv, Origins
  <2>2. 1 \in 1 .. Len(verbatim)
    <3>1. verbatim \in Seq(DataFrames)
      BY DEF TypeOK
    <3>2. QED
      BY <2>1, <3>1
  <2>3. 1 \in 1 .. Len(Held) /\ Held[1] = verbatim[1] /\ Held[1] \in DataFrames
    BY <2>2, Entry
  <2>4. Held[1].o = Local
    BY <2>2, <2>3 DEF FlowInv
  <2>5. IsFrame(1, o)
    BY <2>1, <2>3, <2>4 DEF IsFrame, DataFrames, ControlTypes
  <2>6. resumeAt[o] # None /\ AtOrBehind(Held[1].at, resumeAt[o]) /\ UpTo(applied[o], Held[1].at)
    BY <1>1, <2>3, <2>5 DEF FramesOf
  <2>7. applied[o] \in Positions /\ resumeAt[o] \in Positions /\ Held[1].at \in Positions
    BY <1>1, <2>3, <2>6 DEF Typed, DataFrames
  <2>8. QED
    BY <2>6, <2>7, OrderLaws DEF UpTo
<1>4. QED
  BY <1>2, <1>3

-----------------------------------------------------------------------------
(* A frame of an upstream                                                  *)

\* Upstream f.o sends frame f: what it has sent before is behind it.
Sent(f) ==
    /\ f \in DataFrames
    /\ link = "up" /\ ~ draining
    /\ UNCHANGED <<link, draining, head, peerArms>>
    /\ arm[f.o] # None
    /\ \A o \in Origins \ {f.o} : arm'[o] = arm[o]
    /\ arm'[f.o].at = f.at
    /\ arm'[f.o].hello \in {<<>>, <<"connected">>}
    /\ f.at.epoch = head[f.o].epoch
    /\ AtOrBehind(f.at, head[f.o])
    /\ AtOrBehind(arm[f.o].at, f.at)
    /\ \A p \in Positions :
          AtOrBehind(p, f.at) => AtOrBehind(p, arm[f.o].at) \/ (f.type = "event" /\ p = f.at)
    /\ f.type = "event" => Before(arm[f.o].at, f.at)
    /\ f.type = "reset" <=> ResetPending(f.o)
    /\ f.type # "event" => HeldControls < MaxControls

LEMMA SentFrame ==
    ASSUME TypeOK, FlowInv, OrderInv, NEW o \in Origins,
           PumpHello(o) \/ PumpEvent(o) \/ PumpBeat(o)
    PROVE  \E f \in DataFrames : f.o = o /\ Sent(f) /\ Ingest(f)
<1>1. link = "up" /\ ~ draining /\ arm[o] # None
  BY DEF PumpHello, PumpEvent, PumpBeat, CanPump
<1>2. /\ arm[o] \in Arms /\ arm[o].at \in Positions /\ head[o] \in Positions
      /\ arm \in [Origins -> Arms \cup {None}]
  BY <1>1 DEF TypeOK, Arms
<1>3. ResumeOf(o) /\ arm[o].hello \in {<<>>, <<"connected">>, <<"reset", "connected">>}
  BY <1>1 DEF OrderInv, FlowInv
<1>4. arm[o].at.epoch = head[o].epoch /\ AtOrBehind(arm[o].at, head[o])
  BY <1>1, <1>3 DEF ResumeOf
<1>5. AtOrBehind(arm[o].at, arm[o].at)
  BY <1>2, OrderLaws
<1>6. CASE PumpHello(o)
  <2> DEFINE f == Frame(Head(arm[o].hello), o, arm[o].at)
  <2>1. arm[o].hello \in {<<"connected">>, <<"reset", "connected">>}
    BY <1>3, <1>6 DEF PumpHello
  <2>2. Head(arm[o].hello) \in {"connected", "reset"}
    BY <2>1
  <2>3. Tail(arm[o].hello) \in {<<>>, <<"connected">>}
    <3>1. Tail(<<"connected">>) = <<>> /\ Tail(<<"reset", "connected">>) = <<"connected">>
      OBVIOUS
    <3>2. QED
      BY <2>1, <3>1
  <2>4. f \in DataFrames /\ f.o = o /\ f.at = arm[o].at /\ f.type = Head(arm[o].hello)
    BY <1>2, <2>2 DEF Frame, DataFrames, ControlTypes
  <2>5. arm' = [arm EXCEPT ![o].hello = Tail(@)] /\ Ingest(f) /\ HeldControls < MaxControls
        /\ UNCHANGED <<link, draining, head, peerArms>>
    BY <1>6 DEF PumpHello, engineVars
  <2>6. arm'[o].at = arm[o].at /\ arm'[o].hello = Tail(arm[o].hello)
    BY <1>2, <2>5 DEF Arms
  <2>7. \A k \in Origins \ {o} : arm'[k] = arm[k]
    BY <1>2, <2>5
  <2>8. f.type = "reset" <=> ResetPending(o)
    BY <1>6, <2>4 DEF PumpHello, ResetPending
  <2>9. f.type # "event"
    BY <2>2, <2>4
  <2> HIDE DEF f
  <2>10. Sent(f)
    BY <1>1, <1>4, <1>5, <2>3, <2>4, <2>5, <2>6, <2>7, <2>8, <2>9 DEF Sent
  <2>11. QED
    BY <2>4, <2>5, <2>10
<1>7. CASE PumpEvent(o)
  <2> DEFINE p == [arm[o].at EXCEPT !.seq = @ + 1]
             f == Frame("event", o, p)
  <2>1. /\ arm[o].hello = <<>> /\ arm[o].at.seq < head[o].seq
        /\ Ingest(f) /\ arm' = [arm EXCEPT ![o].at = p]
        /\ UNCHANGED <<link, draining, head, peerArms>>
    BY <1>7 DEF PumpEvent, engineVars
  <2>2. /\ p \in Positions /\ p.epoch = arm[o].at.epoch /\ Before(arm[o].at, p)
        /\ AtOrBehind(p, head[o])
        /\ \A r \in Positions : AtOrBehind(r, p) => AtOrBehind(r, arm[o].at) \/ r = p
    BY <1>2, <1>4, <2>1, NextPosition
  <2>3. f \in DataFrames /\ f.o = o /\ f.at = p /\ f.type = "event"
    BY <2>2 DEF Frame, DataFrames
  <2> HIDE DEF p
  <2>4. arm'[o].at = p /\ arm'[o].hello = <<>>
    BY <1>2, <2>1 DEF Arms
  <2>5. \A k \in Origins \ {o} : arm'[k] = arm[k]
    BY <1>2, <2>1
  <2>6. ~ ResetPending(o)
    BY <2>1 DEF ResetPending
  <2> HIDE DEF f
  <2>7. Sent(f)
    BY <1>1, <1>4, <2>1, <2>2, <2>3, <2>4, <2>5, <2>6 DEF Sent, Before
  <2>8. QED
    BY <2>1, <2>3, <2>7
<1>8. CASE PumpBeat(o)
  <2> DEFINE f == Frame("heartbeat", o, arm[o].at)
  <2>1. /\ arm[o].hello = <<>> /\ HeldControls < MaxControls
        /\ Ingest(f) /\ arm' = arm
        /\ UNCHANGED <<link, draining, head, peerArms>>
    BY <1>8 DEF PumpBeat, engineVars
  <2>2. f \in DataFrames /\ f.o = o /\ f.at = arm[o].at /\ f.type = "heartbeat"
    BY <1>2 DEF Frame, DataFrames, ControlTypes
  <2>3. ~ ResetPending(o)
    BY <2>1 DEF ResetPending
  <2> HIDE DEF f
  <2>4. Sent(f)
    BY <1>1, <1>4, <1>5, <2>1, <2>2, <2>3 DEF Sent
  <2>5. QED
    BY <2>1, <2>2, <2>4
<1>9. QED
  BY <1>6, <1>7, <1>8

\* A frame an upstream sends is ahead of everything that has come of it.
LEMMA SentAhead ==
    ASSUME TypeOK, FlowInv, CursorInv, OrderInv, NEW f, Sent(f)
    PROVE  /\ f.o \in Origins /\ f.at \in Positions
           /\ UpTo(resumeAt[f.o], f.at) /\ UpTo(applied[f.o], f.at) /\ UpTo(Cur(f.o), f.at)
           /\ AtOrBehind(last[f.o], f.at)
           /\ f.type = "event" =>
                 /\ Under(resumeAt[f.o], f.at) /\ Under(applied[f.o], f.at)
                 /\ Under(Cur(f.o), f.at) /\ Before(last[f.o], f.at)
<1> DEFINE o == f.o
<1>1. o \in Origins /\ f.at \in Positions
  BY DEF Sent, DataFrames
<1>2. /\ arm[o] # None /\ AtOrBehind(arm[o].at, f.at)
      /\ f.type = "event" => arm[o].at # f.at
      /\ link = "up"
  BY DEF Sent, Before
<1>3. Typed
  BY TypedState
<1>4. arm[o].at \in Positions /\ last[o] \in Positions
  BY <1>1, <1>2, <1>3 DEF Typed
<1>5. \A p \in Positions : AtOrBehind(p, arm[o].at) =>
         AtOrBehind(p, f.at) /\ (f.type = "event" => p # f.at)
  BY <1>1, <1>2, <1>4, OrderLaws
<1>6. ResumeOf(o)
  BY <1>1, <1>2 DEF OrderInv
<1>7. UpTo(resumeAt[o], arm[o].at) /\ AtOrBehind(last[o], arm[o].at)
  BY <1>2, <1>6 DEF ResumeOf
<1>8. resumeAt[o] # None => resumeAt[o] \in Positions /\ AtOrBehind(resumeAt[o], arm[o].at)
  BY <1>1, <1>3, <1>7 DEF Typed, UpTo
<1>9. applied[o] # None => applied[o] \in Positions /\ AtOrBehind(applied[o], arm[o].at)
  <2>1. applied[o] # None => resumeAt[o] # None /\ AtOrBehind(applied[o], resumeAt[o])
    BY <1>1, <1>2, ResumeAhead
  <2>2. applied[o] # None => applied[o] \in Positions
    BY <1>1, <1>3 DEF Typed
  <2>3. QED
    BY <1>4, <1>8, <2>1, <2>2, OrderLaws
<1>10. Cur(o) # None => Cur(o) \in Positions /\ AtOrBehind(Cur(o), arm[o].at)
  <2>1. Cur(o) # None => resumeAt[o] # None /\ AtOrBehind(Cur(o), resumeAt[o])
    BY <1>6 DEF ResumeOf
  <2>2. Cur(o) # None => Cur(o) \in Positions
    BY <1>1, <1>3 DEF Typed
  <2>3. QED
    BY <1>4, <1>8, <2>1, <2>2, OrderLaws
<1> HIDE DEF o
<1>11. QED
  BY <1>1, <1>4, <1>5, <1>7, <1>8, <1>9, <1>10 DEF UpTo, Under, Before, o

\* advanceResume follows every frame that is not behind it.
LEMMA ResumeFollows ==
    ASSUME TypeOK, NEW o \in Origins, NEW p \in Positions, UpTo(resumeAt[o], p),
           AdvanceResume(o, p)
    PROVE  resumeAt'[o] = p /\ \A k \in Origins \ {o} : resumeAt'[k] = resumeAt[k]
<1>1. resumeAt \in [Origins -> Positions \cup {None}]
  BY DEF TypeOK
<1>2. ASSUME resumeAt[o] # None, resumeAt[o].epoch = p.epoch, p.seq < resumeAt[o].seq
      PROVE  FALSE
  <2>1. AtOrBehind(resumeAt[o], p)
    BY <1>2 DEF UpTo
  <2>2. resumeAt[o].seq \in Int /\ p.seq \in Int /\ resumeAt[o].epoch \in Int
    BY <1>1, <1>2, FanInAssumption DEF Positions, Seqs
  <2>3. QED
    BY <1>2, <2>1, <2>2 DEF AtOrBehind
<1>3. resumeAt' = [resumeAt EXCEPT ![o] = p]
  BY <1>2 DEF AdvanceResume
<1>4. QED
  BY <1>1, <1>3

-----------------------------------------------------------------------------
(* An upstream's frame is taken, held, dropped or kept back                *)

\* The resume point of frame f's origin is f, the others stay.
Resumes(f) ==
    /\ resumeAt'[f.o] = f.at
    /\ \A o \in Origins \ {f.o} : resumeAt'[o] = resumeAt[o]

\* The composite cursor moves at origin f.o to f; or it stays.
Stamps(f) == Cur(f.o)' = f.at /\ \A o \in Origins \ {f.o} : Cur(o)' = Cur(o)
SameCursor == \A o \in Origins : Cur(o)' = Cur(o)

\* The upstreams' positions after frame f are as the resume point needs them.
LEMMA ResumeKept ==
    ASSUME TypeOK, FlowInv, CursorInv, OrderInv, NEW f, Sent(f),
           Resumes(f) \/ resumeAt' = resumeAt,
           \/ SameCursor
           \/ Stamps(f) /\ Resumes(f),
           \/ last' = last
           \/ /\ last' = IF f.type = "event" THEN [last EXCEPT ![f.o] = f.at] ELSE last
              /\ Stamps(f) /\ Resumes(f)
    PROVE  \A o \in Origins : ResumeOf(o)'
<1> SUFFICES ASSUME NEW o \in Origins PROVE ResumeOf(o)'
  OBVIOUS
<1>1. Typed /\ ResumeOf(o) /\ head' = head
  BY TypedState DEF OrderInv, Sent
<1>2. /\ f.o \in Origins /\ f.at \in Positions
      /\ UpTo(resumeAt[f.o], f.at) /\ UpTo(Cur(f.o), f.at) /\ AtOrBehind(last[f.o], f.at)
  BY SentAhead
<1>3. /\ arm'[f.o].at = f.at /\ f.at.epoch = head[f.o].epoch /\ AtOrBehind(f.at, head[f.o])
  BY DEF Sent
<1>4. AtOrBehind(f.at, f.at)
  BY <1>2, OrderLaws
<1>5. CASE o = f.o
  <2>1. AtOrBehind(last'[o], f.at) /\ last[o] \in Positions
    BY <1>1, <1>2, <1>4, <1>5 DEF TypeOK, Typed
  <2>2. /\ Cur(o)' # None => resumeAt'[o] # None /\ AtOrBehind(Cur(o)', resumeAt'[o])
                             /\ AtOrBehind(last'[o], Cur(o)')
    <3>1. CASE Cur(o)' = f.at /\ resumeAt'[o] = f.at
      BY <1>2, <1>4, <2>1, <3>1, NoneAssumption
    <3>2. CASE Cur(o)' = Cur(o) /\ last' = last
      <4>1. Cur(o) # None => /\ resumeAt[o] # None /\ AtOrBehind(Cur(o), resumeAt[o])
                             /\ AtOrBehind(last[o], Cur(o))
        BY <1>1 DEF ResumeOf
      <4>2. resumeAt'[o] = resumeAt[o] \/ resumeAt'[o] = f.at
        BY <1>5 DEF Resumes
      <4>3. AtOrBehind(Cur(o), f.at) \/ Cur(o) = None
        BY <1>2, <1>5 DEF UpTo
      <4>4. QED
        BY <1>2, <3>2, <4>1, <4>2, <4>3, NoneAssumption
    <3>3. QED
      BY <1>5, <3>1, <3>2 DEF SameCursor, Stamps, Resumes
  <2>3. resumeAt'[o] # None => /\ AtOrBehind(last'[o], resumeAt'[o])
                               /\ AtOrBehind(resumeAt'[o], head[o])
                               /\ AtOrBehind(resumeAt'[o], f.at)
    <3>1. CASE resumeAt'[o] = f.at
      BY <1>3, <1>4, <1>5, <2>1, <3>1
    <3>2. CASE resumeAt'[o] = resumeAt[o] /\ last' = last
      BY <1>1, <1>2, <1>5, <3>2 DEF ResumeOf, UpTo
    <3>3. QED
      BY <1>5, <3>1, <3>2 DEF Resumes
  <2>4. QED
    BY <1>1, <1>3, <1>5, <2>1, <2>2, <2>3 DEF ResumeOf, UpTo
<1>6. CASE o # f.o
  <2>1. arm'[o] = arm[o]
    BY <1>6 DEF Sent
  <2>2. last'[o] = last[o]
    BY <1>2, <1>6 DEF TypeOK
  <2>3. resumeAt'[o] = resumeAt[o] /\ Cur(o)' = Cur(o)
    BY <1>6 DEF Resumes, Stamps, SameCursor
  <2>4. QED
    BY <1>1, <2>1, <2>2, <2>3 DEF ResumeOf
<1>7. QED
  BY <1>5, <1>6

\* What the client knows after a frame is behind the engines.
LEMMA TakenBehind ==
    ASSUME TypeOK, CursorInv, OrderInv, link = "up", NEW f \in DataFrames, Takes(f),
           head' = head, AtOrBehind(f.at, head[f.o]), AtOrBehind(last[f.o], f.at)
    PROVE  \A o \in Origins : AppliedOf(o)'
<1> SUFFICES ASSUME NEW o \in Origins PROVE AppliedOf(o)'
  OBVIOUS
<1>1. Typed /\ AppliedOf(o) /\ ResumeOf(o)
  BY TypedState DEF OrderInv
<1>2. f.o \in Origins /\ f.at \in Positions /\ AtOrBehind(f.at, f.at)
  BY OrderLaws DEF DataFrames
<1>3. CASE o = f.o
  <2>1. applied'[o] = f.at
    BY <1>3 DEF Takes
  <2>2. last'[o] = f.at \/ last'[o] = last[o]
    BY <1>2, <1>3 DEF Takes, TypeOK
  <2>3. QED
    BY <1>1, <1>2, <1>3, <2>1, <2>2 DEF AppliedOf, UpTo
<1>4. CASE o # f.o
  <2>1. last'[o] = last[o]
    BY <1>2, <1>4 DEF Takes, TypeOK
  <2>2. applied'[o] \in {applied[o], None} \/ applied'[o] = Cur(o)
    BY <1>4 DEF Takes
  <2>3. CASE applied'[o] \in {applied[o], None}
    BY <1>1, <2>1, <2>3 DEF AppliedOf, UpTo
  <2>4. CASE applied'[o] = Cur(o) /\ Cur(o) # None
    <3>1. /\ resumeAt[o] # None /\ AtOrBehind(Cur(o), resumeAt[o])
          /\ AtOrBehind(last[o], Cur(o)) /\ AtOrBehind(resumeAt[o], head[o])
      BY <1>1, <2>4 DEF ResumeOf
    <3>2. Cur(o) \in Positions /\ resumeAt[o] \in Positions /\ head[o] \in Positions
      BY <1>1, <2>4, <3>1 DEF Typed
    <3>3. AtOrBehind(Cur(o), head[o])
      BY <3>1, <3>2, OrderLaws
    <3>4. QED
      BY <1>1, <2>1, <2>4, <3>1, <3>3 DEF AppliedOf, UpTo
  <2>5. QED
    BY <2>2, <2>3, <2>4
<1>5. QED
  BY <1>3, <1>4

\* The invariants that say what may not be lost.
LossInv == OrderInv /\ NoSilentLoss /\ CoverInv /\ ChainInv

(* The frame is written to the listener: nothing is held, so what the      *)
(* client now passes was reached and nothing covers it any more.           *)
LEMMA TakeNew ==
    ASSUME TypeOK, FlowInv, CursorInv, LossInv, NEW f, Sent(f), Takes(f), Stamps(f), Resumes(f),
           Len(Held) = 0, Len(Held') = 0, dropped = {}, dropped' = {},
           applied[Local] = Cur(Local)
    PROVE  LossInv'
<1>1. Typed /\ OrderInv /\ NoSilentLoss /\ CoverInv /\ ChainInv
  BY TypedState DEF LossInv
<1>2. /\ f \in DataFrames /\ link = "up" /\ link' = "up" /\ head' = head
      /\ AtOrBehind(f.at, head[f.o]) /\ arm'[f.o].at = f.at
  BY DEF Sent
<1>3. f.o \in Origins /\ f.at \in Positions /\ AtOrBehind(last[f.o], f.at)
  BY <1>1, SentAhead
<1>4. \A e \in unseen' : e \in unseen /\ e.o \in Origins /\ e.at \in Positions
  BY <1>1 DEF Takes, Typed
<1>5. \A e \in unseen : ~ Covered(e)
  BY DEF Covered
<1>6. \A e : ~ Covered(e)'
  BY DEF Covered
<1>7. OrderInv'
  <2>1. \A o \in Origins : AppliedOf(o)'
    BY <1>1, <1>2, <1>3, TakenBehind
  <2>2. \A o \in Origins : ResumeOf(o)'
    BY <1>1, ResumeKept DEF Takes
  <2>3. \A o \in Origins : FramesOf(o)'
    BY DEF FramesOf
  <2>4. \A e \in unseen' : AtOrBehind(e.at, head'[e.o])
    BY <1>1, <1>2, <1>4 DEF OrderInv
  <2>5. QED
    BY <2>1, <2>2, <2>3, <2>4 DEF OrderInv
<1>8. NoSilentLoss'
  <2>1. ASSUME NEW e \in unseen, e.o = f.o, f.o \in rebase, applied[f.o] # None,
               AtOrBehind(e.at, f.at), ~ owed', ~ (f.type = "event" /\ e.at = f.at)
        PROVE  FALSE
    <3>1. AtOrBehind(e.at, arm[f.o].at) /\ e.at \in Positions
      BY <1>1, <2>1 DEF Sent, Typed
    <3>2. f.type # "reset" /\ ~ owed
      BY <2>1 DEF Takes
    <3>3. Reached(e) /\ Needs(e)
      BY <2>1, <3>1, <3>2 DEF Sent, Reached, Needs
    <3>4. QED
      BY <1>1, <1>2, <1>5, <3>2, <3>3 DEF CoverInv
  <2>2. QED
    BY <1>1, <1>2, <2>1, Passing
<1>9. CoverInv'
  <2> SUFFICES ASSUME NEW e \in unseen', Reached(e)', Needs(e)', ~ owed'
               PROVE  FALSE
    BY DEF CoverInv
  <2>1. e \in unseen /\ e.o \in Origins /\ e.at \in Positions /\ ~ owed
    BY <1>4 DEF Takes
  <2>2. CASE e.o = f.o
    <3>1. AtOrBehind(e.at, f.at)
      BY <1>2, <2>2 DEF Reached, Resumes
    <3>2. applied'[e.o] = f.at /\ f.at # None
      BY <1>3, <2>2, NoneAssumption DEF Takes
    <3>3. QED
      BY <1>8, <3>1, <3>2 DEF NoSilentLoss
  <2>3. CASE e.o # f.o
    <3>1. resumeAt'[e.o] = resumeAt[e.o] /\ arm'[e.o] = arm[e.o] /\ Cur(e.o)' = Cur(e.o)
      BY <2>1, <2>3 DEF Resumes, Stamps, Sent
    <3>2. Reached(e)
      BY <3>1 DEF Reached, ResetPending
    <3>3. applied'[e.o] # None \/ (e.o \in Peers /\ Cur(e.o) # None /\ ~ AtOrBehind(e.at, Cur(e.o)))
      BY <3>1 DEF Needs
    <3>4. Needs(e)
      <4>1. CASE applied'[e.o] # None /\ applied[e.o] = None
        BY <2>1, <2>3, <4>1 DEF Takes, Needs
      <4>2. QED
        BY <3>3, <4>1 DEF Needs
    <3>5. QED
      BY <1>1, <1>2, <1>5, <2>1, <3>2, <3>4 DEF CoverInv
  <2>4. QED
    BY <2>2, <2>3
<1>10. ChainInv'
  BY DEF ChainInv, ChainOf
<1>11. QED
  BY <1>7, <1>8, <1>9, <1>10 DEF LossInv

\* The frames that were held stay in order when the resume point moves on.
LEMMA FramesGrow ==
    ASSUME TypeOK, FlowInv, CursorInv, OrderInv, NEW f, Sent(f), Resumes(f),
           NEW x \in {f, [type |-> "gap", o |-> f.o]}, Grows(x),
           UNCHANGED <<applied, last>>, SameCursor \/ (Stamps(f) /\ f.o = Local)
    PROVE  \A o \in Origins : FramesOf(o)'
<1>1. /\ f.o \in Origins /\ f.at \in Positions /\ f \in DataFrames /\ f.type # "gap"
      /\ UpTo(resumeAt[f.o], f.at) /\ UpTo(applied[f.o], f.at) /\ UpTo(Cur(f.o), f.at)
      /\ AtOrBehind(last[f.o], f.at)
      /\ f.type = "event" => /\ Under(resumeAt[f.o], f.at) /\ Under(applied[f.o], f.at)
                             /\ Under(Cur(f.o), f.at) /\ Before(last[f.o], f.at)
  BY SentAhead DEF Sent, DataFrames, ControlTypes
<1>2. Typed /\ f.at # None /\ AtOrBehind(f.at, f.at)
  BY <1>1, TypedState, NoneAssumption, OrderLaws
<1>3. link = "up" /\ head' = head /\ f.at.epoch = head[f.o].epoch
  BY DEF Sent
<1>4. \A o \in Peers : Cur(o)' = Cur(o)
  BY FanInAssumption DEF SameCursor, Stamps, Origins
<1> SUFFICES ASSUME NEW o \in Origins, NEW i \in 1 .. Len(Held'), IsFrame(i, o)'
             PROVE  /\ Held'[i].at.epoch = head[o].epoch
                    /\ resumeAt'[o] # None
                    /\ AtOrBehind(Held'[i].at, resumeAt'[o])
                    /\ UpTo(applied[o], Held'[i].at)
                    /\ AtOrBehind(last[o], Held'[i].at)
                    /\ o \in Peers => UpTo(Cur(o), Held'[i].at)
                    /\ Held'[i].type = "event" =>
                          /\ Under(applied[o], Held'[i].at)
                          /\ Before(last[o], Held'[i].at)
                          /\ o \in Peers => Under(Cur(o), Held'[i].at)
                    /\ \A j \in 1 .. Len(Held') : IsFrame(j, o)' /\ i < j =>
                          /\ AtOrBehind(Held'[i].at, Held'[j].at)
                          /\ Held'[j].type = "event" => Before(Held'[i].at, Held'[j].at)
  BY <1>3, <1>4 DEF FramesOf
<1>n. PICK n \in Nat : n = Len(Held) + 1
  BY <1>2 DEF Typed
<1>5. /\ Len(Held) \in Nat /\ Len(Held') = n /\ Held'[n] = x
      /\ \A j \in 1 .. Len(Held) : Held'[j] = Held[j]
      /\ 1 .. n = 1 .. Len(Held) \cup {n}
  BY <1>n, <1>2 DEF Grows, Typed
<1>6. \A j \in 1 .. Len(Held) : IsFrame(j, o)' <=> IsFrame(j, o)
  BY <1>5 DEF IsFrame
<1>7. IsFrame(n, o)' => x = f /\ o = f.o
  BY <1>5 DEF IsFrame
<1>8. CASE i \in 1 .. Len(Held)
  <2>1. Held'[i] = Held[i] /\ IsFrame(i, o) /\ Held[i].at \in Positions
    BY <1>2, <1>5, <1>6, <1>8 DEF Typed, IsFrame
  <2>2. /\ Held[i].at.epoch = head[o].epoch
        /\ resumeAt[o] # None
        /\ AtOrBehind(Held[i].at, resumeAt[o])
        /\ UpTo(applied[o], Held[i].at)
        /\ AtOrBehind(last[o], Held[i].at)
        /\ o \in Peers => UpTo(Cur(o), Held[i].at)
        /\ Held[i].type = "event" =>
              /\ Under(applied[o], Held[i].at)
              /\ Before(last[o], Held[i].at)
              /\ o \in Peers => Under(Cur(o), Held[i].at)
        /\ \A j \in 1 .. Len(Held) : IsFrame(j, o) /\ i < j =>
              /\ AtOrBehind(Held[i].at, Held[j].at)
              /\ Held[j].type = "event" => Before(Held[i].at, Held[j].at)
    BY <1>3, <1>8, <2>1 DEF OrderInv, FramesOf
  <2>3. resumeAt[o] \in Positions
    BY <1>2, <2>2 DEF Typed
  <2>4. o = f.o => AtOrBehind(Held[i].at, f.at) /\ (f.type = "event" => Held[i].at # f.at)
    <3>1. o = f.o => AtOrBehind(resumeAt[o], f.at) /\ (f.type = "event" => resumeAt[o] # f.at)
      BY <1>1, <2>2 DEF UpTo, Under, Before
    <3>2. QED
      BY <1>1, <2>1, <2>2, <2>3, <3>1, OrderLaws
  <2>5. resumeAt'[o] # None /\ AtOrBehind(Held[i].at, resumeAt'[o])
    BY <1>2, <2>2, <2>4 DEF Resumes
  <2>6. ASSUME NEW j \in 1 .. Len(Held'), IsFrame(j, o)', i < j
        PROVE  /\ AtOrBehind(Held[i].at, Held'[j].at)
               /\ Held'[j].type = "event" => Before(Held[i].at, Held'[j].at)
    <3>1. CASE j \in 1 .. Len(Held)
      BY <1>5, <1>6, <2>2, <2>6, <3>1
    <3>2. CASE j = n
      BY <1>5, <1>7, <2>4, <2>6, <3>2 DEF Before
    <3>3. QED
      BY <1>5, <3>1, <3>2
  <2>7. QED
    BY <2>1, <2>2, <2>5, <2>6
<1>9. CASE i = n
  <2>1. Held'[i] = f /\ o = f.o
    BY <1>5, <1>7, <1>9
  <2>2. \A j \in 1 .. Len(Held') : ~ (i < j)
    BY <1>5, <1>9
  <2>3. QED
    BY <1>1, <1>2, <1>3, <2>1, <2>2 DEF Resumes
<1>10. QED
  BY <1>5, <1>8, <1>9

(* A frame, or a gap for it, is held: it covers the events the upstream    *)
(* has moved past.                                                         *)
LEMMA HoldNew ==
    ASSUME TypeOK, FlowInv, CursorInv, LossInv, NEW f, Sent(f), Resumes(f),
           NEW x \in {f, [type |-> "gap", o |-> f.o]}, Grows(x), f.type = "reset" \/ x = f,
           UNCHANGED clientVars, dropped' = dropped,
           SameCursor \/ (Stamps(f) /\ f.o = Local)
    PROVE  LossInv'
<1>1. /\ Typed /\ OrderInv /\ NoSilentLoss /\ CoverInv /\ ChainInv
      /\ UNCHANGED <<applied, rebase, owed, unseen, last>>
  BY TypedState DEF LossInv, clientVars
<1>2. /\ f \in DataFrames /\ link = "up" /\ link' = "up" /\ head' = head
      /\ arm'[f.o].at = f.at
  BY DEF Sent
<1>3. f.o \in Origins /\ f.at \in Positions /\ f.type # "gap"
      /\ (f.type = "event" => Under(applied[f.o], f.at))
  BY <1>1, SentAhead DEF Sent, DataFrames, ControlTypes
<1>4. \A o \in Peers : Cur(o)' = Cur(o)
  BY FanInAssumption DEF SameCursor, Stamps, Origins
<1>n. PICK n \in Nat : n = Len(Held) + 1
  BY <1>1 DEF Typed
<1>5. /\ Len(Held) \in Nat /\ Len(Held') = n /\ Held'[n] = x
      /\ \A j \in 1 .. Len(Held) : Held'[j] = Held[j]
      /\ 1 .. n = 1 .. Len(Held) \cup {n} /\ n \in 1 .. n
  BY <1>n, <1>1 DEF Grows, Typed
<1>6. \A j \in 1 .. Len(Held) : \A o :
         /\ IsFrame(j, o)' <=> IsFrame(j, o)
         /\ Announces(j, o)' <=> Announces(j, o)
         /\ Moves(j, o)' <=> Moves(j, o)
  BY <1>1, <1>5 DEF IsFrame, Announces, Moves
<1>7. \A j \in 1 .. Len(Held) : \A e : IsOwn(j, e)' <=> IsOwn(j, e)
  BY <1>5 DEF IsOwn, Frame
<1>8. \A o : IsFrame(n, o)' => x = f /\ o = f.o
  BY <1>5 DEF IsFrame
<1>9. \A e : Covered(e) => Covered(e)'
  BY <1>1, <1>5, <1>6, <1>7 DEF Covered
\* The new entry covers what it moves past, or something held does.
<1>10. ASSUME NEW e \in unseen, e.o = f.o, AtOrBehind(e.at, f.at), Needs(e)
       PROVE  owed \/ Covered(e) \/ IsOwn(n, e)' \/ Announces(n, e.o)'
  <2>1. e.at \in Positions /\ e = [o |-> e.o, at |-> e.at]
    BY <1>1 DEF Typed
  <2>2. CASE f.type = "reset"
    BY <1>5, <1>10, <2>2 DEF Announces
  <2>3. CASE f.type = "event" /\ e.at = f.at
    <3>1. f = Frame("event", e.o, e.at)
      BY <1>2, <1>10, <2>3 DEF Frame, DataFrames
    <3>2. x = f
      BY <2>3
    <3>3. QED
      BY <1>5, <3>1, <3>2 DEF IsOwn, Frame
  <2>4. CASE f.type # "reset" /\ ~ (f.type = "event" /\ e.at = f.at)
    <3>1. AtOrBehind(e.at, arm[f.o].at) /\ arm[f.o] # None /\ ~ ResetPending(f.o)
      BY <1>10, <2>1, <2>4 DEF Sent
    <3>2. Reached(e)
      BY <1>10, <3>1 DEF Reached
    <3>3. QED
      BY <1>1, <1>2, <1>10, <3>2 DEF CoverInv
  <2>5. QED
    BY <2>2, <2>3, <2>4
<1>11. OrderInv'
  <2>1. \A o \in Origins : AppliedOf(o)'
    BY <1>1, <1>2 DEF OrderInv, AppliedOf
  <2>2. \A o \in Origins : ResumeOf(o)'
    BY <1>1, ResumeKept
  <2>3. \A o \in Origins : FramesOf(o)'
    BY <1>1, FramesGrow
  <2>4. \A e \in unseen' : AtOrBehind(e.at, head'[e.o])
    BY <1>1, <1>2 DEF OrderInv
  <2>5. QED
    BY <2>1, <2>2, <2>3, <2>4 DEF OrderInv
<1>12. NoSilentLoss'
  BY <1>1 DEF NoSilentLoss
<1>13. CoverInv'
  <2> SUFFICES ASSUME NEW e \in unseen, Reached(e)', Needs(e)', ~ owed
               PROVE  Covered(e)'
    BY <1>1 DEF CoverInv
  <2>1. e.o \in Origins /\ e.at \in Positions
    BY <1>1 DEF Typed
  <2>2. CASE e.o = f.o
    <3>1. AtOrBehind(e.at, f.at)
      BY <1>2, <2>2 DEF Reached, Resumes
    <3>2. Needs(e)
      <4>1. ASSUME NEW i \in 1 .. Len(Held'), IsFrame(i, e.o)', Before(Held'[i].at, e.at)
            PROVE  i \in 1 .. Len(Held) /\ IsFrame(i, e.o) /\ Before(Held[i].at, e.at)
        <5>1. i # n
          <6>1. SUFFICES ASSUME i = n PROVE FALSE
            OBVIOUS
          <6>2. Before(f.at, e.at)
            BY <1>5, <1>8, <4>1, <6>1
          <6>3. QED
            BY <1>3, <2>1, <3>1, <6>2, OrderLaws DEF Before
        <5>2. QED
          BY <1>5, <1>6, <4>1, <5>1
      <4>2. QED
        BY <1>1, <1>4, <4>1 DEF Needs
    <3>3. QED
      BY <1>5, <1>9, <1>10, <2>2, <3>1, <3>2 DEF Covered
  <2>3. CASE e.o # f.o
    <3>1. resumeAt'[e.o] = resumeAt[e.o] /\ arm'[e.o] = arm[e.o]
      BY <2>1, <2>3 DEF Resumes, Sent
    <3>2. Reached(e)
      BY <3>1 DEF Reached, ResetPending
    <3>3. Needs(e)
      <4>1. ASSUME NEW i \in 1 .. Len(Held'), IsFrame(i, e.o)', Before(Held'[i].at, e.at)
            PROVE  i \in 1 .. Len(Held) /\ IsFrame(i, e.o) /\ Before(Held[i].at, e.at)
        BY <1>5, <1>6, <1>8, <2>3, <4>1
      <4>2. QED
        BY <1>1, <1>4, <4>1 DEF Needs
    <3>4. QED
      BY <1>1, <1>2, <1>9, <3>2, <3>3 DEF CoverInv
  <2>4. QED
    BY <2>2, <2>3
<1>14. ChainInv'
  <2> SUFFICES ASSUME NEW e \in unseen, e.o \in rebase, applied[e.o] # None, ~ owed,
                      NEW i \in 1 .. Len(Held'), IsFrame(i, e.o)',
                      AtOrBehind(e.at, Held'[i].at),
                      \A j \in 1 .. i - 1 : ~ Moves(j, e.o)'
               PROVE  IsOwn(i, e)' \/ \E j \in 1 .. i : Announces(j, e.o)'
    BY <1>1 DEF ChainInv, ChainOf
  <2>1. CASE i \in 1 .. Len(Held)
    <3>1. 1 .. i \subseteq 1 .. Len(Held) /\ 1 .. i - 1 \subseteq 1 .. Len(Held)
      BY <1>5, <2>1
    <3>2. IsFrame(i, e.o) /\ AtOrBehind(e.at, Held[i].at) /\ \A j \in 1 .. i - 1 : ~ Moves(j, e.o)
      BY <1>5, <1>6, <2>1, <3>1
    <3>3. IsOwn(i, e) \/ \E j \in 1 .. i : Announces(j, e.o)
      BY <1>1, <1>2, <2>1, <3>2 DEF ChainInv, ChainOf
    <3>4. QED
      BY <1>6, <1>7, <2>1, <3>1, <3>3
  <2>2. CASE i = n
    <3>1. x = f /\ e.o = f.o /\ AtOrBehind(e.at, f.at)
      BY <1>5, <1>8, <2>2
    <3>2. \A j \in 1 .. Len(Held) : j \in 1 .. i - 1 /\ j \in 1 .. i /\ ~ Moves(j, e.o)
      BY <1>n, <1>5, <1>6, <2>2
    <3>3. CASE Covered(e)
      <4>1. \A j \in 1 .. Len(Held) : ~ IsOwn(j, e)
        <5>1. SUFFICES ASSUME NEW j \in 1 .. Len(Held), IsOwn(j, e) PROVE FALSE
          OBVIOUS
        <5>2. Held[j].type = "event" /\ Held[j].o = e.o /\ Held[j].at = e.at /\ IsFrame(j, e.o)
          BY <5>1 DEF IsOwn, Frame, IsFrame
        <5>3. Under(applied[e.o], e.at)
          BY <1>1, <1>2, <1>3, <3>1, <5>2 DEF OrderInv, FramesOf
        <5>4. Moves(j, e.o)
          BY <5>2, <5>3 DEF Under, Before, Moves
        <5>5. QED
          BY <3>2, <5>4
      <4>2. \E j \in 1 .. Len(Held) : Announces(j, e.o)
        BY <3>2, <3>3, <4>1 DEF Covered
      <4>3. QED
        BY <1>6, <3>2, <4>2
    <3>4. CASE ~ Covered(e)
      <4>1. Needs(e)
        BY DEF Needs
      <4>2. i \in 1 .. i
        BY <1>5, <2>2
      <4>3. QED
        BY <1>10, <2>2, <3>1, <3>4, <4>1, <4>2
    <3>5. QED
      BY <3>3, <3>4
  <2>3. QED
    BY <1>5, <2>1, <2>2
<1>15. QED
  BY <1>11, <1>12, <1>13, <1>14 DEF LossInv

\* The frames that are held stay as they are when only the resume point moves on.
LEMMA FramesKept ==
    ASSUME TypeOK, FlowInv, CursorInv, OrderInv, NEW f, Sent(f),
           Resumes(f) \/ resumeAt' = resumeAt,
           Held' = Held, UNCHANGED <<applied, last>>, SameCursor
    PROVE  \A o \in Origins : FramesOf(o)'
<1>1. Typed /\ link = "up" /\ head' = head
  BY TypedState DEF Sent
<1>2. f.o \in Origins /\ f.at \in Positions /\ UpTo(resumeAt[f.o], f.at)
  BY SentAhead
<1>3. \A o \in Peers : Cur(o)' = Cur(o)
  BY DEF SameCursor, Origins
<1> SUFFICES ASSUME NEW o \in Origins PROVE FramesOf(o)'
  OBVIOUS
<1>4. FramesOf(o)
  BY <1>1 DEF OrderInv
<1>5. ASSUME NEW i \in 1 .. Len(Held), IsFrame(i, o)
      PROVE  resumeAt'[o] # None /\ AtOrBehind(Held[i].at, resumeAt'[o])
  <2>1. resumeAt[o] # None /\ AtOrBehind(Held[i].at, resumeAt[o])
    BY <1>4, <1>5 DEF FramesOf
  <2>2. resumeAt[o] \in Positions /\ Held[i].at \in Positions
    BY <1>1, <1>5, <2>1 DEF Typed, IsFrame
  <2>3. CASE o = f.o /\ Resumes(f)
    <3>1. AtOrBehind(resumeAt[o], f.at)
      BY <1>2, <2>1, <2>3 DEF UpTo
    <3>2. AtOrBehind(Held[i].at, f.at)
      BY <1>2, <2>1, <2>2, <3>1, OrderLaws
    <3>3. QED
      BY <1>2, <2>3, <3>2, NoneAssumption DEF Resumes
  <2>4. QED
    BY <2>1, <2>3 DEF Resumes
<1>6. \A i, k : IsFrame(i, k)' <=> IsFrame(i, k)
  BY DEF IsFrame
<1>7. QED
  BY <1>1, <1>3, <1>4, <1>5, <1>6 DEF FramesOf

\* The order is kept by a frame of an upstream that changes neither queue nor client.
LEMMA OrderKept ==
    ASSUME TypeOK, FlowInv, CursorInv, OrderInv, NEW f, Sent(f),
           Resumes(f) \/ resumeAt' = resumeAt,
           Held' = Held, UNCHANGED <<applied, last, unseen>>, SameCursor
    PROVE  OrderInv'
<1>1. link = "up" /\ head' = head
  BY DEF Sent
<1>2. \A o \in Origins : AppliedOf(o)'
  BY <1>1 DEF OrderInv, AppliedOf
<1>3. \A o \in Origins : ResumeOf(o)' /\ FramesOf(o)'
  BY ResumeKept, FramesKept
<1>4. QED
  BY <1>1, <1>2, <1>3 DEF OrderInv

(* A frame is dropped at the bound of its origin: among the frames that    *)
(* fill it is an event, which will move the client's position before the   *)
(* gap for what is dropped re-bases it.                                    *)
LEMMA DropNew ==
    ASSUME TypeOK, FlowInv, CursorInv, LossInv, NEW f, Sent(f),
           Held' = Held, UNCHANGED clientVars, resumeAt' = resumeAt, SameCursor,
           dropped' = dropped \cup {f.o},
           \E i \in 1 .. Len(Held) : IsFrame(i, f.o) /\ Held[i].type = "event"
    PROVE  LossInv'
<1>1. /\ Typed /\ OrderInv /\ NoSilentLoss /\ CoverInv /\ ChainInv
      /\ UNCHANGED <<applied, rebase, owed, unseen, last>>
  BY TypedState DEF LossInv, clientVars
<1>2. f.o \in Origins /\ link = "up" /\ link' = "up"
  BY SentAhead, <1>1 DEF Sent
<1>3. /\ \A j, o : /\ IsFrame(j, o)' <=> IsFrame(j, o)
                   /\ Announces(j, o)' <=> Announces(j, o)
                   /\ Moves(j, o)' <=> Moves(j, o)
      /\ \A j, e : IsOwn(j, e)' <=> IsOwn(j, e)
  BY <1>1 DEF IsFrame, Announces, Moves, IsOwn, Frame
<1>4. \E i \in 1 .. Len(Held) : Moves(i, f.o)
  <2>1. PICK i \in 1 .. Len(Held) : IsFrame(i, f.o) /\ Held[i].type = "event"
    OBVIOUS
  <2>2. Under(applied[f.o], Held[i].at)
    BY <1>1, <1>2, <2>1 DEF OrderInv, FramesOf
  <2>3. Held[i].at \in Positions
    BY <1>1, <2>1 DEF Typed, IsFrame
  <2>4. Moves(i, f.o)
    BY <2>1, <2>2, <2>3, NoneAssumption DEF Under, Before, Moves
  <2>5. QED
    BY <2>4
<1>5. OrderInv'
  BY <1>1, OrderKept
<1>6. NoSilentLoss'
  BY <1>1 DEF NoSilentLoss
<1>7. CoverInv'
  <2> SUFFICES ASSUME NEW e \in unseen, Reached(e)', Needs(e)', ~ owed
               PROVE  Covered(e)'
    BY <1>1 DEF CoverInv
  <2>1. e.o \in Origins
    BY <1>1 DEF Typed
  <2>2. CASE e.o = f.o
    BY <1>3, <1>4, <2>2 DEF Covered
  <2>3. CASE e.o # f.o
    <3>1. arm'[e.o] = arm[e.o]
      BY <2>1, <2>3 DEF Sent
    <3>2. Reached(e)
      BY <3>1 DEF Reached, ResetPending
    <3>3. Needs(e)
      BY <1>1, <1>3 DEF Needs, SameCursor, Origins
    <3>4. Covered(e)
      BY <1>1, <1>2, <3>2, <3>3 DEF CoverInv
    <3>5. QED
      BY <1>1, <1>3, <3>4 DEF Covered
  <2>4. QED
    BY <2>2, <2>3
<1>8. ChainInv'
  BY <1>1, <1>2, <1>3 DEF ChainInv, ChainOf
<1>9. QED
  BY <1>5, <1>6, <1>7, <1>8 DEF LossInv

\* The handshake of a re-opened upstream is kept back: the resume point is where it was.
LEMMA KeepBack ==
    ASSUME TypeOK, FlowInv, CursorInv, LossInv, NEW f, Sent(f), Resumes(f),
           f.type = "connected",
           Held' = Held, UNCHANGED clientVars, SameCursor, dropped' = dropped
    PROVE  LossInv'
<1>1. /\ Typed /\ OrderInv /\ NoSilentLoss /\ CoverInv /\ ChainInv
      /\ UNCHANGED <<applied, rebase, owed, unseen, last>>
  BY TypedState DEF LossInv, clientVars
<1>2. f.o \in Origins /\ link = "up" /\ link' = "up"
  BY SentAhead, <1>1 DEF Sent
<1>3. /\ \A j, o : /\ IsFrame(j, o)' <=> IsFrame(j, o)
                   /\ Announces(j, o)' <=> Announces(j, o)
                   /\ Moves(j, o)' <=> Moves(j, o)
      /\ \A j, e : IsOwn(j, e)' <=> IsOwn(j, e)
  BY <1>1 DEF IsFrame, Announces, Moves, IsOwn, Frame
<1>4. OrderInv'
  BY <1>1, OrderKept
<1>5. NoSilentLoss'
  BY <1>1 DEF NoSilentLoss
<1>6. CoverInv'
  <2> SUFFICES ASSUME NEW e \in unseen, Reached(e)', Needs(e)', ~ owed
               PROVE  Covered(e)'
    BY <1>1 DEF CoverInv
  <2>1. e.o \in Origins /\ e.at \in Positions
    BY <1>1 DEF Typed
  <2>2. Reached(e)
    <3>1. CASE e.o = f.o
      <4>1. AtOrBehind(e.at, f.at)
        BY <3>1 DEF Reached, Resumes, Sent
      <4>2. AtOrBehind(e.at, arm[f.o].at) /\ arm[f.o] # None /\ ~ ResetPending(f.o)
        BY <2>1, <4>1 DEF Sent
      <4>3. QED
        BY <3>1, <4>2 DEF Reached
    <3>2. CASE e.o # f.o
      <4>1. resumeAt'[e.o] = resumeAt[e.o] /\ arm'[e.o] = arm[e.o]
        BY <2>1, <3>2 DEF Resumes, Sent
      <4>2. QED
        BY <4>1 DEF Reached, ResetPending
    <3>3. QED
      BY <3>1, <3>2
  <2>3. Needs(e)
    BY <1>1, <1>3 DEF Needs, SameCursor, Origins
  <2>4. Covered(e)
    BY <1>1, <1>2, <2>2, <2>3 DEF CoverInv
  <2>5. QED
    BY <1>1, <1>3, <2>4 DEF Covered
<1>7. ChainInv'
  BY <1>1, <1>2, <1>3 DEF ChainInv, ChainOf
<1>8. QED
  BY <1>4, <1>5, <1>6, <1>7 DEF LossInv

\* A step that makes a resync due loses nothing silently.
LEMMA Loud ==
    ASSUME OrderInv', owed'
    PROVE  LossInv'
  BY DEF LossInv, NoSilentLoss, CoverInv, ChainInv

\* A reset of an upstream is announced at once.
LEMMA GapNow ==
    ASSUME TypeOK, FlowInv, CursorInv, LossInv, NEW f, Sent(f), Resumes(f),
           Held' = Held, SameCursor, ReceiveGap({f.o})
    PROVE  LossInv'
<1>1. OrderInv'
  BY OrderKept DEF LossInv, ReceiveGap
<1>2. owed'
  BY DEF ReceiveGap
<1>3. QED
  BY <1>1, <1>2, Loud

-----------------------------------------------------------------------------
(* resume() writes what is held                                            *)

\* The entries behind the first one move up.
LEMMA Shifted ==
    ASSUME Typed, Shrinks
    PROVE  /\ Len(Held') \in Nat
           /\ \A i \in 1 .. Len(Held') :
                 /\ i + 1 \in 1 .. Len(Held) /\ Held'[i] = Held[i + 1]
                 /\ \A o : /\ IsFrame(i, o)' <=> IsFrame(i + 1, o)
                           /\ Announces(i, o)' <=> Announces(i + 1, o)
                 /\ \A e : IsOwn(i, e)' <=> IsOwn(i + 1, e)
           /\ \A j \in 1 .. Len(Held) :
                 \/ j = 1
                 \/ \E i \in 1 .. Len(Held') : j = i + 1
<1>1. Len(Held) \in Nat /\ Len(Held) = Len(Held') + 1
  BY DEF Typed, Shrinks
<1>2. Len(Held') \in Nat
  BY DEF Shrinks
<1>3. \A i \in 1 .. Len(Held') : i + 1 \in 1 .. Len(Held) /\ Held'[i] = Held[i + 1]
  BY <1>1, <1>2 DEF Shrinks
<1>4. \A i \in 1 .. Len(Held') :
         /\ \A o : /\ IsFrame(i, o)' <=> IsFrame(i + 1, o)
                   /\ Announces(i, o)' <=> Announces(i + 1, o)
         /\ \A e : IsOwn(i, e)' <=> IsOwn(i + 1, e)
  BY <1>3 DEF IsFrame, Announces, IsOwn, Frame
<1>5. ASSUME NEW j \in 1 .. Len(Held), j # 1
      PROVE  \E i \in 1 .. Len(Held') : j = i + 1
  <2>1. j - 1 \in 1 .. Len(Held') /\ j = (j - 1) + 1
    BY <1>1, <1>2, <1>5
  <2>2. QED
    BY <2>1
<1>6. QED
  BY <1>2, <1>3, <1>4, <1>5

(* The first held frame is written: what the client passes with it was     *)
(* announced, or is the frame's own event.                                 *)
LEMMA TakeHeld ==
    ASSUME TypeOK, FlowInv, CursorInv, LossInv, link = "up",
           UNCHANGED <<link, head, arm, resumeAt, dropped>>,
           Shrinks, 1 \in 1 .. Len(Held), NEW f, f = Held[1], f.type # "gap", Takes(f),
           \/ SameCursor /\ f.o = Local /\ Cur(Local) # None /\ AtOrBehind(f.at, Cur(Local))
           \/ Stamps(f)
    PROVE  LossInv'
<1>1. Typed /\ OrderInv /\ NoSilentLoss /\ CoverInv /\ ChainInv
  BY TypedState DEF LossInv
<1>2. /\ f \in DataFrames /\ f.o \in Origins /\ f.at \in Positions
      /\ IsFrame(1, f.o)
  BY <1>1 DEF Typed, IsFrame
<1>3. /\ f.at # None /\ AtOrBehind(f.at, f.at) /\ applied'[f.o] = f.at
      /\ \A o \in Origins \ {f.o} : Cur(o)' = Cur(o)
  BY <1>2, NoneAssumption, OrderLaws DEF Takes, SameCursor, Stamps
<1>4. /\ Len(Held') \in Nat
      /\ \A i \in 1 .. Len(Held') :
            /\ i + 1 \in 1 .. Len(Held) /\ Held'[i] = Held[i + 1]
            /\ \A o : /\ IsFrame(i, o)' <=> IsFrame(i + 1, o)
                      /\ Announces(i, o)' <=> Announces(i + 1, o)
            /\ \A e : IsOwn(i, e)' <=> IsOwn(i + 1, e)
      /\ \A j \in 1 .. Len(Held) : j = 1 \/ \E i \in 1 .. Len(Held') : j = i + 1
  BY <1>1, Shifted
<1>5. /\ FramesOf(f.o) /\ ResumeOf(f.o) /\ resumeAt[f.o] # None
      /\ AtOrBehind(f.at, resumeAt[f.o]) /\ AtOrBehind(last[f.o], f.at)
  BY <1>1, <1>2 DEF OrderInv, FramesOf
<1>6. resumeAt[f.o] \in Positions /\ head[f.o] \in Positions /\ AtOrBehind(f.at, head[f.o])
  <2>1. resumeAt[f.o] \in Positions /\ head[f.o] \in Positions
    BY <1>1, <1>2, <1>5 DEF Typed
  <2>2. AtOrBehind(resumeAt[f.o], head[f.o])
    BY <1>5 DEF ResumeOf
  <2>3. QED
    BY <1>2, <1>5, <2>1, <2>2, OrderLaws
<1>7. \A e \in unseen' : /\ e \in unseen /\ e.o \in Origins /\ e.at \in Positions
                         /\ ~ IsOwn(1, e)
  <2> SUFFICES ASSUME NEW e \in unseen' PROVE e \in unseen /\ ~ IsOwn(1, e)
    BY <1>1 DEF Typed
  <2>1. e \in unseen /\ ~ (f.type = "event" /\ e = [o |-> f.o, at |-> f.at])
    BY DEF Takes
  <2>2. e = [o |-> e.o, at |-> e.at]
    BY <1>1, <2>1 DEF Typed
  <2>3. QED
    BY <2>1, <2>2 DEF IsOwn, Frame
<1>8. owed => owed'
  BY DEF Takes
<1>9. \A o : Announces(1, o) => owed'
  BY DEF Announces, Takes
<1>10. OrderInv'
  <2>1. \A o \in Origins : AppliedOf(o)'
    BY <1>1, <1>2, <1>5, <1>6, TakenBehind
  <2>2. ASSUME NEW o \in Origins PROVE ResumeOf(o)'
    <3>1. ResumeOf(o)
      BY <1>1 DEF OrderInv
    <3>2. CASE o # f.o
      <4>1. last'[o] = last[o] /\ Cur(o)' = Cur(o)
        BY <1>2, <1>3, <3>2 DEF Takes, TypeOK
      <4>2. QED
        BY <3>1, <4>1 DEF ResumeOf
    <3>3. CASE o = f.o
      <4>1. last'[o] \in {f.at, last[o]}
        BY <1>2, <3>3 DEF Takes, TypeOK
      <4>2. AtOrBehind(last'[o], f.at) /\ last'[o] \in Positions
        BY <1>1, <1>2, <1>3, <1>5, <3>3, <4>1 DEF Typed
      <4>3. AtOrBehind(last'[o], resumeAt[o])
        BY <1>2, <1>5, <1>6, <3>3, <4>2, OrderLaws
      <4>4. arm[o] # None => AtOrBehind(last'[o], arm[o].at)
        <5>1. arm[o] # None => AtOrBehind(resumeAt[o], arm[o].at) /\ arm[o].at \in Positions
          BY <1>1, <1>5, <3>1, <3>3 DEF ResumeOf, UpTo, Typed
        <5>2. QED
          BY <1>6, <3>3, <4>2, <4>3, <5>1, OrderLaws
      <4>5. /\ Cur(o)' # None /\ AtOrBehind(Cur(o)', resumeAt[o]) /\ AtOrBehind(last'[o], Cur(o)')
        <5>1. CASE Stamps(f)
          BY <1>3, <1>5, <3>3, <4>2, <5>1 DEF Stamps
        <5>2. CASE SameCursor /\ f.o = Local /\ Cur(Local) # None /\ AtOrBehind(f.at, Cur(Local))
          <6>1. Cur(o)' = Cur(o) /\ Cur(o) # None /\ AtOrBehind(f.at, Cur(o))
            BY <3>3, <5>2 DEF SameCursor
          <6>2. Cur(o) \in Positions /\ AtOrBehind(Cur(o), resumeAt[o])
            BY <1>1, <3>1, <6>1 DEF Typed, ResumeOf
          <6>3. QED
            BY <1>2, <4>2, <6>1, <6>2, OrderLaws
        <5>3. QED
          BY <5>1, <5>2
      <4>6. QED
        BY <1>5, <3>1, <3>3, <4>3, <4>4, <4>5 DEF ResumeOf
    <3>4. QED
      BY <3>2, <3>3
  <2>3. ASSUME NEW o \in Origins PROVE FramesOf(o)'
    <3> SUFFICES ASSUME NEW k \in 1 .. Len(Held'), IsFrame(k, o)'
                 PROVE  /\ Held'[k].at.epoch = head[o].epoch
                        /\ resumeAt[o] # None
                        /\ AtOrBehind(Held'[k].at, resumeAt[o])
                        /\ UpTo(applied'[o], Held'[k].at)
                        /\ AtOrBehind(last'[o], Held'[k].at)
                        /\ o \in Peers => UpTo(Cur(o)', Held'[k].at)
                        /\ Held'[k].type = "event" =>
                              /\ Under(applied'[o], Held'[k].at)
                              /\ Before(last'[o], Held'[k].at)
                              /\ o \in Peers => Under(Cur(o)', Held'[k].at)
                        /\ \A j \in 1 .. Len(Held') : IsFrame(j, o)' /\ k < j =>
                              /\ AtOrBehind(Held'[k].at, Held'[j].at)
                              /\ Held'[j].type = "event" => Before(Held'[k].at, Held'[j].at)
      BY DEF FramesOf
    <3>i. PICK i \in 1 .. Len(Held) : i = k + 1
      BY <1>4
    <3>1. IsFrame(i, o) /\ Held'[k] = Held[i] /\ 1 < i /\ Held[i].at \in Positions
      BY <1>1, <1>4, <3>i DEF Typed, IsFrame
    <3>2. /\ Held[i].at.epoch = head[o].epoch
          /\ resumeAt[o] # None
          /\ AtOrBehind(Held[i].at, resumeAt[o])
          /\ UpTo(applied[o], Held[i].at)
          /\ AtOrBehind(last[o], Held[i].at)
          /\ o \in Peers => UpTo(Cur(o), Held[i].at)
          /\ Held[i].type = "event" =>
                /\ Under(applied[o], Held[i].at)
                /\ Before(last[o], Held[i].at)
                /\ o \in Peers => Under(Cur(o), Held[i].at)
          /\ \A j \in 1 .. Len(Held) : IsFrame(j, o) /\ i < j =>
                /\ AtOrBehind(Held[i].at, Held[j].at)
                /\ Held[j].type = "event" => Before(Held[i].at, Held[j].at)
      BY <1>1, <3>1 DEF OrderInv, FramesOf
    <3>3. \A j \in 1 .. Len(Held') : IsFrame(j, o)' /\ k < j =>
             /\ AtOrBehind(Held[i].at, Held'[j].at)
             /\ Held'[j].type = "event" => Before(Held[i].at, Held'[j].at)
      <4> SUFFICES ASSUME NEW j \in 1 .. Len(Held'), IsFrame(j, o)', k < j
                   PROVE  /\ AtOrBehind(Held[i].at, Held'[j].at)
                          /\ Held'[j].type = "event" => Before(Held[i].at, Held'[j].at)
        OBVIOUS
      <4>1. j + 1 \in 1 .. Len(Held) /\ IsFrame(j + 1, o) /\ i < j + 1 /\ Held'[j] = Held[j + 1]
        BY <1>4, <3>i
      <4>2. QED
        BY <3>2, <4>1
    <3>4. CASE o = f.o
      <4>1. /\ AtOrBehind(f.at, Held[i].at)
            /\ Held[i].type = "event" => Before(f.at, Held[i].at)
        BY <1>2, <1>5, <3>1, <3>4 DEF FramesOf
      <4>2. last'[o] \in {f.at, last[o]}
        BY <1>2, <3>4 DEF Takes, TypeOK
      <4>3. o \in Peers => Cur(o)' = f.at
        BY <3>4, FanInAssumption DEF Stamps
      <4>4. QED
        BY <1>3, <3>1, <3>2, <3>3, <3>4, <4>1, <4>2, <4>3 DEF UpTo, Under
    <3>5. CASE o # f.o
      <4>1. last'[o] = last[o] /\ Cur(o)' = Cur(o)
        BY <1>2, <1>3, <3>5 DEF Takes, TypeOK
      <4>2. applied'[o] \in {applied[o], None} \/ (o \in Peers /\ applied'[o] = Cur(o))
        BY <3>5 DEF Takes
      <4>3. QED
        BY <3>1, <3>2, <3>3, <4>1, <4>2 DEF UpTo, Under
    <3>6. QED
      BY <3>4, <3>5
  <2>4. \A e \in unseen' : AtOrBehind(e.at, head[e.o])
    BY <1>1, <1>7 DEF OrderInv
  <2>5. QED
    BY <2>1, <2>2, <2>3, <2>4 DEF OrderInv
<1>11. NoSilentLoss'
  <2>1. ASSUME NEW e \in unseen, e.o = f.o, f.o \in rebase, applied[f.o] # None,
               AtOrBehind(e.at, f.at), ~ owed'
        PROVE  f.type = "event" /\ e.at = f.at
    <3>1. ChainOf(e)
      BY <1>1, <1>8, <2>1 DEF ChainInv
    <3>2. \A j \in 1 .. 1 - 1 : FALSE
      OBVIOUS
    <3>3. IsOwn(1, e) \/ \E j \in 1 .. 1 : Announces(j, e.o)
      BY <1>2, <2>1, <3>1, <3>2 DEF ChainOf
    <3>4. \A j \in 1 .. 1 : j = 1
      OBVIOUS
    <3>5. IsOwn(1, e)
      BY <1>9, <2>1, <3>3, <3>4
    <3>6. QED
      BY <3>5 DEF IsOwn, Frame
  <2>2. QED
    BY <1>1, <1>2, <2>1, Passing
<1>12. CoverInv'
  <2> SUFFICES ASSUME NEW e \in unseen', Reached(e)', Needs(e)', ~ owed'
               PROVE  Covered(e)'
    BY DEF CoverInv
  <2>1. e \in unseen /\ e.o \in Origins /\ e.at \in Positions /\ ~ IsOwn(1, e)
    BY <1>7
  <2>2. Reached(e)
    BY DEF Reached, ResetPending
  <2>3. Needs(e)
    <3>1. CASE applied'[e.o] # None
      <4>1. CASE applied[e.o] # None
        BY <4>1 DEF Needs
      <4>2. CASE applied[e.o] = None
        <5>1. ~ AtOrBehind(e.at, applied'[e.o])
          BY <3>1, <4>2 DEF Takes
        <5>2. CASE e.o = f.o
          <6>1. Before(f.at, e.at)
            BY <1>2, <1>3, <2>1, <5>1, <5>2, OrderLaws DEF Before
          <6>2. QED
            BY <1>2, <5>2, <6>1 DEF Needs
        <5>3. CASE e.o # f.o
          BY <2>1, <3>1, <4>2, <5>1, <5>3 DEF Takes, Needs
        <5>4. QED
          BY <5>2, <5>3
      <4>3. QED
        BY <4>1, <4>2
    <3>2. CASE e.o \in Peers /\ Cur(e.o)' # None /\ ~ AtOrBehind(e.at, Cur(e.o)')
      <4>1. CASE e.o = f.o
        <5>1. Cur(e.o)' = f.at
          BY <3>2, <4>1, FanInAssumption DEF Stamps
        <5>2. Before(f.at, e.at)
          BY <1>2, <1>3, <2>1, <3>2, <5>1, OrderLaws DEF Before
        <5>3. QED
          BY <1>2, <4>1, <5>2 DEF Needs
      <4>2. CASE e.o # f.o
        BY <1>3, <2>1, <3>2, <4>2 DEF Needs
      <4>3. QED
        BY <4>1, <4>2
    <3>3. CASE \E i \in 1 .. Len(Held') : IsFrame(i, e.o)' /\ Before(Held'[i].at, e.at)
      BY <1>4, <3>3 DEF Needs
    <3>4. QED
      BY <3>1, <3>2, <3>3 DEF Needs
  <2>4. Covered(e)
    BY <1>1, <1>8, <2>1, <2>2, <2>3 DEF CoverInv
  <2>5. CASE \E i \in 1 .. Len(Held) : IsOwn(i, e) \/ Announces(i, e.o)
    <3>1. PICK i \in 1 .. Len(Held) : IsOwn(i, e) \/ Announces(i, e.o)
      BY <2>5
    <3>2. i # 1
      BY <1>9, <2>1, <3>1
    <3>3. PICK k \in 1 .. Len(Held') : i = k + 1
      BY <1>4, <3>2
    <3>4. IsOwn(k, e)' \/ Announces(k, e.o)'
      BY <1>4, <3>1, <3>3
    <3>5. QED
      BY <3>4 DEF Covered
  <2>6. CASE /\ e.o \in dropped
             /\ \/ applied[e.o] = None
                \/ e.o \notin rebase
                \/ \E i \in 1 .. Len(Held) : Moves(i, e.o)
    <3>1. CASE applied'[e.o] = None \/ e.o \notin rebase'
      BY <2>6, <3>1 DEF Covered
    <3>2. CASE applied'[e.o] # None /\ e.o \in rebase'
      <4>1. applied'[e.o] = applied[e.o] /\ e.o \in rebase
        BY <3>2 DEF Takes
      <4>2. PICK i \in 1 .. Len(Held) : Moves(i, e.o)
        BY <2>6, <3>2, <4>1
      <4>3. i # 1
        BY <1>3, <4>1, <4>2 DEF Moves, IsFrame
      <4>4. PICK k \in 1 .. Len(Held') : i = k + 1
        BY <1>4, <4>3
      <4>5. Moves(k, e.o)'
        BY <1>4, <4>1, <4>2, <4>4 DEF Moves
      <4>6. QED
        BY <2>6, <4>5 DEF Covered
    <3>3. QED
      BY <3>1, <3>2
  <2>7. QED
    BY <2>4, <2>5, <2>6 DEF Covered
<1>13. ChainInv'
  <2> SUFFICES ASSUME NEW e \in unseen', e.o \in rebase', applied'[e.o] # None, ~ owed',
                      NEW k \in 1 .. Len(Held'), IsFrame(k, e.o)',
                      AtOrBehind(e.at, Held'[k].at),
                      \A j \in 1 .. k - 1 : ~ Moves(j, e.o)'
               PROVE  IsOwn(k, e)' \/ \E j \in 1 .. k : Announces(j, e.o)'
    BY DEF ChainInv, ChainOf
  <2>1. e \in unseen /\ applied'[e.o] = applied[e.o] /\ e.o \in rebase /\ ~ owed
    BY <1>7, <1>8 DEF Takes
  <2>2. ChainOf(e)
    BY <1>1, <2>1 DEF ChainInv
  <2>i. PICK i \in 1 .. Len(Held) : i = k + 1
    BY <1>4
  <2>3. IsFrame(i, e.o) /\ Held'[k] = Held[i]
    BY <1>4, <2>i
  <2>4. ASSUME NEW j \in 1 .. i - 1 PROVE ~ Moves(j, e.o)
    <3>1. CASE j = 1
      BY <1>3, <2>1, <3>1 DEF Moves, IsFrame
    <3>2. CASE j # 1
      <4>1. j \in 1 .. Len(Held)
        BY <1>4, <2>i
      <4>2. PICK l \in 1 .. Len(Held') : j = l + 1
        BY <1>4, <3>2, <4>1
      <4>3. l \in 1 .. k - 1
        BY <1>4, <2>i, <4>2
      <4>4. QED
        BY <1>4, <2>1, <4>2, <4>3 DEF Moves
    <3>3. QED
      BY <3>1, <3>2
  <2>5. IsOwn(i, e) \/ \E j \in 1 .. i : Announces(j, e.o)
    BY <2>2, <2>3, <2>4 DEF ChainOf
  <2>6. CASE IsOwn(i, e)
    BY <1>4, <2>i, <2>6
  <2>7. ASSUME NEW j \in 1 .. i, Announces(j, e.o) PROVE \E l \in 1 .. k : Announces(l, e.o)'
    <3>1. j # 1 /\ j \in 1 .. Len(Held)
      BY <1>4, <1>9, <2>7, <2>i
    <3>2. PICK l \in 1 .. Len(Held') : j = l + 1
      BY <1>4, <3>1
    <3>3. l \in 1 .. k
      BY <1>4, <2>i, <2>7, <3>2
    <3>4. QED
      BY <1>4, <2>7, <3>2, <3>3
  <2>8. QED
    BY <2>5, <2>6, <2>7
<1>14. QED
  BY <1>10, <1>11, <1>12, <1>13 DEF LossInv

\* A held gap is written: the client fetches the fleet's state.
LEMMA GapHeld ==
    ASSUME TypeOK, LossInv, link = "up", UNCHANGED <<link, head, arm, resumeAt>>, SameCursor,
           Shrinks, UNCHANGED <<applied, unseen, last>>, owed'
    PROVE  LossInv'
<1>1. Typed /\ OrderInv
  BY TypedState DEF LossInv
<1>2. /\ Len(Held') \in Nat
      /\ \A i \in 1 .. Len(Held') :
            /\ i + 1 \in 1 .. Len(Held) /\ Held'[i] = Held[i + 1]
            /\ \A o : IsFrame(i, o)' <=> IsFrame(i + 1, o)
  BY <1>1, Shifted
<1>3. ASSUME NEW o \in Origins PROVE FramesOf(o)'
  <2>1. FramesOf(o) /\ Cur(o)' = Cur(o)
    BY <1>1 DEF OrderInv, SameCursor
  <2> SUFFICES ASSUME NEW k \in 1 .. Len(Held'), IsFrame(k, o)'
               PROVE  /\ Held'[k].at.epoch = head[o].epoch
                      /\ resumeAt[o] # None
                      /\ AtOrBehind(Held'[k].at, resumeAt[o])
                      /\ UpTo(applied[o], Held'[k].at)
                      /\ AtOrBehind(last[o], Held'[k].at)
                      /\ o \in Peers => UpTo(Cur(o), Held'[k].at)
                      /\ Held'[k].type = "event" =>
                            /\ Under(applied[o], Held'[k].at)
                            /\ Before(last[o], Held'[k].at)
                            /\ o \in Peers => Under(Cur(o), Held'[k].at)
                      /\ \A j \in 1 .. Len(Held') : IsFrame(j, o)' /\ k < j =>
                            /\ AtOrBehind(Held'[k].at, Held'[j].at)
                            /\ Held'[j].type = "event" => Before(Held'[k].at, Held'[j].at)
    BY <2>1 DEF FramesOf
  <2>i. PICK i \in 1 .. Len(Held) : i = k + 1
    BY <1>2
  <2>2. IsFrame(i, o) /\ Held'[k] = Held[i]
    BY <1>2, <2>i
  <2>3. \A j \in 1 .. Len(Held') : IsFrame(j, o)' /\ k < j =>
           /\ AtOrBehind(Held[i].at, Held'[j].at)
           /\ Held'[j].type = "event" => Before(Held[i].at, Held'[j].at)
    <3> SUFFICES ASSUME NEW j \in 1 .. Len(Held'), IsFrame(j, o)', k < j
                 PROVE  /\ AtOrBehind(Held[i].at, Held'[j].at)
                        /\ Held'[j].type = "event" => Before(Held[i].at, Held'[j].at)
      OBVIOUS
    <3>1. j + 1 \in 1 .. Len(Held) /\ IsFrame(j + 1, o) /\ i < j + 1 /\ Held'[j] = Held[j + 1]
      BY <1>2, <2>i
    <3>2. QED
      BY <2>1, <2>2, <3>1 DEF FramesOf
  <2>4. QED
    BY <2>1, <2>2, <2>3 DEF FramesOf
<1>4. ASSUME NEW o \in Origins PROVE ResumeOf(o)' /\ AppliedOf(o)'
  BY <1>1 DEF OrderInv, ResumeOf, AppliedOf, SameCursor
<1>5. OrderInv'
  BY <1>1, <1>3, <1>4 DEF OrderInv
<1>6. QED
  BY <1>5, Loud

\* Nothing is taken or held, and no event is reached that was not.
LEMMA Still ==
    ASSUME Typed, NoSilentLoss, CoverInv, ChainInv, link' = link \/ link' = "down",
           UNCHANGED <<dropped, applied, rebase, owed, unseen>>, Held' = Held, SameCursor,
           \A e \in unseen : link = "up" /\ Reached(e)' /\ Needs(e) => Reached(e)
    PROVE  NoSilentLoss' /\ CoverInv' /\ ChainInv'
<1>1. /\ \A j, o : /\ IsFrame(j, o)' <=> IsFrame(j, o)
                   /\ Announces(j, o)' <=> Announces(j, o)
                   /\ Moves(j, o)' <=> Moves(j, o)
      /\ \A j, e : IsOwn(j, e)' <=> IsOwn(j, e)
  BY DEF IsFrame, Announces, Moves, IsOwn, Frame
<1>2. NoSilentLoss'
  BY DEF NoSilentLoss
<1>3. CoverInv'
  <2> SUFFICES ASSUME link' = "up", NEW e \in unseen, Reached(e)', Needs(e)', ~ owed
               PROVE  Covered(e)'
    BY DEF CoverInv
  <2>1. link = "up"
    OBVIOUS
  <2>2. Needs(e)
    BY <1>1 DEF Needs, SameCursor, Origins
  <2>3. Covered(e)
    BY <2>1, <2>2 DEF CoverInv
  <2>4. QED
    BY <1>1, <2>3 DEF Covered
<1>4. ChainInv'
  BY <1>1 DEF ChainInv, ChainOf
<1>5. QED
  BY <1>2, <1>3, <1>4

\* The order is kept by what changes neither cursors nor engines.
LEMMA OrderStill ==
    ASSUME OrderInv, link' = link \/ link' = "down",
           UNCHANGED <<head, applied, last>>, unseen' \subseteq unseen,
           link' = "up" => /\ Held' = Held /\ SameCursor /\ resumeAt' = resumeAt
                           /\ \A o \in Origins :
                                 arm'[o] = arm[o] \/ arm'[o] = None
    PROVE  OrderInv'
<1>1. \A o \in Origins : AppliedOf(o)'
  BY DEF OrderInv, AppliedOf
<1>2. ASSUME link' = "up", NEW o \in Origins PROVE FramesOf(o)' /\ ResumeOf(o)'
  <2>1. FramesOf(o) /\ ResumeOf(o) /\ Cur(o)' = Cur(o) /\ (arm'[o] = arm[o] \/ arm'[o] = None)
    BY <1>2 DEF OrderInv, SameCursor
  <2>2. FramesOf(o)'
    <3>1. \A i : IsFrame(i, o)' <=> IsFrame(i, o)
      BY <1>2 DEF IsFrame
    <3>2. QED
      BY <1>2, <2>1, <3>1 DEF FramesOf
  <2>3. ResumeOf(o)'
    BY <1>2, <2>1 DEF ResumeOf
  <2>4. QED
    BY <2>2, <2>3
<1>3. QED
  BY <1>1, <1>2 DEF OrderInv

\* A step that moves no frame, no cursor, no upstream and no engine.
LEMMA Unmoved ==
    ASSUME TypeOK, LossInv, UNCHANGED <<link, head, arm, resumeAt, dropped>>,
           Held' = Held, SameCursor, UNCHANGED <<applied, rebase, owed, unseen, last>>
    PROVE  LossInv'
<1>1. Typed /\ OrderInv /\ NoSilentLoss /\ CoverInv /\ ChainInv
  BY TypedState DEF LossInv
<1>2. \A e : Reached(e)' => Reached(e)
  BY DEF Reached, ResetPending
<1>3. NoSilentLoss' /\ CoverInv' /\ ChainInv'
  BY <1>1, <1>2, Still
<1>4. OrderInv'
  BY <1>1, OrderStill
<1>5. QED
  BY <1>3, <1>4 DEF LossInv

-----------------------------------------------------------------------------
(* The connection, its arms and the engines                                *)

\* An upstream is opened where its cursor is, or it announces a reset.
LEMMA OpenedAt ==
    ASSUME TypeOK, NEW o \in Origins, NEW p \in Positions \cup {None}, UpTo(p, head[o])
    PROVE  /\ Opened(o, p).at \in Positions
           /\ Opened(o, p).at.epoch = head[o].epoch
           /\ AtOrBehind(Opened(o, p).at, head[o])
           /\ UpTo(p, Opened(o, p).at)
           /\ Opened(o, p).at \in {p, head[o]}
           /\ Opened(o, p).hello \in {<<"connected">>, <<"reset", "connected">>}
           /\ \/ p = None
              \/ Opened(o, p).at = p
              \/ Opened(o, p).hello = <<"reset", "connected">>
<1>1. head[o] \in Positions /\ AtOrBehind(head[o], head[o])
  BY OrderLaws DEF TypeOK
<1>2. CASE p = None
  BY <1>1, <1>2 DEF Opened, UpTo
<1>3. CASE p # None /\ p.epoch = head[o].epoch /\ p.seq <= head[o].seq /\ p.seq >= floor[o]
  <2>1. Opened(o, p) = [hello |-> <<"connected">>, at |-> p]
    BY <1>3 DEF Opened
  <2>2. AtOrBehind(p, head[o]) /\ p \in Positions /\ AtOrBehind(p, p)
    BY <1>3, OrderLaws DEF UpTo
  <2>3. QED
    BY <1>1, <1>3, <2>1, <2>2 DEF UpTo
<1>4. CASE p # None /\ ~ (p.epoch = head[o].epoch /\ p.seq <= head[o].seq /\ p.seq >= floor[o])
  <2>1. Opened(o, p) = [hello |-> <<"reset", "connected">>, at |-> head[o]]
    BY <1>4 DEF Opened
  <2>2. QED
    BY <1>1, <1>4, <2>1 DEF UpTo
<1>5. QED
  BY <1>2, <1>3, <1>4

\* A new connection starts from what the client knows.
LEMMA ConnectKeeps ==
    ASSUME TypeOK, FlowInv, CursorInv, LossInv, Connect
    PROVE  /\ LossInv'
           /\ \A o \in Origins : Cur(o)' = applied[o] /\ resumeAt'[o] = applied[o]
           /\ Len(Held') = 0
<1> DEFINE cursor == IF raw = None THEN <<>> ELSE raw.at
<1>1. /\ Typed /\ OrderInv /\ NoSilentLoss /\ CoverInv /\ ChainInv
      /\ UNCHANGED <<applied, rebase, owed, unseen, last, head>>
  BY TypedState DEF LossInv, Connect, clientVars, engineVars
<1>2. PICK usable \in SUBSET Peers :
         /\ SeedCursor(cursor)
         /\ arm' = [o \in Origins |-> IF o \in usable \cup {Local}
                                      THEN Opened(o, Get(cursor, o)) ELSE None]
  BY DEF Connect
<1>3. ASSUME NEW o \in Origins PROVE Get(cursor, o) = applied[o]
  <2>1. applied[o] = IF raw = None THEN None ELSE Get(raw.at, o)
    BY DEF CursorInv
  <2>2. Get(<<>>, o) = None
    BY DEF Get, Keys
  <2>3. QED
    BY <2>1, <2>2
<1>4. composite' = cursor /\ resumeAt' = [o \in Origins |-> Get(cursor, o)]
  BY <1>2 DEF SeedCursor
<1> HIDE DEF cursor
<1>5. \A o \in Origins : Cur(o)' = applied[o] /\ resumeAt'[o] = applied[o]
  BY <1>3, <1>4 DEF Cur
<1>6. verbatim' = <<>> /\ pending' = <<>> /\ dropped' = {}
  BY DEF Connect
<1>7. Len(Held') = 0
  BY <1>6, EmptyQueues DEF Held
<1>8. ASSUME NEW o \in Origins, arm'[o] # None
      PROVE  /\ arm'[o].at \in Positions
             /\ arm'[o].at.epoch = head[o].epoch
             /\ AtOrBehind(arm'[o].at, head[o])
             /\ UpTo(applied[o], arm'[o].at)
             /\ arm'[o].at \in {applied[o], head[o]}
             /\ \/ applied[o] = None
                \/ arm'[o].at = applied[o]
                \/ arm'[o].hello = <<"reset", "connected">>
  <2>1. arm'[o] = Opened(o, applied[o])
    BY <1>2, <1>3, <1>8
  <2>2. applied[o] \in Positions \cup {None} /\ UpTo(applied[o], head[o])
    BY <1>1 DEF Typed, OrderInv, AppliedOf
  <2>3. QED
    BY <2>1, <2>2, OpenedAt
<1>9. OrderInv'
  <2>1. \A o \in Origins : AppliedOf(o)'
    BY <1>1 DEF OrderInv, AppliedOf
  <2>2. \A o \in Origins : FramesOf(o)'
    BY <1>7 DEF FramesOf
  <2>3. ASSUME NEW o \in Origins PROVE ResumeOf(o)'
    <3>1. /\ UpTo(applied[o], head[o]) /\ AtOrBehind(last[o], head[o])
          /\ applied[o] # None => AtOrBehind(last[o], applied[o])
          /\ applied[o] # None => AtOrBehind(applied[o], applied[o])
      BY <1>1, OrderLaws DEF OrderInv, AppliedOf, Typed
    <3>2. arm'[o] # None => AtOrBehind(last[o], arm'[o].at)
      BY <1>1, <1>8, <3>1, NoneAssumption
    <3>3. QED
      BY <1>1, <1>5, <1>8, <3>1, <3>2 DEF ResumeOf, UpTo
  <2>4. QED
    BY <1>1, <2>1, <2>2, <2>3 DEF OrderInv
<1>10. NoSilentLoss'
  BY <1>1 DEF NoSilentLoss
<1>11. CoverInv'
  <2> SUFFICES ASSUME NEW e \in unseen, Reached(e)', Needs(e)', ~ owed
               PROVE  FALSE
    BY <1>1 DEF CoverInv
  <2>1. e.o \in Origins /\ e.at \in Positions
    BY <1>1 DEF Typed
  <2>2. applied[e.o] # None
    BY <1>1, <1>5, <1>7, <2>1 DEF Needs
  <2>3. ~ AtOrBehind(e.at, applied[e.o])
    BY <1>1, <2>2 DEF NoSilentLoss
  <2>4. arm'[e.o] # None /\ ~ ResetPending(e.o)' /\ AtOrBehind(e.at, arm'[e.o].at)
    BY <1>5, <2>1, <2>3 DEF Reached
  <2>5. arm'[e.o].hello # <<"reset", "connected">>
    <3>1. <<"reset", "connected">> # <<>> /\ Head(<<"reset", "connected">>) = "reset"
      OBVIOUS
    <3>2. QED
      BY <2>4, <3>1 DEF ResetPending
  <2>6. QED
    BY <1>8, <2>1, <2>2, <2>3, <2>4, <2>5
<1>12. ChainInv'
  BY <1>7 DEF ChainInv, ChainOf
<1>13. QED
  BY <1>5, <1>7, <1>9, <1>10, <1>11, <1>12 DEF LossInv

\* reconcile opens upstreams from where they got to, and closes others.
LEMMA ReconcileKeeps ==
    ASSUME TypeOK, FlowInv, CursorInv, LossInv, Reconcile
    PROVE  LossInv'
<1>1. /\ Typed /\ OrderInv /\ NoSilentLoss /\ CoverInv /\ ChainInv
      /\ UNCHANGED <<applied, rebase, owed, unseen, last, head, dropped, resumeAt, composite>>
      /\ UNCHANGED <<verbatim, pending, link>> /\ link = "up"
  BY TypedState DEF LossInv, Reconcile, clientVars, engineVars
<1>2. PICK usable \in SUBSET Peers :
         arm' = [o \in Origins |-> IF o \notin usable \cup {Local} THEN None
                                   ELSE IF arm[o] # None THEN arm[o]
                                   ELSE Opened(o, resumeAt[o])]
  BY DEF Reconcile
<1>3. Held' = Held /\ SameCursor
  BY <1>1 DEF Held, SameCursor, Cur
<1>4. ASSUME NEW o \in Origins, arm'[o] # None, arm'[o] # arm[o]
      PROVE  /\ arm'[o].at \in Positions
             /\ arm'[o].at.epoch = head[o].epoch
             /\ AtOrBehind(arm'[o].at, head[o])
             /\ UpTo(resumeAt[o], arm'[o].at)
             /\ arm'[o].at \in {resumeAt[o], head[o]}
             /\ \/ resumeAt[o] = None
                \/ arm'[o].at = resumeAt[o]
                \/ arm'[o].hello = <<"reset", "connected">>
  <2>1. arm'[o] = Opened(o, resumeAt[o])
    BY <1>2, <1>4
  <2>2. resumeAt[o] \in Positions \cup {None} /\ UpTo(resumeAt[o], head[o])
    BY <1>1 DEF Typed, OrderInv, ResumeOf, UpTo
  <2>3. QED
    BY <2>1, <2>2, OpenedAt
<1>5. OrderInv'
  <2>1. \A o \in Origins : AppliedOf(o)'
    BY <1>1 DEF OrderInv, AppliedOf
  <2>2. ASSUME NEW o \in Origins PROVE FramesOf(o)'
    <3>1. FramesOf(o) /\ Cur(o)' = Cur(o)
      BY <1>1, <1>3 DEF OrderInv, SameCursor
    <3>2. \A i : IsFrame(i, o)' <=> IsFrame(i, o)
      BY <1>3 DEF IsFrame
    <3>3. QED
      BY <1>1, <1>3, <3>1, <3>2 DEF FramesOf
  <2>3. ASSUME NEW o \in Origins PROVE ResumeOf(o)'
    <3>1. ResumeOf(o) /\ Cur(o)' = Cur(o) /\ AtOrBehind(last[o], head[o])
      BY <1>1, <1>3 DEF OrderInv, AppliedOf, SameCursor
    <3>2. CASE arm'[o] = arm[o] \/ arm'[o] = None
      BY <1>1, <3>1, <3>2 DEF ResumeOf
    <3>3. CASE arm'[o] # arm[o] /\ arm'[o] # None
      <4>1. AtOrBehind(last[o], arm'[o].at)
        BY <1>4, <3>1, <3>3, NoneAssumption DEF ResumeOf
      <4>2. QED
        BY <1>1, <1>4, <3>1, <3>3, <4>1 DEF ResumeOf
    <3>4. QED
      BY <3>2, <3>3
  <2>4. QED
    BY <1>1, <2>1, <2>2, <2>3 DEF OrderInv
<1>6. ASSUME NEW e \in unseen, Reached(e)', Needs(e) PROVE Reached(e)
  <2>1. e.o \in Origins /\ e.at \in Positions
    BY <1>1 DEF Typed
  <2>2. resumeAt[e.o] # None
    <3>1. FramesOf(e.o) /\ ResumeOf(e.o)
      BY <1>1, <2>1 DEF OrderInv
    <3>2. applied[e.o] # None => resumeAt[e.o] # None
      BY <1>1, <2>1, ResumeAhead
    <3>3. QED
      BY <1>6, <3>1, <3>2 DEF Needs, FramesOf, ResumeOf
  <2>3. CASE arm'[e.o] = arm[e.o] \/ arm'[e.o] = None
    BY <1>1, <1>6, <2>3 DEF Reached, ResetPending
  <2>4. CASE arm'[e.o] # arm[e.o] /\ arm'[e.o] # None
    <3>1. arm'[e.o].at = resumeAt[e.o] \/ ResetPending(e.o)'
      BY <1>4, <2>1, <2>2, <2>4 DEF ResetPending
    <3>2. QED
      BY <1>1, <1>6, <2>2, <3>1 DEF Reached
  <2>5. QED
    BY <2>3, <2>4
<1>7. NoSilentLoss' /\ CoverInv' /\ ChainInv'
  BY <1>1, <1>3, <1>6, Still
<1>8. QED
  BY <1>5, <1>7 DEF LossInv

\* An upstream that is lost, or all of them with the listener.
LEMMA LostKeeps ==
    ASSUME TypeOK, LossInv, NEW o \in Origins, BreakArm(o) \/ HangUp
    PROVE  LossInv'
<1>1. /\ Typed /\ OrderInv /\ NoSilentLoss /\ CoverInv /\ ChainInv
      /\ UNCHANGED <<applied, rebase, owed, unseen, last, head, dropped, resumeAt, composite>>
      /\ UNCHANGED <<verbatim, pending>> /\ (link' = link \/ link' = "down")
  BY TypedState DEF LossInv, BreakArm, HangUp, clientVars, engineVars, cursorVars, queueVars
<1>2. \A k \in Origins : arm'[k] = arm[k] \/ arm'[k] = None
  BY DEF BreakArm, HangUp, TypeOK
<1>3. Held' = Held /\ SameCursor
  BY <1>1 DEF Held, SameCursor, Cur
<1>4. OrderInv'
  BY <1>1, <1>2, <1>3, OrderStill
<1>5. ASSUME NEW e \in unseen, Reached(e)' PROVE Reached(e)
  <2>1. e.o \in Origins
    BY <1>1 DEF Typed
  <2>2. QED
    BY <1>1, <1>2, <1>5, <2>1 DEF Reached, ResetPending
<1>6. NoSilentLoss' /\ CoverInv' /\ ChainInv'
  BY <1>1, <1>3, <1>5, Still
<1>7. QED
  BY <1>4, <1>6 DEF LossInv

\* The client has fetched everything.
LEMMA ResyncKeeps ==
    ASSUME TypeOK, LossInv, Resync
    PROVE  LossInv'
<1>1. /\ OrderInv
      /\ UNCHANGED <<applied, last, head, arm, resumeAt, composite, verbatim, pending, link>>
      /\ unseen' = {}
  BY DEF LossInv, Resync, engineVars, cursorVars, queueVars
<1>2. Held' = Held /\ SameCursor
  BY <1>1 DEF Held, SameCursor, Cur
<1>3. OrderInv'
  BY <1>1, <1>2, OrderStill
<1>4. QED
  BY <1>1, <1>3 DEF LossInv, NoSilentLoss, CoverInv, ChainInv

\* An engine's position moves on: what was behind it stays behind it.
LEMMA HeadMoves ==
    ASSUME TypeOK, OrderInv, NEW o \in Origins, head'[o] \in Positions,
           Before(head[o], head'[o]), \A k \in Origins \ {o} : head'[k] = head[k],
           UNCHANGED <<composite, resumeAt, verbatim, pending, link, applied, last>>,
           unseen' \subseteq unseen \cup {[o |-> o, at |-> head'[o]]},
           \A k \in Origins : arm'[k] = arm[k] \/ arm'[k] = None,
           \/ head'[o].epoch = head[o].epoch
           \/ arm'[o] = None /\ (link = "up" => \A i \in 1 .. Len(Held) : ~ IsFrame(i, o))
    PROVE  OrderInv'
<1>1. Typed /\ Held' = Held /\ SameCursor
  BY TypedState DEF Held, SameCursor, Cur
<1>2. head[o] \in Positions /\ AtOrBehind(head'[o], head'[o])
  BY <1>1, OrderLaws DEF Typed
<1>3. \A p \in Positions, k \in Origins : AtOrBehind(p, head[k]) => AtOrBehind(p, head'[k])
  <2> SUFFICES ASSUME NEW p \in Positions, AtOrBehind(p, head[o]) PROVE AtOrBehind(p, head'[o])
    OBVIOUS
  <2>1. QED
    BY <1>2, OrderLaws DEF Before
<1>4. ASSUME NEW k \in Origins PROVE AppliedOf(k)'
  BY <1>1, <1>3, <1>4 DEF OrderInv, AppliedOf, UpTo, Typed
<1>5. ASSUME NEW e \in unseen' PROVE AtOrBehind(e.at, head'[e.o])
  <2>1. CASE e \in unseen
    BY <1>1, <1>3, <2>1 DEF OrderInv, Typed
  <2>2. CASE e = [o |-> o, at |-> head'[o]]
    BY <1>2, <2>2
  <2>3. QED
    BY <2>1, <2>2
<1>6. ASSUME link = "up", NEW k \in Origins PROVE FramesOf(k)' /\ ResumeOf(k)'
  <2>1. FramesOf(k) /\ ResumeOf(k) /\ Cur(k)' = Cur(k)
    BY <1>1, <1>6 DEF OrderInv, SameCursor
  <2>2. \A i : IsFrame(i, k)' <=> IsFrame(i, k)
    BY <1>1 DEF IsFrame
  <2>3. CASE head'[k].epoch = head[k].epoch
    <3>1. FramesOf(k)'
      BY <1>1, <2>1, <2>2, <2>3 DEF FramesOf
    <3>2. ResumeOf(k)'
      BY <1>1, <1>3, <2>1, <2>3 DEF ResumeOf, Typed
    <3>3. QED
      BY <3>1, <3>2
  <2>4. CASE head'[k].epoch # head[k].epoch
    <3>1. k = o /\ arm'[k] = None /\ \A i \in 1 .. Len(Held) : ~ IsFrame(i, k)
      BY <1>6, <2>4
    <3>2. FramesOf(k)'
      BY <1>1, <2>2, <3>1 DEF FramesOf
    <3>3. ResumeOf(k)'
      BY <1>1, <1>3, <2>1, <3>1 DEF ResumeOf, Typed
    <3>4. QED
      BY <3>2, <3>3
  <2>5. QED
    BY <2>3, <2>4
<1>7. QED
  BY <1>4, <1>5, <1>6 DEF OrderInv

\* An event is ahead of everything that knows its engine.
LEMMA EmitKeeps ==
    ASSUME TypeOK, LossInv, NEW o \in Origins, Emit(o)
    PROVE  LossInv'
<1>1. /\ Typed /\ OrderInv /\ NoSilentLoss /\ CoverInv /\ ChainInv
      /\ UNCHANGED <<applied, rebase, owed, last, arm, dropped, resumeAt, composite>>
      /\ UNCHANGED <<verbatim, pending, link>>
  BY TypedState DEF LossInv, Emit, cursorVars, queueVars
<1>2. Held' = Held /\ SameCursor
  BY <1>1 DEF Held, SameCursor, Cur
<1>3. /\ head'[o] \in Positions /\ head'[o].epoch = head[o].epoch /\ Before(head[o], head'[o])
      /\ \A k \in Origins \ {o} : head'[k] = head[k]
  <2>1. head \in [Origins -> Positions] /\ head' = [head EXCEPT ![o].seq = @ + 1]
    BY DEF TypeOK, Emit
  <2>2. head[o] \in [epoch : 0 .. MaxEpoch, seq : Seqs]
    BY <2>1 DEF Positions
  <2>3. head[o].seq + 1 \in Seqs
    BY <2>2, FanInAssumption DEF Emit, Seqs
  <2>4. head'[o] = [epoch |-> head[o].epoch, seq |-> head[o].seq + 1]
    BY <2>1, <2>2
  <2>5. head'[o] \in Positions
    BY <2>2, <2>3, <2>4 DEF Positions
  <2>6. head[o].seq \in Int
    BY <2>2, FanInAssumption DEF Seqs
  <2>7. head'[o].epoch = head[o].epoch /\ head'[o].seq = head[o].seq + 1
    BY <2>4
  <2>8. AtOrBehind(head[o], head'[o]) /\ head[o] # head'[o]
    BY <2>6, <2>7 DEF AtOrBehind
  <2>9. QED
    BY <2>1, <2>5, <2>7, <2>8 DEF Before
<1>4. unseen' = unseen \cup {[o |-> o, at |-> head'[o]]}
  BY DEF Emit
<1>5. OrderInv'
  BY <1>1, <1>3, <1>4, HeadMoves
<1>6. ASSUME NEW e \in unseen', e \notin unseen
      PROVE  e.o = o /\ e.at = head'[o] /\ \A p \in Positions : AtOrBehind(p, head[o]) => ~ AtOrBehind(e.at, p)
  <2>1. e.o = o /\ e.at = head'[o]
    BY <1>4, <1>6
  <2>2. head[o] \in Positions
    BY <1>1 DEF Typed
  <2>3. QED
    BY <1>3, <2>1, <2>2, OrderLaws DEF Before
<1>7. NoSilentLoss'
  <2> SUFFICES ASSUME NEW e \in unseen', applied[e.o] # None, AtOrBehind(e.at, applied[e.o])
               PROVE  owed
    BY <1>1 DEF NoSilentLoss
  <2>1. CASE e \in unseen
    BY <1>1, <2>1 DEF NoSilentLoss
  <2>2. CASE e \notin unseen
    BY <1>1, <1>6, <2>2 DEF Typed, OrderInv, AppliedOf, UpTo
  <2>3. QED
    BY <2>1, <2>2
<1>8. /\ \A j, k : /\ IsFrame(j, k)' <=> IsFrame(j, k)
                   /\ Announces(j, k)' <=> Announces(j, k)
                   /\ Moves(j, k)' <=> Moves(j, k)
      /\ \A j, e : IsOwn(j, e)' <=> IsOwn(j, e)
  BY <1>1, <1>2 DEF IsFrame, Announces, Moves, IsOwn, Frame
<1>9. CoverInv'
  <2> SUFFICES ASSUME link = "up", NEW e \in unseen', Reached(e)', Needs(e)', ~ owed
               PROVE  Covered(e)'
    BY <1>1 DEF CoverInv
  <2>1. Reached(e)
    BY <1>1 DEF Reached, ResetPending
  <2>2. e \in unseen
    <3>1. SUFFICES ASSUME e \notin unseen PROVE FALSE
      OBVIOUS
    <3>2. ResumeOf(o) /\ e.o = o
      BY <1>1, <1>6, <3>1 DEF OrderInv
    <3>3. QED
      BY <1>1, <1>6, <2>1, <3>1, <3>2 DEF Reached, ResumeOf, Typed
  <2>3. Needs(e)
    <3>1. e.o \in Origins
      BY <1>1, <2>2 DEF Typed
    <3>2. QED
      BY <1>1, <1>2, <1>8, <3>1 DEF Needs, SameCursor
  <2>4. Covered(e)
    BY <1>1, <2>1, <2>2, <2>3 DEF CoverInv
  <2>5. QED
    BY <1>1, <1>2, <1>8, <2>4 DEF Covered
<1>10. ChainInv'
  <2> SUFFICES ASSUME link = "up", NEW e \in unseen', e.o \in rebase, applied[e.o] # None, ~ owed
               PROVE  ChainOf(e)'
    BY <1>1 DEF ChainInv
  <2>1. CASE e \in unseen
    BY <1>1, <1>2, <1>8, <2>1 DEF ChainInv, ChainOf
  <2>2. CASE e \notin unseen
    <3>1. ASSUME NEW i \in 1 .. Len(Held), IsFrame(i, e.o), AtOrBehind(e.at, Held[i].at)
          PROVE  FALSE
      <4>1. /\ resumeAt[o] # None /\ AtOrBehind(Held[i].at, resumeAt[o])
            /\ AtOrBehind(resumeAt[o], head[o])
        BY <1>1, <1>6, <2>2, <3>1 DEF OrderInv, FramesOf, ResumeOf
      <4>2. Held[i].at \in Positions /\ resumeAt[o] \in Positions /\ head[o] \in Positions
        BY <1>1, <3>1, <4>1 DEF Typed, IsFrame
      <4>3. AtOrBehind(Held[i].at, head[o])
        BY <4>1, <4>2, OrderLaws
      <4>4. QED
        BY <1>6, <2>2, <3>1, <4>2, <4>3
    <3>2. QED
      BY <1>2, <1>8, <3>1 DEF ChainOf
  <2>3. QED
    BY <2>1, <2>2
<1>11. QED
  BY <1>5, <1>7, <1>9, <1>10 DEF LossInv

\* What is held of an origin.
LEMMA NothingHeld ==
    ASSUME TypeOK, FlowInv, link = "up", NEW o \in Origins, ~ Holds(o)
    PROVE  \A i \in 1 .. Len(Held) : ~ IsFrame(i, o)
<1> SUFFICES ASSUME NEW i \in 1 .. Len(Held), IsFrame(i, o) PROVE FALSE
  OBVIOUS
<1>1. CASE i \in 1 .. Len(verbatim)
  <2>1. Held[i] = verbatim[i] /\ verbatim[i].o = Local
    BY <1>1, Entry DEF FlowInv
  <2>2. o = Local
    BY <2>1 DEF IsFrame
  <2>3. verbatim = <<>>
    BY <2>2 DEF Holds
  <2>4. Len(verbatim) = 0
    BY <2>3
  <2>5. QED
    BY <1>1, <2>4
<1>2. CASE \E j \in 1 .. Len(pending) : i = Len(verbatim) + j
  <2>1. PICK j \in 1 .. Len(pending) : i = Len(verbatim) + j
    BY <1>2
  <2>2. Held[i] = pending[j]
    BY <2>1, Entry
  <2>3. j \in Live(o)
    BY <2>2 DEF IsFrame, Live
  <2>4. QED
    BY <2>3 DEF Holds
<1>3. QED
  BY <1>1, <1>2, Entry

\* An engine restarts while none of its frames is held.
LEMMA RestartKeeps ==
    ASSUME TypeOK, FlowInv, LossInv, ~ RestartHeld, NEW o \in Origins, Restart(o)
    PROVE  LossInv'
<1>1. /\ Typed /\ OrderInv /\ NoSilentLoss /\ CoverInv /\ ChainInv
      /\ UNCHANGED <<applied, rebase, owed, unseen, last, dropped, resumeAt, composite>>
      /\ UNCHANGED <<verbatim, pending, link>>
  BY TypedState DEF LossInv, Restart, cursorVars, queueVars, clientVars
<1>2. Held' = Held /\ SameCursor
  BY <1>1 DEF Held, SameCursor, Cur
<1>3. /\ head'[o] \in Positions /\ Before(head[o], head'[o])
      /\ \A k \in Origins \ {o} : head'[k] = head[k]
  <2>1. /\ head \in [Origins -> Positions] /\ head[o].epoch < MaxEpoch
        /\ head' = [head EXCEPT ![o] = [epoch |-> @.epoch + 1, seq |-> 0]]
    BY DEF TypeOK, Restart
  <2>2. head[o] \in [epoch : 0 .. MaxEpoch, seq : Seqs]
    BY <2>1 DEF Positions
  <2>3. head'[o] = [epoch |-> head[o].epoch + 1, seq |-> 0]
    BY <2>1
  <2>4. head[o].epoch + 1 \in 0 .. MaxEpoch /\ 0 \in Seqs
    BY <2>1, <2>2, FanInAssumption DEF Seqs
  <2>5. head'[o].epoch = head[o].epoch + 1 /\ head[o].epoch \in Int
    BY <2>2, <2>3, FanInAssumption
  <2>6. AtOrBehind(head[o], head'[o]) /\ head[o] # head'[o]
    BY <2>5 DEF AtOrBehind
  <2>7. QED
    BY <2>1, <2>3, <2>4, <2>6 DEF Positions, Before
<1>4. arm'[o] = None /\ \A k \in Origins : arm'[k] = arm[k] \/ arm'[k] = None
  BY DEF Restart, TypeOK
<1>5. link = "up" => \A i \in 1 .. Len(Held) : ~ IsFrame(i, o)
  BY NothingHeld DEF Restart
<1>6. OrderInv'
  BY <1>1, <1>3, <1>4, <1>5, HeadMoves
<1>7. ASSUME NEW e \in unseen, Reached(e)' PROVE Reached(e)
  <2>1. e.o \in Origins
    BY <1>1 DEF Typed
  <2>2. QED
    BY <1>1, <1>4, <1>7, <2>1 DEF Reached, ResetPending
<1>8. NoSilentLoss' /\ CoverInv' /\ ChainInv'
  BY <1>1, <1>2, <1>7, Still
<1>9. QED
  BY <1>6, <1>8 DEF LossInv

\* A replay buffer evicts, the socket drains, or nothing happens.
LEMMA QuietKeeps ==
    ASSUME TypeOK, LossInv, NEW o \in Origins, Evict(o) \/ Drain \/ UNCHANGED vars
    PROVE  LossInv'
<1>1. /\ UNCHANGED <<applied, rebase, owed, unseen, last, head, arm, dropped, resumeAt, composite>>
      /\ UNCHANGED <<verbatim, pending, link>>
  BY DEF Evict, Drain, vars, engineVars, cursorVars, queueVars, clientVars
<1>2. Held' = Held /\ SameCursor
  BY <1>1 DEF Held, SameCursor, Cur
<1>3. QED
  BY <1>1, <1>2, Unmoved

-----------------------------------------------------------------------------
(* The two paths, and how much is held                                     *)

\* The control frames of a queue.
Controls(q) == {i \in 1 .. Len(q) : q[i].type \in ControlTypes}

LEMMA ControlsFinite ==
    ASSUME NEW q \in Seq(Entries)
    PROVE  IsFiniteSet(Controls(q)) /\ Cardinality(Controls(q)) \in Nat
<1>1. Len(q) \in Nat
  OBVIOUS
<1>2. IsFiniteSet(1 .. Len(q))
  BY <1>1, FS_Interval
<1>3. Controls(q) \in SUBSET (1 .. Len(q))
  BY DEF Controls
<1>4. IsFiniteSet(Controls(q))
  BY <1>2, <1>3, FS_Subset
<1>5. QED
  BY <1>4, FS_CardinalityType

LEMMA ControlsAppend ==
    ASSUME NEW q \in Seq(Entries), NEW x \in Entries
    PROVE  /\ Cardinality(Controls(Append(q, x))) <= Cardinality(Controls(q)) + 1
           /\ x.type \notin ControlTypes =>
                 Cardinality(Controls(Append(q, x))) = Cardinality(Controls(q))
<1> DEFINE n == Len(q) + 1
<1>1. /\ Append(q, x) \in Seq(Entries) /\ Len(Append(q, x)) = n /\ Append(q, x)[n] = x
      /\ \A i \in 1 .. Len(q) : Append(q, x)[i] = q[i]
  OBVIOUS
<1>2. Len(q) \in Nat /\ 1 .. n = 1 .. Len(q) \cup {n} /\ n \notin 1 .. Len(q)
  <2>1. Len(q) \in Nat
    OBVIOUS
  <2>2. QED
    BY <2>1
<1>3. IsFiniteSet(Controls(q)) /\ Cardinality(Controls(q)) \in Nat
  BY ControlsFinite
<1> HIDE DEF n
<1>4. CASE x.type \in ControlTypes
  <2>1. Controls(Append(q, x)) = Controls(q) \cup {n}
    BY <1>1, <1>2, <1>4 DEF Controls
  <2>2. Cardinality(Controls(q) \cup {n}) =
           IF n \in Controls(q) THEN Cardinality(Controls(q)) ELSE Cardinality(Controls(q)) + 1
    BY <1>3, FS_AddElement
  <2>3. QED
    BY <1>3, <1>4, <2>1, <2>2
<1>5. CASE x.type \notin ControlTypes
  <2>1. Controls(Append(q, x)) = Controls(q)
    BY <1>1, <1>2, <1>5 DEF Controls
  <2>2. QED
    BY <1>3, <1>5, <2>1
<1>6. QED
  BY <1>4, <1>5

LEMMA ControlsTail ==
    ASSUME NEW q \in Seq(Entries), q # <<>>
    PROVE  Cardinality(Controls(Tail(q))) <= Cardinality(Controls(q))
<1>1. /\ Len(q) \in Nat /\ Len(Tail(q)) = Len(q) - 1 /\ Tail(q) \in Seq(Entries)
      /\ \A i \in 1 .. Len(Tail(q)) : Tail(q)[i] = q[i + 1]
  OBVIOUS
<1> DEFINE S == Controls(Tail(q))
           T == Controls(q)
           f == [i \in S |-> i + 1]
<1>2. \A i \in S : i \in Nat /\ i + 1 \in T
  BY <1>1 DEF Controls
<1>3. f \in Injection(S, T)
  <2>1. f \in [S -> T]
    BY <1>2
  <2>2. \A a, b \in S : f[a] = f[b] => a = b
    BY <1>2
  <2>3. QED
    BY <2>1, <2>2 DEF Injection, IsInjective
<1>4. IsFiniteSet(T)
  BY ControlsFinite
<1> HIDE DEF f, S, T
<1>5. Cardinality(S) <= Cardinality(T)
  BY <1>3, <1>4, FS_Injection
<1>6. QED
  BY <1>5 DEF S, T

LEMMA HeldControlsIs ==
    HeldControls = Cardinality(Controls(pending)) + Cardinality(Controls(verbatim))
  BY DEF HeldControls, Controls

\* A buffer at its bound holds an event: there are fewer control frames than places.
LEMMA FullBuffer ==
    ASSUME TypeOK, FlowInv, MaxControls < BufferBound, NEW o \in Origins,
           Cardinality(Live(o)) >= BufferBound
    PROVE  \E i \in 1 .. Len(Held) : IsFrame(i, o) /\ Held[i].type = "event"
<1>1. pending \in Seq(Entries) /\ verbatim \in Seq(Entries)
  BY DEF TypeOK, Entries
<1>2. /\ IsFiniteSet(Controls(pending)) /\ Cardinality(Controls(pending)) \in Nat
      /\ Cardinality(Controls(verbatim)) \in Nat
  BY <1>1, ControlsFinite
<1>3. Cardinality(Controls(pending)) <= MaxControls
  BY <1>2, HeldControlsIs, FanInAssumption DEF FlowInv
<1>4. \E i \in 1 .. Len(pending) : pending[i].type = "event" /\ pending[i].o = o
  <2> SUFFICES ASSUME \A i \in 1 .. Len(pending) : ~ (pending[i].type = "event" /\ pending[i].o = o)
               PROVE  FALSE
    OBVIOUS
  <2>1. ASSUME NEW i \in Live(o) PROVE i \in Controls(pending)
    <3>1. i \in 1 .. Len(pending) /\ pending[i].type # "gap" /\ pending[i].o = o
      BY DEF Live
    <3>2. pending[i] \in DataFrames \cup Gaps
      BY <1>1, <3>1 DEF Entries
    <3>3. pending[i].type \in ControlTypes
      BY <3>1, <3>2 DEF DataFrames, Gaps
    <3>4. QED
      BY <3>1, <3>3 DEF Controls
  <2>2. Cardinality(Live(o)) <= Cardinality(Controls(pending)) /\ IsFiniteSet(Live(o))
    BY <1>2, <2>1, FS_Subset
  <2>3. Cardinality(Live(o)) \in Nat
    BY <2>2, FS_CardinalityType
  <2>4. QED
    BY <1>2, <1>3, <2>2, <2>3, FanInAssumption
<1>5. PICK i \in 1 .. Len(pending) : pending[i].type = "event" /\ pending[i].o = o
  BY <1>4
<1>6. PICK j \in 1 .. Len(Held) : Held[j] = pending[i]
  BY <1>5, Entry
<1>7. QED
  BY <1>5, <1>6 DEF IsFrame

\* A frame of an upstream is written, or waits on the path it came by.
LEMMA FlowSent ==
    ASSUME TypeOK, FlowInv, NEW f, Sent(f),
           flowing => UNCHANGED <<verbatim, pending, dropped>>,
           ~ flowing => flowing' = flowing,
           \A i \in 1 .. Len(verbatim') : verbatim'[i].o = Local,
           \A i \in 1 .. Len(pending') : pending'[i].type # "reset",
           pending' # <<>> => peerArms # {},
           HeldControls' <= MaxControls
    PROVE  FlowInv'
<1>1. /\ link = "up" /\ link' = "up" /\ ~ draining /\ ~ draining' /\ peerArms' = peerArms
      /\ arm[f.o] # None /\ arm'[f.o].hello \in {<<>>, <<"connected">>}
      /\ \A o \in Origins \ {f.o} : arm'[o] = arm[o]
  BY DEF Sent
<1>2. \A o \in Origins : arm'[o] # None =>
         arm'[o].hello \in {<<>>, <<"connected">>, <<"reset", "connected">>}
  BY <1>1 DEF FlowInv
<1>3. \A o \in Peers : arm'[o] # None => o \in peerArms
  BY <1>1 DEF FlowInv, Origins
<1>4. flowing' => verbatim' = <<>> /\ pending' = <<>> /\ dropped' = {}
  BY <1>1 DEF FlowInv
<1>5. QED
  BY <1>1, <1>2, <1>3, <1>4 DEF FlowInv

\* An entry is held at the end of one of the queues.
LEMMA ControlsHold ==
    ASSUME TypeOK, FlowInv, NEW x \in Entries, x.type \in ControlTypes => HeldControls < MaxControls,
           \/ x \in DataFrames /\ verbatim' = Append(verbatim, x) /\ pending' = pending
           \/ pending' = Append(pending, x) /\ verbatim' = verbatim
    PROVE  HeldControls' <= MaxControls
<1>1. /\ pending \in Seq(Entries) /\ verbatim \in Seq(Entries)
      /\ HeldControls = Cardinality(Controls(pending)) + Cardinality(Controls(verbatim))
      /\ HeldControls' = Cardinality(Controls(pending')) + Cardinality(Controls(verbatim'))
      /\ HeldControls <= MaxControls
  BY HeldControlsIs DEF TypeOK, Entries, FlowInv, HeldControls, Controls
<1>2. Cardinality(Controls(pending)) \in Nat /\ Cardinality(Controls(verbatim)) \in Nat
  BY <1>1, ControlsFinite
<1>3. \A q \in Seq(Entries) : Append(q, x) \in Seq(Entries)
  OBVIOUS
<1>4. \A q \in Seq(Entries) :
         /\ Cardinality(Controls(Append(q, x))) \in Nat
         /\ Cardinality(Controls(Append(q, x))) <= Cardinality(Controls(q)) + 1
         /\ x.type \notin ControlTypes =>
               Cardinality(Controls(Append(q, x))) = Cardinality(Controls(q))
  BY <1>3, ControlsFinite, ControlsAppend
<1>5. MaxControls \in Nat
  BY FanInAssumption
<1>6. CASE verbatim' = Append(verbatim, x) /\ pending' = pending
  <2> DEFINE a == Cardinality(Controls(verbatim))
             b == Cardinality(Controls(verbatim'))
             c == Cardinality(Controls(pending))
  <2>1. /\ a \in Nat /\ b \in Nat /\ c \in Nat /\ b <= a + 1 /\ c + a <= MaxControls
        /\ x.type \notin ControlTypes => b = a
        /\ x.type \in ControlTypes => c + a < MaxControls
        /\ HeldControls' = c + b
    BY <1>1, <1>2, <1>4, <1>6
  <2> HIDE DEF a, b, c
  <2>2. QED
    BY <1>5, <2>1
<1>7. CASE pending' = Append(pending, x) /\ verbatim' = verbatim
  <2> DEFINE a == Cardinality(Controls(pending))
             b == Cardinality(Controls(pending'))
             c == Cardinality(Controls(verbatim))
  <2>1. /\ a \in Nat /\ b \in Nat /\ c \in Nat /\ b <= a + 1 /\ a + c <= MaxControls
        /\ x.type \notin ControlTypes => b = a
        /\ x.type \in ControlTypes => a + c < MaxControls
        /\ HeldControls' = b + c
    BY <1>1, <1>2, <1>4, <1>7
  <2> HIDE DEF a, b, c
  <2>2. QED
    BY <1>5, <2>1
<1>8. QED
  BY <1>6, <1>7

\* The cursors stay as they are.
LEMMA CursorStill ==
    ASSUME CursorInv, link' = link, UNCHANGED <<raw, applied, composite, verbatim>>
    PROVE  CursorInv'
  BY DEF CursorInv, Cur

\* ingest on the verbatim path.
LEMMA VerbatimKeeps ==
    ASSUME TypeOK, FlowInv, CursorInv, LossInv, NEW f, Sent(f), Verbatim(f.o), IngestVerbatim(f)
    PROVE  FlowInv' /\ CursorInv' /\ LossInv'
<1>1. /\ f \in DataFrames /\ f.o = Local /\ peerArms = {} /\ f.at \in Positions
      /\ Local \in Origins /\ link = "up" /\ link' = "up" /\ ~ draining /\ f.type # "gap"
  BY DEF Sent, Verbatim, DataFrames, Origins, ControlTypes
<1>2. /\ OrderInv /\ composite \in Seq(Events) /\ MapOf(composite)
      /\ pending \in Seq(Entries) /\ verbatim \in Seq(DataFrames)
  BY <1>1 DEF LossInv, TypeOK, CursorInv, Entries
<1>3. /\ UpTo(resumeAt[Local], f.at) /\ UpTo(applied[Local], f.at)
      /\ f.type = "event" => Under(applied[Local], f.at)
  BY <1>1, <1>2, SentAhead
<1>4. /\ composite' = Put(composite, Local, f.at) /\ AdvanceResume(Local, f.at)
      /\ UNCHANGED <<pending, dropped>>
  BY DEF IngestVerbatim
<1>5. Resumes(f)
  BY <1>1, <1>3, <1>4, ResumeFollows DEF Resumes
<1>6. /\ MapOf(composite') /\ Cur(Local)' = f.at /\ \A o : o # Local => Cur(o)' = Cur(o)
  BY <1>1, <1>2, <1>4, PutIs DEF Cur
<1>7. Stamps(f)
  BY <1>1, <1>6 DEF Stamps
<1>8. pending = <<>>
  BY <1>1 DEF FlowInv
<1>9. \A o \in Peers : o # Local
  BY FanInAssumption
<1>10. CASE flowing /\ Receive(f, BareId(f.at)) /\ Sink /\ UNCHANGED verbatim
  <2>1. verbatim = <<>> /\ dropped = {} /\ verbatim' = <<>> /\ pending' = <<>> /\ dropped' = {}
    BY <1>1, <1>4, <1>10 DEF FlowInv
  <2>2. /\ Takes(f)
        /\ raw' # None /\ MapOf(raw'.at)
        /\ \A o \in Origins : applied'[o] = Get(raw'.at, o)
        /\ \A o \in Peers : applied'[o] = None
        /\ applied'[Local] = f.at
    BY <1>1, <1>3, <1>10, BareTaken
  <2>3. Len(Held) = 0 /\ Len(Held') = 0
    BY <1>8, <2>1, EmptyQueues DEF Held
  <2>4. applied[Local] = Cur(Local)
    BY <1>1, <2>1 DEF CursorInv
  <2>5. LossInv'
    BY <1>5, <1>7, <2>1, <2>2, <2>3, <2>4, TakeNew
  <2>6. CursorInv'
    BY <1>1, <1>6, <2>1, <2>2 DEF CursorInv
  <2>7. HeldControls' = HeldControls /\ HeldControls <= MaxControls
    BY <1>8, <2>1 DEF HeldControls, FlowInv
  <2>8. Len(verbatim') = 0 /\ Len(pending') = 0
    BY <2>1
  <2>9. FlowInv'
    BY <1>10, <1>8, <2>1, <2>7, <2>8, FlowSent
  <2>10. QED
    BY <2>5, <2>6, <2>9
<1>11. CASE ~ flowing /\ verbatim' = Append(verbatim, f) /\ UNCHANGED <<flowing, clientVars>>
  <2>1. f \in Entries
    BY <1>1 DEF Entries
  <2>2. Grows(f)
    BY <1>1, <1>4, <1>8, <1>11, <2>1, HoldGrows
  <2>3. LossInv'
    BY <1>1, <1>4, <1>5, <1>7, <1>11, <2>2, HoldNew
  <2>4. /\ Len(verbatim') = Len(verbatim) + 1 /\ verbatim'[Len(verbatim')] = f /\ verbatim' # <<>>
        /\ Len(verbatim) \in Nat
        /\ \A i \in 1 .. Len(verbatim) : verbatim'[i] = verbatim[i]
    BY <1>1, <1>2, <1>11
  <2>5. UNCHANGED <<raw, applied>>
    BY <1>11 DEF clientVars
  <2>6. CursorInv'
    BY <1>1, <1>6, <1>9, <2>4, <2>5 DEF CursorInv
  <2>7. \A i \in 1 .. Len(verbatim') : verbatim'[i].o = Local
    <3> SUFFICES ASSUME NEW i \in 1 .. Len(verbatim') PROVE verbatim'[i].o = Local
      OBVIOUS
    <3>1. i \in 1 .. Len(verbatim) \/ i = Len(verbatim')
      BY <2>4
    <3>2. QED
      BY <1>1, <2>4, <3>1 DEF FlowInv
  <2>8. f.type \in ControlTypes => HeldControls < MaxControls
    BY DEF Sent, ControlTypes
  <2>9. HeldControls' <= MaxControls
    BY <1>1, <1>4, <1>11, <2>1, <2>8, ControlsHold
  <2>10. Len(pending') = 0
    BY <1>4, <1>8
  <2>11. FlowInv'
    BY <1>4, <1>8, <1>11, <2>7, <2>9, <2>10, FlowSent
  <2>12. QED
    BY <2>3, <2>6, <2>11
<1>12. QED
  BY <1>10, <1>11 DEF IngestVerbatim

\* Peers are active, or the frame would be verbatim.
LEMMA CompositeHasPeers ==
    ASSUME FlowInv, NEW f, Sent(f), ~ Verbatim(f.o)
    PROVE  peerArms # {}
  BY DEF Sent, Verbatim, FlowInv, DataFrames, Origins

\* ingest in composite mode.
LEMMA CompositeKeeps ==
    ASSUME TypeOK, FlowInv, CursorInv, LossInv, MaxControls < BufferBound,
           NEW f, Sent(f), ~ Verbatim(f.o), IngestComposite(f)
    PROVE  FlowInv' /\ CursorInv' /\ LossInv'
<1>1. /\ f \in DataFrames /\ f.o \in Origins /\ f.at \in Positions
      /\ link = "up" /\ link' = "up" /\ link' = link /\ ~ draining /\ f.type # "gap"
      /\ f \in Entries /\ peerArms # {}
  BY CompositeHasPeers DEF Sent, DataFrames, ControlTypes, Entries
<1>2. OrderInv /\ pending \in Seq(Entries) /\ verbatim \in Seq(DataFrames)
  BY DEF LossInv, TypeOK, Entries
<1>3. UpTo(resumeAt[f.o], f.at) /\ UpTo(applied[f.o], f.at)
  BY <1>1, <1>2, SentAhead
<1>4. AdvanceResume(f.o, f.at) => Resumes(f)
  BY <1>1, <1>3, ResumeFollows DEF Resumes
<1>5. f.type \in ControlTypes => HeldControls < MaxControls
  BY DEF Sent, ControlTypes
<1>6. /\ HeldControls <= MaxControls
      /\ \A i \in 1 .. Len(verbatim) : verbatim[i].o = Local
      /\ \A i \in 1 .. Len(pending) : pending[i].type # "reset"
  BY <1>1 DEF FlowInv
<1>7. composite' = composite => SameCursor
  BY DEF SameCursor, Cur
<1>8. UNCHANGED <<pending, verbatim>> => Held' = Held /\ HeldControls' = HeldControls
  BY DEF Held, HeldControls
<1>9. ASSUME UNCHANGED <<pending, verbatim, dropped>>, flowing' = flowing \/ flowing
      PROVE  FlowInv'
  BY <1>1, <1>6, <1>8, <1>9, FlowSent
\* An entry is held in the pending stream.
<1>10. ASSUME NEW x \in Entries, pending' = Append(pending, x), verbatim' = verbatim,
              ~ flowing, flowing' = flowing, x.type # "reset",
              x.type \in ControlTypes => HeldControls < MaxControls
       PROVE  FlowInv' /\ Grows(x)
  <2>1. Grows(x)
    BY <1>10, HoldGrows
  <2>2. /\ Len(pending) \in Nat /\ Len(pending') = Len(pending) + 1
        /\ pending'[Len(pending')] = x
        /\ \A i \in 1 .. Len(pending) : pending'[i] = pending[i]
    BY <1>2, <1>10
  <2>3. ASSUME NEW i \in 1 .. Len(pending') PROVE pending'[i].type # "reset"
    <3>1. i \in 1 .. Len(pending) \/ i = Len(pending')
      BY <2>2
    <3>2. QED
      BY <1>6, <1>10, <2>2, <3>1
  <2>4. HeldControls' <= MaxControls
    BY <1>10, ControlsHold
  <2>5. FlowInv'
    BY <1>1, <1>6, <1>10, <2>3, <2>4, FlowSent
  <2>6. QED
    BY <2>1, <2>5
<1>11. CASE /\ f.type = "connected"
            /\ AdvanceResume(f.o, f.at)
            /\ UNCHANGED <<composite, pending, verbatim, dropped, flowing, clientVars>>
  <2>1. LossInv'
    BY <1>4, <1>7, <1>8, <1>11, KeepBack
  <2>2. CursorInv'
    BY <1>1, <1>11, CursorStill DEF clientVars
  <2>3. QED
    BY <1>9, <1>11, <2>1, <2>2
<1>12. CASE /\ f.type = "reset"
            /\ AdvanceResume(f.o, f.at)
            /\ WriteGap(f.o)
            /\ UNCHANGED <<composite, verbatim, dropped>>
  <2>1. CASE flowing /\ ReceiveGap({f.o}) /\ Sink /\ UNCHANGED pending
    <3>1. LossInv'
      BY <1>4, <1>7, <1>8, <1>12, <2>1, GapNow
    <3>2. CursorInv'
      BY <1>1, <1>12, <2>1, CursorStill DEF ReceiveGap
    <3>3. QED
      BY <1>9, <1>12, <2>1, <3>1, <3>2
  <2>2. CASE /\ ~ flowing
             /\ pending' = Append(pending, [type |-> "gap", o |-> f.o])
             /\ UNCHANGED <<flowing, clientVars>>
    <3> DEFINE x == [type |-> "gap", o |-> f.o]
    <3>1. x \in Entries /\ x.type # "reset" /\ x.type \notin ControlTypes
      BY <1>1 DEF Entries, Gaps, ControlTypes
    <3>2. FlowInv' /\ Grows(x)
      BY <1>10, <1>12, <2>2, <3>1
    <3>3. LossInv'
      BY <1>4, <1>7, <1>12, <2>2, <3>2, HoldNew
    <3>4. CursorInv'
      BY <1>1, <1>12, <2>2, CursorStill DEF clientVars
    <3>5. QED
      BY <3>2, <3>3, <3>4
  <2>3. QED
    BY <1>12, <2>1, <2>2 DEF WriteGap
<1>13. CASE f.type # "reset" /\ flowing /\ Deliver(f) /\ UNCHANGED <<pending, dropped, verbatim>>
  <2>1. verbatim = <<>> /\ pending = <<>> /\ dropped = {}
    BY <1>1, <1>13 DEF FlowInv
  <2>2. /\ Takes(f)
        /\ raw' # None /\ MapOf(raw'.at) /\ MapOf(composite')
        /\ \A o \in Origins : applied'[o] = Get(raw'.at, o) /\ applied'[o] = Cur(o)'
        /\ Cur(f.o)' = f.at
        /\ \A o \in Origins \ {f.o} : Cur(o)' = Cur(o)
    BY <1>1, <1>3, <1>13, <2>1, StampedTaken
  <2>3. Resumes(f) /\ Stamps(f)
    BY <1>4, <1>13, <2>2 DEF Deliver, Stamps
  <2>4. Len(Held) = 0 /\ Len(Held') = 0
    BY <1>13, <2>1, EmptyQueues DEF Held
  <2>5. applied[Local] = Cur(Local)
    BY <1>1, <2>1 DEF CursorInv
  <2>6. LossInv'
    BY <1>13, <2>1, <2>2, <2>3, <2>4, <2>5, TakeNew
  <2>7. CursorInv'
    BY <1>1, <1>13, <2>1, <2>2 DEF CursorInv, Origins
  <2>8. QED
    BY <1>9, <1>13, <2>6, <2>7
<1>14. CASE f.type # "reset" /\ ~ flowing /\ Enqueue(f) /\ UNCHANGED verbatim
  <2>1. UNCHANGED <<composite, flowing, clientVars>>
    BY <1>14 DEF Enqueue
  <2>2. CursorInv'
    BY <1>1, <1>14, <2>1, CursorStill DEF clientVars
  <2>3. CASE /\ Cardinality(Live(f.o)) >= BufferBound
             /\ dropped' = dropped \cup {f.o}
             /\ UNCHANGED <<pending, resumeAt>>
    <3>1. \E i \in 1 .. Len(Held) : IsFrame(i, f.o) /\ Held[i].type = "event"
      BY <1>1, <2>3, FullBuffer
    <3>2. LossInv'
      BY <1>7, <1>8, <1>14, <2>1, <2>3, <3>1, DropNew
    <3>3. FlowInv'
      BY <1>1, <1>6, <1>8, <1>14, <2>1, <2>3, FlowSent
    <3>4. QED
      BY <2>2, <3>2, <3>3
  <2>4. CASE pending' = Append(pending, f) /\ AdvanceResume(f.o, f.at) /\ UNCHANGED dropped
    <3>1. FlowInv' /\ Grows(f)
      BY <1>1, <1>5, <1>10, <1>14, <2>1, <2>4
    <3>2. LossInv'
      BY <1>4, <1>7, <2>1, <2>4, <3>1, HoldNew
    <3>3. QED
      BY <2>2, <3>1, <3>2
  <2>5. QED
    BY <1>14, <2>3, <2>4 DEF Enqueue
<1>15. QED
  BY <1>11, <1>12, <1>13, <1>14 DEF IngestComposite

\* What is written of the queues is in order behind the client's position.
LEMMA FirstHeld ==
    ASSUME TypeOK, OrderInv, link = "up", 1 \in 1 .. Len(Held), Held[1].type # "gap"
    PROVE  /\ Held[1] \in DataFrames /\ Held[1].o \in Origins /\ Held[1].at \in Positions
           /\ UpTo(applied[Held[1].o], Held[1].at)
           /\ Held[1].type = "event" => Under(applied[Held[1].o], Held[1].at)
           /\ \A j \in 1 .. Len(Held) :
                 Held[j].type # "gap" /\ Held[j].o = Held[1].o => AtOrBehind(Held[1].at, Held[j].at)
           /\ AdvanceResume(Held[1].o, Held[1].at) => resumeAt' = resumeAt
<1> DEFINE o == Held[1].o
<1>1. Typed
  BY TypedState
<1>2. Held[1] \in DataFrames /\ o \in Origins /\ Held[1].at \in Positions
  BY <1>1 DEF Typed
<1>3. IsFrame(1, o)
  BY DEF IsFrame
<1>4. FramesOf(o) /\ ResumeOf(o)
  BY <1>2 DEF OrderInv
<1>5. /\ UpTo(applied[o], Held[1].at)
      /\ Held[1].type = "event" => Under(applied[o], Held[1].at)
      /\ Held[1].at.epoch = head[o].epoch /\ resumeAt[o] # None
      /\ AtOrBehind(Held[1].at, resumeAt[o]) /\ AtOrBehind(resumeAt[o], head[o])
  BY <1>3, <1>4 DEF FramesOf, ResumeOf
<1>6. \A j \in 1 .. Len(Held) : IsFrame(j, o) => AtOrBehind(Held[1].at, Held[j].at)
  <2> SUFFICES ASSUME NEW j \in 1 .. Len(Held), IsFrame(j, o)
               PROVE  AtOrBehind(Held[1].at, Held[j].at)
    OBVIOUS
  <2>1. AtOrBehind(Held[1].at, Held[1].at)
    BY <1>2, OrderLaws
  <2>2. j # 1 => 1 < j
    BY <1>1 DEF Typed
  <2>3. QED
    BY <1>3, <1>4, <2>1, <2>2 DEF FramesOf
<1>7. AdvanceResume(o, Held[1].at) => resumeAt' = resumeAt
  <2>1. resumeAt[o] \in Positions /\ head[o] \in Positions
    BY <1>1, <1>2, <1>5 DEF Typed
  <2>2. resumeAt \in [Origins -> Positions \cup {None}]
    BY DEF TypeOK
  <2>3. resumeAt[o].epoch = Held[1].at.epoch /\ Held[1].at.seq <= resumeAt[o].seq
    <3>1. /\ resumeAt[o].epoch \in Int /\ resumeAt[o].seq \in Int
          /\ Held[1].at.epoch \in Int /\ Held[1].at.seq \in Int
          /\ head[o].epoch \in Int
      BY <1>2, <2>1, FanInAssumption DEF Positions, Seqs
    <3>2. QED
      BY <1>5, <3>1 DEF AtOrBehind
  <2>4. Held[1].at.seq < resumeAt[o].seq \/ Held[1].at = resumeAt[o]
    <3>1. Held[1].at.seq \in Int /\ resumeAt[o].seq \in Int
      BY <1>2, <2>1, FanInAssumption DEF Positions, Seqs
    <3>2. Held[1].at.seq = resumeAt[o].seq => Held[1].at = resumeAt[o]
      BY <1>2, <2>1, <2>3 DEF Positions
    <3>3. QED
      BY <2>3, <3>1, <3>2
  <2>5. [resumeAt EXCEPT ![o] = resumeAt[o]] = resumeAt
    BY <2>2
  <2>6. QED
    BY <1>5, <2>3, <2>4, <2>5 DEF AdvanceResume
<1> HIDE DEF o
<1>8. QED
  BY <1>2, <1>5, <1>6, <1>7 DEF o, IsFrame

\* resume() writes the first of the queues.
LEMMA FlowDrained ==
    ASSUME TypeOK, FlowInv, link = "up", UNCHANGED <<link, arm, peerArms>>, draining' => flowing',
           \/ /\ flowing' => draining'
              /\ \/ verbatim # <<>> /\ verbatim' = Tail(verbatim) /\ pending' = pending
                 \/ pending # <<>> /\ pending' = Tail(pending) /\ verbatim' = verbatim
           \/ verbatim = <<>> /\ pending = <<>> /\ UNCHANGED <<verbatim, pending>> /\ dropped' = {}
    PROVE  FlowInv'
<1>1. pending \in Seq(Entries) /\ verbatim \in Seq(DataFrames) /\ verbatim \in Seq(Entries)
  BY DEF TypeOK, Entries
<1>2. /\ \A o \in Origins : arm[o] # None =>
            arm[o].hello \in {<<>>, <<"connected">>, <<"reset", "connected">>}
      /\ \A i \in 1 .. Len(verbatim) : verbatim[i].o = Local
      /\ \A i \in 1 .. Len(pending) : pending[i].type # "reset"
      /\ pending # <<>> => peerArms # {}
      /\ \A o \in Peers : arm[o] # None => o \in peerArms
      /\ HeldControls <= MaxControls
  BY DEF FlowInv
<1>3. HeldControls' = Cardinality(Controls(pending')) + Cardinality(Controls(verbatim'))
  BY DEF HeldControls, Controls
<1>4. Cardinality(Controls(pending)) \in Nat /\ Cardinality(Controls(verbatim)) \in Nat
  BY <1>1, ControlsFinite
<1>5. MaxControls \in Nat
  BY FanInAssumption
<1>6. CASE verbatim # <<>> /\ verbatim' = Tail(verbatim) /\ pending' = pending /\ (flowing' => draining')
  <2>1. /\ \A i \in 1 .. Len(verbatim') : i + 1 \in 1 .. Len(verbatim) /\ verbatim'[i] = verbatim[i + 1]
        /\ verbatim' \in Seq(Entries)
    BY <1>1, <1>6
  <2>2. HeldControls' <= MaxControls
    <3>1. Cardinality(Controls(verbatim')) <= Cardinality(Controls(verbatim))
      BY <1>1, <1>6, ControlsTail
    <3>2. Cardinality(Controls(verbatim')) \in Nat
      BY <2>1, ControlsFinite
    <3>3. QED
      BY <1>2, <1>3, <1>4, <1>5, <1>6, <3>1, <3>2, HeldControlsIs
  <2>3. QED
    BY <1>2, <1>6, <2>1, <2>2 DEF FlowInv
<1>7. CASE pending # <<>> /\ pending' = Tail(pending) /\ verbatim' = verbatim /\ (flowing' => draining')
  <2>1. /\ \A i \in 1 .. Len(pending') : i + 1 \in 1 .. Len(pending) /\ pending'[i] = pending[i + 1]
        /\ pending' \in Seq(Entries)
    BY <1>1, <1>7
  <2>2. HeldControls' <= MaxControls
    <3>1. Cardinality(Controls(pending')) <= Cardinality(Controls(pending))
      BY <1>1, <1>7, ControlsTail
    <3>2. Cardinality(Controls(pending')) \in Nat
      BY <2>1, ControlsFinite
    <3>3. QED
      BY <1>2, <1>3, <1>4, <1>5, <1>7, <3>1, <3>2, HeldControlsIs
  <2>3. QED
    BY <1>2, <1>7, <2>1, <2>2 DEF FlowInv
<1>8. CASE verbatim = <<>> /\ pending = <<>> /\ UNCHANGED <<verbatim, pending>> /\ dropped' = {}
  <2>1. HeldControls' = HeldControls
    BY <1>8 DEF HeldControls
  <2>2. QED
    BY <1>2, <1>8, <2>1 DEF FlowInv
<1>9. QED
  BY <1>6, <1>7, <1>8

LEMMA DrainKeeps ==
    ASSUME TypeOK, FlowInv, CursorInv, LossInv, DrainStep
    PROVE  FlowInv' /\ CursorInv' /\ LossInv'
<1>1. /\ UNCHANGED <<head, arm, peerArms, link>> /\ draining /\ link = "up"
      /\ pending \in Seq(Entries) /\ verbatim \in Seq(DataFrames)
      /\ OrderInv
  BY DEF DrainStep, engineVars, FlowInv, TypeOK, Entries, LossInv
<1>2. composite' = composite => SameCursor
  BY DEF SameCursor, Cur
<1>3. CASE DrainVerbatim /\ draining' = flowing'
  <2> DEFINE f == Head(verbatim)
  <2>1. /\ verbatim # <<>> /\ verbatim' = Tail(verbatim) /\ Receive(f, BareId(f.at))
        /\ UNCHANGED <<composite, resumeAt, pending, dropped>>
    BY <1>3 DEF DrainVerbatim, cursorVars
  <2>2. Shrinks /\ 1 \in 1 .. Len(Held) /\ Held[1] = f
    BY <2>1, HeldShrinks
  <2>3. /\ Len(verbatim) \in Nat /\ 1 \in 1 .. Len(verbatim) /\ f = verbatim[1]
        /\ Len(verbatim) \in 1 .. Len(verbatim)
        /\ f \in DataFrames
    BY <1>1, <2>1
  <2>4. f.type # "gap" /\ f.o = Local
    BY <1>1, <2>3 DEF DataFrames, ControlTypes, FlowInv
  <2>f. PICK g : g = f
    OBVIOUS
  <2> HIDE DEF f
  <2>5. /\ g \in DataFrames /\ g.at \in Positions
        /\ UpTo(applied[Local], g.at)
        /\ g.type = "event" => Under(applied[Local], g.at)
        /\ \A j \in 1 .. Len(Held) :
              Held[j].type # "gap" /\ Held[j].o = Local => AtOrBehind(g.at, Held[j].at)
    BY <1>1, <2>2, <2>4, <2>f, FirstHeld
  <2>6. /\ Takes(g)
        /\ raw' # None /\ MapOf(raw'.at)
        /\ \A o \in Origins : applied'[o] = Get(raw'.at, o)
        /\ \A o \in Peers : applied'[o] = None
        /\ applied'[Local] = g.at
    BY <2>1, <2>4, <2>5, <2>f, BareTaken
  <2>7. Cur(Local) = verbatim[Len(verbatim)].at
    BY <1>1, <2>1 DEF CursorInv
  <2>8. Cur(Local) # None /\ AtOrBehind(g.at, Cur(Local))
    <3>1. /\ Len(verbatim) \in 1 .. Len(Held) /\ Held[Len(verbatim)] = verbatim[Len(verbatim)]
          /\ verbatim[Len(verbatim)] \in DataFrames
      BY <2>3, Entry
    <3>2. verbatim[Len(verbatim)].o = Local
      BY <1>1, <2>3 DEF FlowInv
    <3>3. verbatim[Len(verbatim)].type # "gap" /\ verbatim[Len(verbatim)].at \in Positions
      BY <3>1 DEF DataFrames, ControlTypes
    <3>4. QED
      BY <2>5, <2>7, <3>1, <3>2, <3>3, NoneAssumption
  <2>9. LossInv'
    BY <1>1, <1>2, <2>1, <2>2, <2>4, <2>6, <2>8, <2>f, TakeHeld
  <2>10. CursorInv'
    <3>1. Cur(Local)' = Cur(Local)
      BY <2>1 DEF Cur
    <3>2. CASE verbatim' = <<>>
      <4>1. Len(verbatim) = 1
        <5>1. Len(verbatim') = 0
          BY <3>2
        <5>2. Len(verbatim) \in Nat /\ Len(verbatim) # 0 /\ Len(Tail(verbatim)) = Len(verbatim) - 1
          BY <1>1, <2>1
        <5>3. QED
          BY <2>1, <5>1, <5>2
      <4>2. Cur(Local) = g.at
        BY <2>3, <2>7, <2>f, <4>1
      <4>3. QED
        BY <1>1, <2>1, <2>6, <3>1, <3>2, <4>2 DEF CursorInv
    <3>3. CASE verbatim' # <<>>
      <4>1. verbatim'[Len(verbatim')] = verbatim[Len(verbatim)]
        <5>1. Len(verbatim') \in Nat /\ Len(verbatim') # 0 /\ Len(verbatim) = Len(verbatim') + 1
          BY <1>1, <2>1, <3>3
        <5>2. Len(verbatim') \in 1 .. Len(verbatim')
          BY <5>1
        <5>3. QED
          BY <1>1, <2>1, <5>1, <5>2
      <4>2. QED
        BY <1>1, <2>1, <2>6, <2>7, <3>1, <3>3, <4>1 DEF CursorInv
    <3>4. QED
      BY <3>2, <3>3
  <2>11. FlowInv'
    BY <1>1, <1>3, <2>1, FlowDrained
  <2>12. QED
    BY <2>9, <2>10, <2>11
<1>4. CASE DrainPending /\ draining' = flowing'
  <2> DEFINE f == Head(pending)
  <2>1. verbatim = <<>> /\ pending # <<>> /\ pending' = Tail(pending)
        /\ verbatim' = verbatim /\ UNCHANGED dropped
    BY <1>4 DEF DrainPending
  <2>2. Shrinks /\ 1 \in 1 .. Len(Held) /\ Held[1] = f
    BY <2>1, HeldShrinks
  <2>3. FlowInv'
    BY <1>1, <1>4, <2>1, FlowDrained
  <2>4. CASE f.type = "gap" /\ ReceiveGap({f.o}) /\ UNCHANGED <<composite, resumeAt>>
    <3>1. UNCHANGED <<raw, applied, unseen, last>> /\ owed'
      BY <2>4 DEF ReceiveGap
    <3>2. LossInv'
      BY <1>1, <1>2, <2>2, <2>4, <3>1, GapHeld
    <3>3. CursorInv'
      BY <1>1, <2>1, <2>4, <3>1, CursorStill
    <3>4. QED
      BY <2>3, <3>2, <3>3
  <2>5. CASE f.type # "gap" /\ Deliver(f)
    <3>f. PICK g : g = f
      OBVIOUS
    <3> HIDE DEF f
    <3>1. /\ g \in DataFrames /\ g.o \in Origins /\ UpTo(applied[g.o], g.at)
          /\ AdvanceResume(g.o, g.at) => resumeAt' = resumeAt
      BY <1>1, <2>2, <2>5, <3>f, FirstHeld
    <3>2. /\ Takes(g)
          /\ raw' # None /\ MapOf(raw'.at) /\ MapOf(composite')
          /\ \A o \in Origins : applied'[o] = Get(raw'.at, o) /\ applied'[o] = Cur(o)'
          /\ Cur(g.o)' = g.at
          /\ \A o \in Origins \ {g.o} : Cur(o)' = Cur(o)
      BY <1>1, <2>1, <2>5, <3>f, <3>1, StampedTaken
    <3>3. resumeAt' = resumeAt
      BY <2>5, <3>f, <3>1 DEF Deliver
    <3>4. LossInv'
      BY <1>1, <2>1, <2>2, <2>5, <3>f, <3>2, <3>3, TakeHeld DEF Stamps
    <3>5. CursorInv'
      BY <1>1, <2>1, <3>2 DEF CursorInv, Origins
    <3>6. QED
      BY <2>3, <3>4, <3>5
  <2>6. QED
    BY <1>4, <2>4, <2>5 DEF DrainPending
<1>5. CASE DrainEnd /\ draining' = FALSE
  <2>1. /\ verbatim = <<>> /\ pending = <<>> /\ dropped' = {}
        /\ UNCHANGED <<composite, resumeAt, pending, verbatim>>
    BY <1>5 DEF DrainEnd, cursorVars
  <2>2. FlowInv'
    BY <1>1, <1>5, <2>1, FlowDrained
  <2>3. Held' = Held /\ SameCursor
    BY <1>2, <2>1 DEF Held
  <2>4. CASE dropped # {} /\ ReceiveGap(dropped)
    <3>1. UNCHANGED <<raw, applied, unseen, last>> /\ owed'
      BY <2>4 DEF ReceiveGap
    <3>2. OrderInv'
      BY <1>1, <2>1, <2>3, <3>1, OrderStill
    <3>3. QED
      BY <1>1, <2>1, <2>2, <3>1, <3>2, Loud, CursorStill
  <2>5. CASE dropped = {} /\ UNCHANGED clientVars
    <3>1. UNCHANGED <<raw, applied, rebase, owed, unseen, last>>
      BY <2>5 DEF clientVars
    <3>2. LossInv'
      BY <1>1, <2>1, <2>3, <2>5, <3>1, Unmoved
    <3>3. QED
      BY <1>1, <2>1, <2>2, <3>1, <3>2, CursorStill
  <2>6. QED
    BY <1>5, <2>4, <2>5 DEF DrainEnd
<1>6. QED
  BY <1>3, <1>4, <1>5 DEF DrainStep

-----------------------------------------------------------------------------
(* The flow and the client's cursor, when nothing is received              *)

\* The held control frames are a matter of the two queues.
LEMMA FlowQuiet ==
    ASSUME FlowInv, UNCHANGED <<verbatim, pending, dropped, peerArms>>,
           \A k \in Origins : arm'[k] = arm[k] \/ arm'[k] = None,
           \/ link' = link /\ UNCHANGED <<flowing, draining>>
           \/ link' = link /\ link = "up" /\ draining' /\ flowing'
           \/ link' = "down" /\ ~ draining' /\ \A k \in Origins : arm'[k] = None
    PROVE  FlowInv'
<1>1. HeldControls' = HeldControls
  BY DEF HeldControls
<1>2. \A o \in Peers : o \in Origins
  BY DEF Origins
<1>3. HeldControls' <= MaxControls
  BY <1>1 DEF FlowInv
<1>4. \A o \in Origins : arm'[o] # None =>
          arm'[o].hello \in {<<>>, <<"connected">>, <<"reset", "connected">>}
  BY DEF FlowInv
<1>5. CASE link' = link /\ UNCHANGED <<flowing, draining>>
  BY <1>2, <1>3, <1>4, <1>5 DEF FlowInv
<1>6. CASE link' = link /\ link = "up" /\ draining' /\ flowing'
  BY <1>2, <1>3, <1>4, <1>6 DEF FlowInv
<1>7. CASE link' = "down" /\ ~ draining' /\ \A k \in Origins : arm'[k] = None
  BY <1>3, <1>7 DEF FlowInv
<1>8. QED
  BY <1>5, <1>6, <1>7

LEMMA CursorQuiet ==
    ASSUME CursorInv, link' = link \/ link' = "down", UNCHANGED <<raw, applied, composite, verbatim>>
    PROVE  CursorInv'
  BY DEF CursorInv, Cur

LEMMA ConnectFlow ==
    ASSUME TypeOK, FlowInv, CursorInv, LossInv, Connect
    PROVE  FlowInv' /\ CursorInv'
<1>1. PICK usable \in SUBSET Peers :
         /\ composite' = IF raw = None THEN <<>> ELSE raw.at
         /\ peerArms' = usable
         /\ arm' = [o \in Origins |-> IF o \in usable \cup {Local}
                                      THEN Opened(o, Get(IF raw = None THEN <<>> ELSE raw.at, o))
                                      ELSE None]
  BY DEF Connect, SeedCursor
<1>2. /\ verbatim' = <<>> /\ pending' = <<>> /\ dropped' = {} /\ draining' = FALSE
      /\ link' = "up" /\ UNCHANGED <<raw, applied>>
  BY DEF Connect, clientVars
<1>3. Local \notin Peers
  BY FanInAssumption
<1>4. FlowInv'
  <2>1. \A o \in Origins : arm'[o] # None =>
            arm'[o].hello \in {<<>>, <<"connected">>, <<"reset", "connected">>}
    BY <1>1 DEF Opened
  <2>2. \A o \in Peers : arm'[o] # None => o \in peerArms'
    BY <1>1, <1>3 DEF Origins
  <2>3. HeldControls' <= MaxControls
    <3>1. Controls(<<>>) = {}
      BY DEF Controls
    <3>2. HeldControls' = Cardinality(Controls(pending')) + Cardinality(Controls(verbatim'))
      BY DEF HeldControls, Controls
    <3>3. HeldControls' = 0
      BY <1>2, <3>1, <3>2, FS_EmptySet
    <3>4. QED
      BY <3>3, FanInAssumption
  <2>4. QED
    BY <1>2, <2>1, <2>2, <2>3 DEF FlowInv
<1>5. CursorInv'
  <2>1. \A o \in Origins : Cur(o)' = applied[o]
    BY ConnectKeeps
  <2>2. MapOf(composite')
    BY <1>1 DEF CursorInv, MapOf
  <2>3. Local \in Origins /\ \A o \in Peers : o \in Origins
    BY DEF Origins
  <2>4. /\ raw' # None => MapOf(raw'.at)
        /\ \A o \in Origins : applied'[o] = IF raw' = None THEN None ELSE Get(raw'.at, o)
    BY <1>2 DEF CursorInv
  <2>5. QED
    BY <1>2, <2>1, <2>2, <2>3, <2>4 DEF CursorInv
<1>6. QED
  BY <1>4, <1>5

\* A peer that leaves leaves no queue behind: the socket accepts writes then.
LEMMA ReconcileFlow ==
    ASSUME TypeOK, FlowInv, CursorInv, ~ LeaveStalled, Reconcile
    PROVE  FlowInv' /\ CursorInv'
<1>1. PICK usable \in SUBSET Peers :
         /\ flowing \/ peerArms \subseteq usable
         /\ peerArms' = usable
         /\ flowing' \in {flowing, FALSE}
         /\ arm' = [o \in Origins |-> IF o \notin usable \cup {Local} THEN None
                                      ELSE IF arm[o] # None THEN arm[o]
                                      ELSE Opened(o, resumeAt[o])]
  BY DEF Reconcile, SetMembership
<1>2. /\ link = "up" /\ ~ draining
      /\ UNCHANGED <<raw, applied, composite, verbatim, pending, dropped, draining, link>>
  BY DEF Reconcile, clientVars
<1>3. FlowInv'
  <2>1. \A o \in Origins : arm'[o] # None =>
            arm'[o].hello \in {<<>>, <<"connected">>, <<"reset", "connected">>}
    BY <1>1 DEF Opened, FlowInv
  <2>2. \A o \in Peers : arm'[o] # None => o \in peerArms'
    BY <1>1, FanInAssumption DEF Origins
  <2>3. HeldControls' <= MaxControls
    <3>1. HeldControls' = HeldControls
      BY <1>2 DEF HeldControls
    <3>2. QED
      BY <3>1 DEF FlowInv
  <2>4. flowing => verbatim = <<>> /\ pending = <<>> /\ dropped = {}
    BY <1>2 DEF FlowInv
  <2>5. pending' # <<>> => peerArms' # {}
    BY <1>1, <1>2, <2>4 DEF FlowInv
  <2>6. flowing' => flowing
    BY <1>1
  <2>7. QED
    BY <1>2, <2>1, <2>2, <2>3, <2>4, <2>5, <2>6 DEF FlowInv
<1>4. CursorInv'
  BY <1>2, CursorStill
<1>5. QED
  BY <1>3, <1>4

\* What no frame is written by.
LEMMA QuietFlow ==
    ASSUME TypeOK, FlowInv, CursorInv, NEW o \in Origins,
           \/ BreakArm(o) \/ HangUp \/ Drain \/ Emit(o) \/ Evict(o) \/ Restart(o) \/ Resync
           \/ UNCHANGED vars
    PROVE  FlowInv' /\ CursorInv'
<1>1. /\ UNCHANGED <<verbatim, pending, dropped, peerArms, raw, applied, composite>>
      /\ \A k \in Origins : arm'[k] = arm[k] \/ arm'[k] = None
      /\ link' = link \/ link' = "down"
  <2>1. arm \in [Origins -> Arms \cup {None}]
    BY DEF TypeOK
  <2>2. CASE BreakArm(o) \/ HangUp \/ Drain \/ Emit(o)
    BY <2>1, <2>2 DEF BreakArm, HangUp, Drain, Emit, cursorVars, queueVars, clientVars
  <2>3. CASE Evict(o) \/ Restart(o) \/ Resync \/ UNCHANGED vars
    BY <2>1, <2>3 DEF Evict, Restart, Resync, vars, cursorVars, queueVars, clientVars
  <2>4. QED
    BY <2>2, <2>3
<1>2. \/ link' = link /\ UNCHANGED <<flowing, draining>>
      \/ link' = link /\ link = "up" /\ draining' /\ flowing'
      \/ link' = "down" /\ ~ draining' /\ \A k \in Origins : arm'[k] = None
  <2>1. CASE BreakArm(o) \/ HangUp \/ Drain \/ Emit(o)
    BY <2>1 DEF BreakArm, HangUp, Drain, Emit, cursorVars, queueVars, clientVars
  <2>2. CASE Evict(o) \/ Restart(o) \/ Resync \/ UNCHANGED vars
    BY <2>2 DEF Evict, Restart, Resync, vars, cursorVars, queueVars, clientVars
  <2>3. QED
    BY <2>1, <2>2
<1>3. QED
  BY <1>1, <1>2, FlowQuiet, CursorQuiet

-----------------------------------------------------------------------------
(* The inductive invariant holds                                           *)

\* Nothing has happened.
LEMMA InitIInv == Init => IInv
<1> SUFFICES ASSUME Init PROVE IInv
  OBVIOUS
<1>1. TypeOK
  BY InitTypes
<1>2. /\ link = "down" /\ ~ draining /\ unseen = {} /\ raw = None
      /\ pending = <<>> /\ verbatim = <<>>
      /\ \A o \in Origins : /\ arm[o] = None /\ applied[o] = None
                            /\ head[o] = Zero /\ last[o] = Zero
  BY DEF Init
<1>3. FlowInv
  <2>1. Controls(<<>>) = {}
    BY DEF Controls
  <2>2. HeldControls = 0
    BY <1>2, <2>1, HeldControlsIs, FS_EmptySet
  <2>3. QED
    BY <1>2, <2>2, FanInAssumption DEF FlowInv
<1>4. CursorInv
  BY <1>2 DEF CursorInv
<1>5. OrderInv
  <2>1. AtOrBehind(Zero, Zero)
    BY DEF AtOrBehind, Zero
  <2>2. QED
    BY <1>2, <2>1 DEF OrderInv, AppliedOf, UpTo
<1>6. NoSilentLoss /\ CoverInv /\ ChainInv
  BY <1>2 DEF NoSilentLoss, CoverInv, ChainInv
<1>7. QED
  BY <1>1, <1>3, <1>4, <1>5, <1>6 DEF IInv

\* A frame of an upstream arrives.
LEMMA PumpKeeps ==
    ASSUME TypeOK, FlowInv, CursorInv, LossInv, MaxControls < BufferBound,
           NEW o \in Origins, PumpHello(o) \/ PumpEvent(o) \/ PumpBeat(o)
    PROVE  FlowInv' /\ CursorInv' /\ LossInv'
<1>1. PICK f \in DataFrames : f.o = o /\ Sent(f) /\ Ingest(f)
  BY SentFrame DEF LossInv
<1>2. CASE Verbatim(f.o) /\ IngestVerbatim(f)
  BY <1>1, <1>2, VerbatimKeeps
<1>3. CASE ~ Verbatim(f.o) /\ IngestComposite(f)
  BY <1>1, <1>3, CompositeKeeps
<1>4. QED
  BY <1>1, <1>2, <1>3 DEF Ingest

\* Every step keeps the invariant.
LEMMA NextIInv ==
    ASSUME ~ LeaveStalled, ~ RestartHeld, MaxControls < BufferBound
    PROVE  IInv /\ [Next]_vars => IInv'
<1> SUFFICES ASSUME IInv, [Next]_vars PROVE IInv'
  OBVIOUS
<1>1. TypeOK /\ FlowInv /\ CursorInv /\ LossInv
  BY DEF IInv, LossInv
<1>2. TypeOK'
  BY <1>1, NextTypes
<1>3. Local \in Origins
  BY DEF Origins
<1>4. FlowInv' /\ CursorInv' /\ LossInv'
  <2>1. CASE \E o \in Origins : PumpHello(o) \/ PumpEvent(o) \/ PumpBeat(o)
    BY <1>1, <2>1, PumpKeeps
  <2>2. ASSUME NEW o \in Origins, BreakArm(o) PROVE FlowInv' /\ CursorInv' /\ LossInv'
    BY <1>1, <2>2, QuietFlow, LostKeeps
  <2>3. ASSUME NEW o \in Origins, Emit(o) PROVE FlowInv' /\ CursorInv' /\ LossInv'
    BY <1>1, <2>3, QuietFlow, EmitKeeps
  <2>4. ASSUME NEW o \in Origins, Restart(o) PROVE FlowInv' /\ CursorInv' /\ LossInv'
    BY <1>1, <2>4, QuietFlow, RestartKeeps
  <2>5. ASSUME NEW o \in Origins, Evict(o) PROVE FlowInv' /\ CursorInv' /\ LossInv'
    BY <1>1, <2>5, QuietFlow, QuietKeeps
  <2>6. CASE Drain \/ UNCHANGED vars
    BY <1>1, <1>3, <2>6, QuietFlow, QuietKeeps
  <2>7. CASE DrainStep
    BY <1>1, <2>7, DrainKeeps
  <2>8. CASE Connect
    BY <1>1, <2>8, ConnectFlow, ConnectKeeps
  <2>9. CASE Reconcile
    BY <1>1, <2>9, ReconcileFlow, ReconcileKeeps
  <2>10. CASE HangUp
    BY <1>1, <1>3, <2>10, QuietFlow, LostKeeps
  <2>11. CASE Resync
    BY <1>1, <1>3, <2>11, QuietFlow, ResyncKeeps
  <2>12. QED
    BY <2>1, <2>2, <2>3, <2>4, <2>5, <2>6, <2>7, <2>8, <2>9, <2>10, <2>11 DEF Next
<1>5. QED
  BY <1>2, <1>4 DEF IInv, LossInv

LEMMA AlwaysIInv ==
    ASSUME ~ LeaveStalled, ~ RestartHeld, MaxControls < BufferBound
    PROVE  Spec => []IInv
<1>1. IInv /\ [Next]_vars => IInv'
  BY NextIInv
<1>2. QED
  BY <1>1, InitIInv, PTL DEF Spec

-----------------------------------------------------------------------------
(* What it implies                                                         *)

\* What is behind the next position was not applied last.
LEMMA NotBehind ==
    ASSUME NEW p \in Positions, NEW q \in Positions, Before(p, q)
    PROVE  ~ AtOrBehind(q, p)
  BY OrderLaws DEF Before

\* The first frame of a queue is ahead of what has been applied.
LEMMA FirstIsNew ==
    ASSUME IInv, draining, NEW i \in 1 .. Len(Held), Held[i].type = "event"
    PROVE  ~ AtOrBehind(Held[i].at, last[Held[i].o])
<1>1. Typed /\ link = "up"
  BY TypedState DEF IInv, FlowInv, TypeOK
<1>2. Held[i].o \in Origins /\ Held[i].at \in Positions /\ last[Held[i].o] \in Positions
  BY <1>1 DEF Typed
<1>3. FramesOf(Held[i].o) /\ IsFrame(i, Held[i].o)
  BY <1>1, <1>2 DEF IInv, OrderInv, IsFrame
<1>4. QED
  BY <1>2, <1>3, NotBehind DEF FramesOf

\* The next event of an upstream is ahead of what has been applied.
LEMMA NextIsNew ==
    ASSUME IInv, NEW o \in Sending, NextFrame(o).type = "event"
    PROVE  NextFrame(o).o = o /\ ~ AtOrBehind(NextFrame(o).at, last[o])
<1>1. Typed /\ o \in Origins /\ link = "up" /\ arm[o] # None
  BY TypedState DEF IInv, Sending, CanPump
<1>2. arm[o].hello = <<>>
  <2>1. arm[o].hello \in {<<>>, <<"connected">>, <<"reset", "connected">>}
    BY <1>1 DEF IInv, FlowInv
  <2>2. Head(<<"connected">>) = "connected" /\ Head(<<"reset", "connected">>) = "reset"
    OBVIOUS
  <2>3. QED
    BY <2>1, <2>2 DEF NextFrame, Frame
<1>3. /\ arm[o].at.seq < head[o].seq
      /\ NextFrame(o) = Frame("event", o, [arm[o].at EXCEPT !.seq = @ + 1])
  BY <1>2 DEF NextFrame, Sending
<1>4. /\ arm[o].at \in Positions /\ head[o] \in Positions /\ last[o] \in Positions
      /\ arm[o].at.epoch = head[o].epoch /\ AtOrBehind(last[o], arm[o].at)
  BY <1>1 DEF Typed, IInv, OrderInv, ResumeOf
<1>5. /\ [arm[o].at EXCEPT !.seq = @ + 1] \in Positions
      /\ Before(arm[o].at, [arm[o].at EXCEPT !.seq = @ + 1])
  BY <1>3, <1>4, NextPosition
<1>6. ~ AtOrBehind([arm[o].at EXCEPT !.seq = @ + 1], last[o])
  BY <1>4, <1>5, NotBehind, OrderLaws
<1>7. QED
  BY <1>3, <1>6 DEF Frame

LEMMA OrderFromIInv == IInv => AppliedInOrder
<1> SUFFICES ASSUME IInv, NEW u \in Upcoming, u.f.type = "event"
             PROVE  ~ AtOrBehind(u.f.at, last[u.f.o])
  BY DEF AppliedInOrder
<1>1. \/ \E o \in Sending : u.f = NextFrame(o)
      \/ draining /\ 1 \in 1 .. Len(verbatim) /\ u.f = verbatim[1]
      \/ draining /\ 1 \in 1 .. Len(pending) /\ u.f = pending[1]
  BY DEF Upcoming
<1>2. CASE \E o \in Sending : u.f = NextFrame(o)
  BY <1>2, NextIsNew
<1>3. CASE draining /\ 1 \in 1 .. Len(verbatim) /\ u.f = verbatim[1]
  <2>1. 1 \in 1 .. Len(Held) /\ Held[1] = verbatim[1]
    BY <1>3, Entry DEF IInv
  <2>2. QED
    BY <1>3, <2>1, FirstIsNew
<1>4. CASE draining /\ 1 \in 1 .. Len(pending) /\ u.f = pending[1]
  <2>1. Len(verbatim) + 1 \in 1 .. Len(Held) /\ Held[Len(verbatim) + 1] = pending[1]
    BY <1>4, Entry DEF IInv
  <2>2. QED
    BY <1>4, <2>1, FirstIsNew
<1>5. QED
  BY <1>1, <1>2, <1>3, <1>4

LEMMA CoverFromIInv == IInv => ResumeIsCovered
<1> SUFFICES ASSUME IInv, NEW e \in unseen, link = "up", applied[e.o] # None,
                    resumeAt[e.o] # None, AtOrBehind(e.at, resumeAt[e.o]),
                    ~ owed, e.o \notin dropped
             PROVE  \/ Queued(e)
                    \/ \E i \in 1 .. Len(pending) : pending[i] = [type |-> "gap", o |-> e.o]
                    \/ e.o = Local /\ \E i \in 1 .. Len(verbatim) : verbatim[i].type = "reset"
  BY DEF ResumeIsCovered
<1>1. TypeOK /\ Typed /\ FlowInv /\ CoverInv
  BY TypedState DEF IInv
<1>2. Reached(e) /\ Needs(e)
  BY DEF Reached, Needs
<1>3. PICK i \in 1 .. Len(Held) : IsOwn(i, e) \/ Announces(i, e.o)
  BY <1>1, <1>2 DEF CoverInv, Covered
<1>4. CASE i \in 1 .. Len(verbatim)
  <2>1. Held[i] = verbatim[i] /\ verbatim[i] \in DataFrames /\ verbatim[i].o = Local
    BY <1>1, <1>4, Entry DEF FlowInv
  <2>2. verbatim[i].type # "gap"
    BY <2>1 DEF DataFrames, ControlTypes
  <2>3. QED
    BY <1>3, <1>4, <2>1, <2>2 DEF IsOwn, Announces, Queued
<1>5. CASE \E j \in 1 .. Len(pending) : i = Len(verbatim) + j
  <2>1. PICK j \in 1 .. Len(pending) : i = Len(verbatim) + j
    BY <1>5
  <2>2. Held[i] = pending[j] /\ pending[j].type # "reset"
    BY <1>1, <2>1, Entry DEF FlowInv
  <2>3. CASE IsOwn(i, e)
    BY <2>2, <2>3 DEF IsOwn, Queued
  <2>4. CASE Announces(i, e.o)
    <3>1. pending[j].type = "gap" /\ pending[j].o = e.o /\ pending[j] \in Gaps
      BY <1>1, <2>2, <2>4 DEF Announces, Typed
    <3>2. pending[j] = [type |-> "gap", o |-> e.o]
      BY <3>1 DEF Gaps
    <3>3. QED
      BY <3>2
  <2>5. QED
    BY <1>3, <2>3, <2>4
<1>6. QED
  BY <1>1, <1>4, <1>5, Entry

-----------------------------------------------------------------------------
(* The theorems                                                            *)

(* The contiguity check "makes every unreplayable loss loud"               *)
(* (stream-cursor.ts:2) behind the fan-in too: whatever overflows, is      *)
(* re-opened or restarts, an event behind the client's position of its     *)
(* origin was applied or fetched, or a forced resync is due.  Peers do not *)
(* leave a stalled listener, engines do not restart while frames of theirs *)
(* are held, and a full buffer holds more than handshakes and heartbeats.  *)
THEOREM EveryLossIsLoud ==
    ASSUME ~ LeaveStalled, ~ RestartHeld, MaxControls < BufferBound
    PROVE  Spec => []NoSilentLoss
<1>1. IInv => NoSilentLoss
  BY DEF IInv
<1>2. Spec => []IInv
  BY AlwaysIInv
<1>3. QED
  BY <1>1, <1>2, PTL

(* An arm that is re-opened "never re-sends a frame the listener will      *)
(* already get" (sse_fanin_aggregator.ts:697-699), and what the queues     *)
(* hold is written in order: no event is applied twice or after a later    *)
(* one of its origin.                                                      *)
THEOREM EachAppliedOnceInOrder ==
    ASSUME ~ LeaveStalled, ~ RestartHeld, MaxControls < BufferBound
    PROVE  Spec => []AppliedInOrder
<1>1. Spec => []IInv
  BY AlwaysIInv
<1>2. QED
  BY <1>1, OrderFromIInv, PTL

(* resumeAt runs ahead of what was written only over frames that are       *)
(* queued, or whose loss a queued gap or reset, a drop count or a due      *)
(* resync makes known (sse_fanin_aggregator.ts advanceResume).             *)
THEOREM ResumePointIsCovered ==
    ASSUME ~ LeaveStalled, ~ RestartHeld, MaxControls < BufferBound
    PROVE  Spec => []ResumeIsCovered
<1>1. Spec => []IInv
  BY AlwaysIInv
<1>2. QED
  BY <1>1, CoverFromIInv, PTL
=============================================================================
