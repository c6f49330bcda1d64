------------------------- MODULE EventStreamProofs -------------------------
(***************************************************************************)
(* The event stream's type correctness, its four invariants and its action *)
(* property, for any number of events, runs of the engine and losses, any  *)
(* set of durable events and any size of the mirror window.                *)
(*                                                                         *)
(* EngineInv: what the buffer serves it serves completely.  Only Evict,    *)
(* Push and Restart touch it.                                              *)
(*                                                                         *)
(* StreamInv adds what is known of the items on the way, of the cursor and *)
(* of the events the client has not accounted for: one run of the engine,  *)
(* in the order of the bus, a reset only at its head, and no event at or   *)
(* behind the cursor but for an owed resync.  From it follow NoSilentLoss, *)
(* AppliedInOrder and IdsNeverDecrease.                                    *)
(*                                                                         *)
(* CauseInv adds what the items on the way do not skip: each sequence the  *)
(* buffer can still serve comes before anything that would overtake it.    *)
(* From it follows ResyncOnlyForLoss.                                      *)
(*                                                                         *)
(* Connect sends a whole replay at once.  Replay enumerates the frames it  *)
(* picks by their rank, so what it holds is proved from the cardinality of *)
(* finite sets and from the least member of a set of numbers.              *)
(***************************************************************************)
EXTENDS EventStream, FiniteSetTheorems, NaturalsInduction, WellFoundedInduction, TLAPS

-----------------------------------------------------------------------------
(* The buffer serves completely what it serves                             *)

\* What the proofs need to know of the engine's state.
EngineOK ==
    /\ epoch \in Epochs
    /\ seq \in 0 .. MaxSeq
    /\ frames \in Seq(Frames)
    /\ floor \in 0 .. MaxSeq
    /\ holes \subseteq 1 .. MaxSeq
    /\ mirrors \subseteq 1 .. MaxSeq
    /\ uncopied \subseteq 1 .. MaxSeq

\* The inductive invariant of the engine.
EngineInv == EngineOK /\ ServableIsRetained

\* Sequence n of epoch e has a frame for every subscriber in fs.
Held(fs, e, n) ==
    \E i \in 1 .. Len(fs) :
        /\ fs[i].at = [epoch |-> e, seq |-> n]
        /\ fs[i].type # "copy"

(* Evict keeps a sequence of frames, never lowers the floor, and takes no  *)
(* frame above the floor it leaves (ReplayBuffer #evict).                  *)
LEMMA EvictKeeps ==
    ASSUME NEW fs \in Seq(Frames), NEW k \in 0 .. Len(fs),
           floor \in 0 .. MaxSeq, Evict(fs, k)
    PROVE  /\ frames' \in Seq(Frames)
           /\ floor' \in 0 .. MaxSeq
           /\ floor' >= floor
           /\ Len(frames') = Len(fs) - k
           /\ \A i \in 1 .. k : fs[i].at.seq <= floor'
           /\ \A i \in k + 1 .. Len(fs) :
                 i - k \in 1 .. Len(frames') /\ frames'[i - k] = fs[i]
<1> USE BoundsAssumption
<1>1. /\ frames' = SubSeq(fs, k + 1, Len(fs))
      /\ frames' \in Seq(Frames)
      /\ Len(frames') = Len(fs) - k
  BY DEF Evict
<1>2. \A i \in 1 .. Len(fs) : fs[i].at.seq \in 0 .. MaxSeq
  <2>1. \A f \in Frames : f.at.seq \in 0 .. MaxSeq
    BY DEF Frames, Positions
  <2>2. \A i \in 1 .. Len(fs) : fs[i] \in Frames
    OBVIOUS
  <2> QED
    BY <2>1, <2>2
<1> DEFINE gone == {floor} \cup {fs[i].at.seq : i \in 1 .. k}
<1>3. gone \subseteq 0 .. MaxSeq
  BY <1>2
<1>4. floor' \in gone /\ \A n \in gone : n <= floor'
  BY DEF Evict
<1>5. floor' \in 0 .. MaxSeq /\ floor' >= floor
  BY <1>3, <1>4
<1>6. \A i \in 1 .. k : fs[i].at.seq <= floor'
  BY <1>4
<1>7. \A i \in k + 1 .. Len(fs) :
         i - k \in 1 .. Len(frames') /\ frames'[i - k] = fs[i]
  BY <1>1
<1> QED
  BY <1>1, <1>5, <1>6, <1>7

(* Evict keeps the frame of every sequence above the floor it leaves.      *)
LEMMA EvictHolds ==
    ASSUME NEW fs \in Seq(Frames), NEW k \in 0 .. Len(fs),
           floor \in 0 .. MaxSeq, Evict(fs, k),
           NEW n \in Nat, n > floor', Held(fs, epoch, n)
    PROVE  Held(frames', epoch, n)
<1> USE BoundsAssumption
<1>1. PICK i \in 1 .. Len(fs) :
        /\ fs[i].at = [epoch |-> epoch, seq |-> n]
        /\ fs[i].type # "copy"
  BY DEF Held
<1>2. fs[i].at.seq = n
  BY <1>1
<1>3. floor' \in 0 .. MaxSeq /\ (\A j \in 1 .. k : fs[j].at.seq <= floor')
  BY EvictKeeps
<1>4. i \in k + 1 .. Len(fs)
  BY <1>2, <1>3
<1>5. i - k \in 1 .. Len(frames') /\ frames'[i - k] = fs[i]
  BY <1>4, EvictKeeps
<1> QED
  BY <1>1, <1>5 DEF Held

(* Push retains the new frame unless it evicts it, and the floor tells     *)
(* (ReplayBuffer.push).                                                    *)
LEMMA PushHolds ==
    ASSUME EngineOK, NEW type \in FrameTypes, NEW n \in 1 .. MaxSeq,
           Push(type, n), epoch' = epoch
    PROVE  /\ frames' \in Seq(Frames)
           /\ floor' \in 0 .. MaxSeq
           /\ floor' >= floor
           /\ holes' = holes
           /\ \A m \in Nat : m > floor' /\ Held(frames, epoch, m) => Held(frames', epoch, m)
           /\ type # "copy" /\ n > floor' => Held(frames', epoch, n)
<1> USE BoundsAssumption
<1> DEFINE frame == [type |-> type, at |-> At(n)]
           fs == Append(frames, frame)
<1>1. frame \in Frames
  BY DEF EngineOK, Frames, Positions, At
<1>2. frames \in Seq(Frames) /\ floor \in 0 .. MaxSeq
  BY DEF EngineOK
<1>3. /\ fs \in Seq(Frames)
      /\ Len(fs) = Len(frames) + 1
      /\ fs[Len(fs)] = frame
      /\ \A i \in 1 .. Len(frames) : fs[i] = frames[i]
  BY <1>1, <1>2
<1>4. PICK k \in 0 .. Len(frames) + 1 : Evict(fs, k)
  BY DEF Push
<1>5. k \in 0 .. Len(fs)
  BY <1>3, <1>4
<1>6. \A m : Held(frames, epoch, m) => Held(fs, epoch, m)
  BY <1>2, <1>3 DEF Held
<1>7. type # "copy" => Held(fs, epoch, n)
  <2>1. Len(fs) \in 1 .. Len(fs)
    BY <1>2, <1>3
  <2>2. frame.at = [epoch |-> epoch, seq |-> n] /\ frame.type = type
    BY DEF At
  <2> HIDE DEF fs, frame
  <2> QED
    BY <1>3, <2>1, <2>2 DEF Held
<1> HIDE DEF fs
<1>8. /\ frames' \in Seq(Frames)
      /\ floor' \in 0 .. MaxSeq
      /\ floor' >= floor
  BY <1>2, <1>3, <1>4, <1>5, EvictKeeps
<1>9. \A m \in Nat : m > floor' /\ Held(fs, epoch, m) => Held(frames', epoch, m)
  BY <1>2, <1>3, <1>4, <1>5, EvictHolds DEF Held
<1>10. holes' = holes
  BY DEF Push
<1> QED
  BY <1>6, <1>7, <1>8, <1>9, <1>10

(* The buffer is complete again once the sequence that the bus has just    *)
(* handed out was pushed or skipped.                                       *)
LEMMA NewSequence ==
    ASSUME EngineInv, seq < MaxSeq, seq' = seq + 1, epoch' = epoch,
           NEW type \in FrameTypes, type # "copy",
           Push(type, seq + 1) \/ Skip(seq + 1)
    PROVE  /\ frames' \in Seq(Frames)
           /\ floor' \in 0 .. MaxSeq
           /\ seq' \in 0 .. MaxSeq
           /\ holes' \subseteq 1 .. MaxSeq
           /\ ServableIsRetained'
<1> USE BoundsAssumption
<1>1. EngineOK /\ seq + 1 \in 1 .. MaxSeq
  BY DEF EngineInv, EngineOK
<1>2. \A n \in Nat : floor < n /\ n <= seq => n \in holes \/ Held(frames, epoch, n)
  BY DEF EngineInv, EngineOK, ServableIsRetained, Held, At
<1>3. CASE Push(type, seq + 1)
  <2>1. /\ frames' \in Seq(Frames)
        /\ floor' \in 0 .. MaxSeq
        /\ floor' >= floor
        /\ holes' = holes
        /\ \A m \in Nat : m > floor' /\ Held(frames, epoch, m) => Held(frames', epoch, m)
        /\ seq + 1 > floor' => Held(frames', epoch, seq + 1)
    BY <1>1, <1>3, PushHolds
  <2>2. \A n \in Nat : floor' < n /\ n <= seq' => n \in holes' \/ Held(frames', epoch, n)
    BY <1>1, <1>2, <2>1 DEF EngineOK
  <2> QED
    BY <1>1, <2>1, <2>2 DEF EngineOK, ServableIsRetained, Held, At
<1>4. CASE Skip(seq + 1)
  <2>1. /\ frames' = frames
        /\ floor' = floor
        /\ holes' = holes \cup {seq + 1}
    BY <1>4 DEF Skip
  <2>2. \A n \in Nat : floor < n /\ n <= seq + 1 => n \in holes' \/ Held(frames, epoch, n)
    BY <1>1, <1>2, <2>1 DEF EngineOK
  <2>3. ServableIsRetained'
    BY <1>1, <2>1, <2>2 DEF EngineOK, ServableIsRetained, Held, At
  <2> QED
    BY <1>1, <2>1, <2>3 DEF EngineOK
<1> QED
  BY <1>3, <1>4

\* EmitEvent (GlobalBus.emit of an event) preserves the invariant.
LEMMA EmitEventStep ==
    ASSUME EngineInv, EmitEvent
    PROVE  EngineInv'
<1> USE BoundsAssumption
<1>1. seq < MaxSeq /\ seq' = seq + 1 /\ epoch' = epoch
  BY DEF EmitEvent
<1>2. Push("event", seq + 1) \/ Skip(seq + 1)
  BY DEF EmitEvent
<1>3. mirrors' \subseteq 1 .. MaxSeq /\ uncopied' \subseteq 1 .. MaxSeq
  <2>1. seq + 1 \in 1 .. MaxSeq
    BY <1>1 DEF EngineInv, EngineOK
  <2>2. mirrors' = Remember(seq + 1) /\ uncopied' = uncopied \cup ({seq + 1} \cap Durable)
    BY DEF EmitEvent
  <2>3. Remember(seq + 1) \subseteq mirrors \cup {seq + 1}
    BY Zenon DEF Remember
  <2> QED
    BY <2>1, <2>2, <2>3 DEF EngineInv, EngineOK
<1>4. "event" \in FrameTypes /\ "event" # "copy"
  BY DEF FrameTypes
<1> QED
  BY <1>1, <1>2, <1>3, <1>4, NewSequence DEF EngineInv, EngineOK

\* EmitCopy (GlobalBus.emit of a sync copy) preserves the invariant.
LEMMA EmitCopyStep ==
    ASSUME EngineInv, NEW n \in 1 .. MaxSeq, EmitCopy(n)
    PROVE  EngineInv'
<1> USE BoundsAssumption
<1>1. epoch' = epoch /\ mirrors' = mirrors /\ uncopied' \subseteq 1 .. MaxSeq
  BY DEF EmitCopy, EngineInv, EngineOK
<1>2. \A m \in Nat : floor < m /\ m <= seq => m \in holes \/ Held(frames, epoch, m)
  BY DEF EngineInv, EngineOK, ServableIsRetained, Held, At
<1>3. CASE seq' = seq /\ Push("copy", n)
  <2>1. /\ frames' \in Seq(Frames)
        /\ floor' \in 0 .. MaxSeq
        /\ floor' >= floor
        /\ holes' = holes
        /\ \A m \in Nat : m > floor' /\ Held(frames, epoch, m) => Held(frames', epoch, m)
    BY <1>1, <1>3, PushHolds DEF FrameTypes, EngineInv
  <2>2. \A m \in Nat : floor' < m /\ m <= seq' => m \in holes' \/ Held(frames', epoch, m)
    BY <1>2, <1>3, <2>1 DEF EngineInv, EngineOK
  <2> QED
    BY <1>1, <1>3, <2>1, <2>2 DEF EngineInv, EngineOK, ServableIsRetained, Held, At
<1>4. CASE seq' = seq /\ UNCHANGED <<frames, floor, wire, holes>>
  BY <1>1, <1>4 DEF EngineInv, EngineOK, ServableIsRetained, At
<1>5. CASE /\ seq < MaxSeq
           /\ seq' = seq + 1
           /\ Push("sync", seq + 1) \/ Skip(seq + 1)
  <2>1. "sync" \in FrameTypes /\ "sync" # "copy"
    BY DEF FrameTypes
  <2> QED
    BY <1>1, <1>5, <2>1, NewSequence DEF EngineInv, EngineOK
<1> QED
  BY <1>3, <1>4, <1>5 DEF EmitCopy

\* Connect, which evicts before it resolves the cursor, preserves it.
LEMMA ConnectStep ==
    ASSUME EngineInv, Connect
    PROVE  EngineInv'
<1> USE BoundsAssumption
<1>1. PICK k \in 0 .. Len(frames) : Evict(frames, k)
  BY DEF Connect
<1>2. UNCHANGED <<epoch, seq, mirrors, uncopied, holes>>
  BY DEF Connect
<1>3. frames \in Seq(Frames) /\ floor \in 0 .. MaxSeq /\ seq \in 0 .. MaxSeq
  BY DEF EngineInv, EngineOK
<1>4. /\ frames' \in Seq(Frames)
      /\ floor' \in 0 .. MaxSeq
      /\ floor' >= floor
  BY <1>1, <1>3, EvictKeeps
<1>5. \A n \in Nat : floor < n /\ n <= seq => n \in holes \/ Held(frames, epoch, n)
  BY DEF EngineInv, EngineOK, ServableIsRetained, Held, At
<1>6. \A n \in Nat : n > floor' /\ Held(frames, epoch, n) => Held(frames', epoch, n)
  BY <1>1, <1>2, <1>3, EvictHolds DEF Held
<1>7. \A n \in Nat : floor' < n /\ n <= seq' => n \in holes' \/ Held(frames', epoch, n)
  BY <1>2, <1>3, <1>4, <1>5, <1>6
<1> QED
  BY <1>2, <1>4, <1>7 DEF EngineInv, EngineOK, ServableIsRetained, Held, At

\* Restart leaves an empty buffer and nothing handed out.
LEMMA RestartStep ==
    ASSUME EngineInv, Restart
    PROVE  EngineInv'
<1> USE BoundsAssumption
<1>1. /\ epoch' \in Epochs
      /\ seq' = 0 /\ floor' = 0 /\ frames' = <<>>
      /\ holes' = {} /\ mirrors' = {} /\ uncopied' = {}
  BY DEF Restart, EngineInv, EngineOK, Epochs
<1>2. <<>> \in Seq(Frames)
  OBVIOUS
<1> QED
  BY <1>1, <1>2 DEF EngineInv, EngineOK, ServableIsRetained

\* A step that leaves the engine alone preserves it.
LEMMA EngineStutter ==
    ASSUME EngineInv, UNCHANGED engineVars
    PROVE  EngineInv'
BY DEF EngineInv, EngineOK, ServableIsRetained, At, engineVars

LEMMA EngineInit == Init => EngineInv
<1> SUFFICES ASSUME Init PROVE EngineInv
  OBVIOUS
<1>1. <<>> \in Seq(Frames)
  OBVIOUS
<1> QED
  BY <1>1, BoundsAssumption
     DEF Init, EngineInv, EngineOK, ServableIsRetained, Epochs

LEMMA EngineNext == EngineInv /\ [Next]_vars => EngineInv'
<1> SUFFICES ASSUME EngineInv, [Next]_vars PROVE EngineInv'
  OBVIOUS
<1>1. CASE EmitEvent
  BY <1>1, EmitEventStep
<1>2. ASSUME NEW n \in 1 .. MaxSeq, EmitCopy(n) PROVE EngineInv'
  BY <1>2, EmitCopyStep
<1>3. CASE Restart
  BY <1>3, RestartStep
<1>4. CASE Connect
  BY <1>4, ConnectStep
<1>5. CASE Heartbeat \/ Drop \/ Receive \/ Disconnect \/ DeadMan \/ Resync \/ Detour
  <2>1. UNCHANGED engineVars
    BY <1>5 DEF Heartbeat, Drop, Receive, Disconnect, DeadMan, Resync, Detour, HangUp
  <2> QED
    BY <2>1, EngineStutter
<1>6. CASE UNCHANGED vars
  <2>1. UNCHANGED engineVars
    BY <1>6 DEF vars
  <2> QED
    BY <2>1, EngineStutter
<1> QED
  BY <1>1, <1>2, <1>3, <1>4, <1>5, <1>6 DEF Next

(* What the buffer says it can serve it can serve completely: every framed *)
(* sequence above #floor is retained, whatever is evicted, skipped, copied *)
(* or restarted (ReplayBuffer #floor, #evict, push, subscribe).            *)
THEOREM ServedCompletely == Spec => []ServableIsRetained
<1>1. EngineInv => ServableIsRetained
  BY DEF EngineInv
<1> QED
  BY <1>1, EngineInit, EngineNext, PTL DEF Spec

-----------------------------------------------------------------------------
(* The frames a client is replayed                                         *)

\* A set of numbers has a least one.
LEMMA Least ==
    ASSUME NEW T \in SUBSET Nat, T # {}
    PROVE  \E x \in T : \A y \in T : x <= y
<1> DEFINE R == OpToRel(<, Nat)
<1>1. IsWellFoundedOn(R, Nat)
  BY NatLessThanWellFounded
<1>2. PICK x \in T : \A y \in T : ~ (<<y, x>> \in R)
  BY <1>1, WFMin
<1>3. \A y \in T : ~ (y < x)
  BY <1>2 DEF OpToRel
<1> QED BY <1>3

\* The members of K up to x.
UpTo(K, x) == {k \in K : k <= x}

LEMMA UpToIsFinite ==
    ASSUME NEW N \in Nat, NEW K \in SUBSET (1 .. N), NEW x
    PROVE  /\ IsFiniteSet(K) /\ IsFiniteSet(UpTo(K, x))
           /\ Cardinality(K) \in Nat /\ Cardinality(UpTo(K, x)) \in Nat
<1>1. IsFiniteSet(1 .. N)
  BY FS_Interval
<1>2. UpTo(K, x) \subseteq 1 .. N
  BY DEF UpTo
<1> QED BY <1>1, <1>2, FS_Subset, FS_CardinalityType

\* The counts of two numbers compare as the numbers do.
LEMMA CountsAscend ==
    ASSUME NEW N \in Nat, NEW K \in SUBSET (1 .. N), NEW x \in K, NEW y \in K, x < y
    PROVE  Cardinality(UpTo(K, x)) < Cardinality(UpTo(K, y))
<1>0. K \subseteq Nat
  OBVIOUS
<1>1. UpTo(K, x) \subseteq UpTo(K, y)
  <2>1. \A k \in K : k <= x => k <= y
    BY <1>0
  <2> QED BY <2>1 DEF UpTo
<1>2. y \in UpTo(K, y) /\ y \notin UpTo(K, x)
  BY <1>0 DEF UpTo
<1>3. IsFiniteSet(UpTo(K, y))
  BY UpToIsFinite
<1>4. UpTo(K, x) \in SUBSET UpTo(K, y)
  BY <1>1
<1>5. Cardinality(UpTo(K, x)) <= Cardinality(UpTo(K, y))
  BY <1>3, <1>4, FS_Subset
<1>6. Cardinality(UpTo(K, x)) # Cardinality(UpTo(K, y))
  BY <1>2, <1>3, <1>4, FS_Subset
<1>7. Cardinality(UpTo(K, x)) \in Nat /\ Cardinality(UpTo(K, y)) \in Nat
  BY UpToIsFinite
<1> QED BY <1>5, <1>6, <1>7

\* Every count up to the size of K is reached by a member.
LEMMA CountIsReached ==
    ASSUME NEW N \in Nat, NEW K \in SUBSET (1 .. N), NEW j \in 1 .. Cardinality(K)
    PROVE  \E x \in K : Cardinality(UpTo(K, x)) = j
<1> DEFINE C(x) == Cardinality(UpTo(K, x))
           T == {x \in 0 .. N : C(x) >= j}
<1>a. K \subseteq Nat /\ \A k \in K : 1 <= k /\ k <= N
  OBVIOUS
<1>b. Cardinality(K) \in Nat
  BY UpToIsFinite
<1>c. j \in Nat /\ 1 <= j /\ j <= Cardinality(K)
  BY <1>b
<1>d. \A x \in 0 .. N : C(x) \in Nat /\ IsFiniteSet(UpTo(K, x))
  BY UpToIsFinite
<1>1. UpTo(K, N) = K
  BY <1>a DEF UpTo
<1>2. N \in T
  BY <1>b, <1>c, <1>1
<1>3. PICK x \in T : \A y \in T : x <= y
  <2>1. T \in SUBSET Nat /\ T # {}
    BY <1>2
  <2> HIDE DEF T
  <2> QED BY <2>1, Least
<1>4. x # 0
  <2>1. UpTo(K, 0) = {}
    <3>1. \A k \in K : ~ (k <= 0)
      BY <1>a
    <3> QED BY <3>1 DEF UpTo
  <2>2. C(0) = 0
    BY <2>1, FS_EmptySet
  <2> QED BY <1>c, <2>2
<1>5. x - 1 \in 0 .. N /\ x - 1 \notin T /\ x \in 1 .. N
  BY <1>3, <1>4
<1>6. C(x - 1) < j /\ C(x) >= j /\ C(x - 1) \in Nat /\ C(x) \in Nat
  BY <1>c, <1>d, <1>5
<1>7. x \in K
  <2>1. SUFFICES ASSUME x \notin K PROVE FALSE
    OBVIOUS
  <2>2. \A k \in K : k <= x <=> k <= x - 1
    BY <1>a, <1>5, <2>1
  <2>3. UpTo(K, x) = UpTo(K, x - 1)
    BY <2>2 DEF UpTo
  <2> QED BY <1>c, <1>6, <2>3
<1>8. UpTo(K, x) = UpTo(K, x - 1) \cup {x}
  <2>1. \A k \in K : k <= x <=> k <= x - 1 \/ k = x
    BY <1>a, <1>5
  <2> QED BY <1>7, <2>1 DEF UpTo
<1>9. C(x) <= C(x - 1) + 1
  <2>1. IsFiniteSet(UpTo(K, x - 1))
    BY <1>d, <1>5
  <2>2. C(x) = IF x \in UpTo(K, x - 1) THEN C(x - 1) ELSE C(x - 1) + 1
    BY <1>8, <2>1, FS_AddElement
  <2> QED BY <1>6, <2>2
<1>10. C(x) = j
  BY <1>c, <1>6, <1>9
<1> QED BY <1>7, <1>10

\* Place enumerates K in increasing order.
LEMMA PlaceIs ==
    ASSUME NEW N \in Nat, NEW K \in SUBSET (1 .. N)
    PROVE  /\ \A j \in 1 .. Cardinality(K) :
                 Place(K, j) \in K /\ Cardinality(UpTo(K, Place(K, j))) = j
           /\ \A i, j \in 1 .. Cardinality(K) : i < j => Place(K, i) < Place(K, j)
           /\ \A x \in K : \E j \in 1 .. Cardinality(K) : Place(K, j) = x
<1>1. ASSUME NEW j \in 1 .. Cardinality(K)
      PROVE  Place(K, j) \in K /\ Cardinality(UpTo(K, Place(K, j))) = j
  <2>1. \E i \in K : Cardinality({k \in K : k <= i}) = j
    BY CountIsReached DEF UpTo
  <2> QED BY <2>1, Zenon DEF Place, UpTo
<1>2. ASSUME NEW i \in 1 .. Cardinality(K), NEW j \in 1 .. Cardinality(K), i < j
      PROVE  Place(K, i) < Place(K, j)
  <2>0. Cardinality(K) \in Nat
    BY UpToIsFinite
  <2>a. /\ Place(K, i) \in K /\ Cardinality(UpTo(K, Place(K, i))) = i
        /\ Place(K, j) \in K /\ Cardinality(UpTo(K, Place(K, j))) = j
    BY <1>1
  <2>1. Place(K, i) # Place(K, j)
    BY <1>2, <2>0, <2>a
  <2>2. ~ (Place(K, j) < Place(K, i))
    <3>1. Place(K, j) < Place(K, i) => j < i
      BY <2>a, CountsAscend
    <3> QED BY <1>2, <2>0, <3>1
  <2>3. Place(K, i) \in 1 .. N /\ Place(K, j) \in 1 .. N
    BY <1>1
  <2> QED BY <2>1, <2>2, <2>3
<1>3. ASSUME NEW x \in K
      PROVE  \E j \in 1 .. Cardinality(K) : Place(K, j) = x
  <2> DEFINE j == Cardinality(UpTo(K, x))
  <2>1. UpTo(K, x) \in SUBSET K /\ x \in UpTo(K, x)
    <3>1. x <= x
      OBVIOUS
    <3> QED BY <3>1 DEF UpTo
  <2>2. j \in 1 .. Cardinality(K)
    <3>1. /\ IsFiniteSet(K) /\ IsFiniteSet(UpTo(K, x))
          /\ Cardinality(K) \in Nat /\ j \in Nat
      BY UpToIsFinite
    <3>2. j <= Cardinality(K)
      BY <2>1, <3>1, FS_Subset
    <3>3. j # 0
      BY <2>1, <3>1, FS_EmptySet
    <3> QED BY <3>1, <3>2, <3>3
  <2>3. Place(K, j) \in K /\ Cardinality(UpTo(K, Place(K, j))) = j
    BY <1>1, <2>2
  <2>4. ~ (Place(K, j) < x) /\ ~ (x < Place(K, j))
    <3>1. Place(K, j) < x => Cardinality(UpTo(K, Place(K, j))) < Cardinality(UpTo(K, x))
      BY <2>3, CountsAscend
    <3>2. x < Place(K, j) => Cardinality(UpTo(K, x)) < Cardinality(UpTo(K, Place(K, j)))
      BY <2>3, CountsAscend
    <3>3. j \in Nat
      BY UpToIsFinite
    <3> QED BY <2>3, <3>1, <3>2, <3>3
  <2>5. Place(K, j) \in 1 .. N /\ x \in 1 .. N
    BY <2>3
  <2> QED BY <2>2, <2>4, <2>5
<1> QED BY <1>1, <1>2, <1>3

(* A replay holds the frames after n that a client is sent, and no other,  *)
(* in their order (ReplayBuffer subscribe).                                *)
LEMMA ReplayIs ==
    ASSUME NEW fs \in Seq(Frames), NEW n \in Nat
    PROVE  /\ Replay(fs, n) \in Seq(Items)
           /\ \A j \in 1 .. Len(Replay(fs, n)) : \E i \in 1 .. Len(fs) :
                 Replay(fs, n)[j] = fs[i] /\ fs[i].at.seq > n /\ fs[i].type # "copy"
           /\ \A j, k \in 1 .. Len(Replay(fs, n)) : j < k =>
                 \E i, l \in 1 .. Len(fs) :
                    /\ i < l
                    /\ Replay(fs, n)[j] = fs[i] /\ fs[i].type # "copy"
                    /\ Replay(fs, n)[k] = fs[l] /\ fs[l].type # "copy"
           /\ \A i \in 1 .. Len(fs) : fs[i].at.seq > n /\ fs[i].type # "copy" =>
                 \E j \in 1 .. Len(Replay(fs, n)) : Replay(fs, n)[j] = fs[i]
<1> DEFINE K == Replayed(fs, n)
           N == Cardinality(K)
           r == Replay(fs, n)
<1>1. K \in SUBSET (1 .. Len(fs)) /\ Len(fs) \in Nat
  BY DEF Replayed
<1>2. N \in Nat
  BY <1>1, UpToIsFinite
<1>3. \A i \in K : fs[i].at.seq > n /\ fs[i].type # "copy" /\ fs[i] \in Items
  <2>1. \A f \in Frames : f.type # "copy" => f \in Items
    BY DEF Frames, FrameTypes, Items, ControlTypes
  <2>2. \A i \in K : fs[i] \in Frames /\ fs[i].at.seq > n /\ fs[i].type # "copy"
    BY DEF Replayed
  <2> QED BY <2>1, <2>2
<1>4. \A j \in 1 .. N : Place(K, j) \in K
  BY <1>1, PlaceIs
<1>5. r = [j \in 1 .. N |-> fs[Place(K, j)]]
  BY DEF Replay
<1> HIDE DEF r, K, N
<1>6. r \in Seq(Items) /\ Len(r) = N
  BY <1>2, <1>3, <1>4, <1>5
<1>7. \A j \in 1 .. N : r[j] = fs[Place(K, j)]
  BY <1>5
<1>8. \A j, k \in 1 .. N : j < k => Place(K, j) < Place(K, k)
  BY <1>1, PlaceIs DEF N
<1>9. \A i \in K : \E j \in 1 .. N : r[j] = fs[i]
  <2>1. \A i \in K : \E j \in 1 .. N : Place(K, j) = i
    BY <1>1, PlaceIs DEF N
  <2> QED BY <1>7, <2>1
<1>10. \A i \in 1 .. Len(fs) : fs[i].at.seq > n /\ fs[i].type # "copy" => i \in K
  BY DEF K, Replayed
<1> USE DEF r
<1>11. \A j \in 1 .. N : \E i \in 1 .. Len(fs) :
                 r[j] = fs[i] /\ fs[i].at.seq > n /\ fs[i].type # "copy"
  BY <1>1, <1>3, <1>4, <1>7
<1>12. ASSUME NEW j \in 1 .. N, NEW k \in 1 .. N, j < k
       PROVE  \E i, l \in 1 .. Len(fs) :
                    /\ i < l
                    /\ r[j] = fs[i] /\ fs[i].type # "copy"
                    /\ r[k] = fs[l] /\ fs[l].type # "copy"
  BY <1>1, <1>3, <1>4, <1>7, <1>8, <1>12
<1> QED BY <1>6, <1>9, <1>10, <1>11, <1>12
-----------------------------------------------------------------------------
(* The shapes of what is retained and of what is on the way                *)

\* What the proofs need to know of the client and of its connection.
ClientOK ==
    /\ sub \in BOOLEAN
    /\ wire \in Seq(Items)
    /\ link \in {"open", "down"}
    /\ pos \in Positions \cup {None}
    /\ bare \in BOOLEAN
    /\ owed \in BOOLEAN
    /\ losses \in 0 .. MaxLosses
    /\ last \in Positions
    /\ unseen \in SUBSET Positions

LEMMA TypeOKIs == TypeOK <=> EngineOK /\ ClientOK
BY DEF TypeOK, EngineOK, ClientOK

LEMMA PositionIs ==
    /\ \A p \in Positions : p.epoch \in 0 .. MaxEpoch /\ p.seq \in 0 .. MaxSeq
    /\ \A e \in 0 .. MaxEpoch, n \in 0 .. MaxSeq : [epoch |-> e, seq |-> n] \in Positions
    /\ \A n : At(n).epoch = epoch /\ At(n).seq = n
    /\ \A p \in Positions, q \in Positions :
          p.epoch = q.epoch /\ p.seq = q.seq => p = q
BY DEF Positions, Epochs, At

LEMMA ItemIs ==
    /\ \A x \in Items : x.at \in Positions /\ (IsControl(x) \/ x.type \in {"event", "sync"})
    /\ \A f \in Frames : f.at \in Positions /\ f.type \in FrameTypes
    /\ \A type \in ControlTypes, p \in Positions :
          /\ Control(type, p) \in Items
          /\ Control(type, p).type = type /\ Control(type, p).at = p
BY DEF Items, Frames, Control, IsControl

\* What Evict leaves are the newest of what there was.
LEMMA EvictedIs ==
    ASSUME NEW fs \in Seq(Frames), NEW k \in 0 .. Len(fs), Evict(fs, k)
    PROVE  /\ frames' \in Seq(Frames)
           /\ \A i \in 1 .. Len(frames') : i + k \in 1 .. Len(fs) /\ frames'[i] = fs[i + k]
BY DEF Evict

\* Push retains of what there was, and of the new frame, the newest.
LEMMA PushIs ==
    ASSUME EngineOK, ClientOK, NEW type \in FrameTypes, NEW n \in 1 .. MaxSeq, Push(type, n)
    PROVE  /\ \E k \in Nat : \A i \in 1 .. Len(frames') :
                 \/ i + k \in 1 .. Len(frames) /\ frames'[i] = frames[i + k]
                 \/ i + k = Len(frames) + 1 /\ frames'[i] = [type |-> type, at |-> At(n)]
           /\ frames' \in Seq(Frames)
           /\ floor' \in 0 .. MaxSeq /\ floor' >= floor
           /\ holes' = holes
           /\ \/ sub /\ type # "copy" /\ wire' = Append(wire, [type |-> type, at |-> At(n)])
              \/ ~ (sub /\ type # "copy") /\ wire' = wire
<1> USE BoundsAssumption
<1> DEFINE frame == [type |-> type, at |-> At(n)]
           fs == Append(frames, frame)
<1>1. frame \in Frames /\ frames \in Seq(Frames) /\ floor \in 0 .. MaxSeq
  BY DEF EngineOK, Frames, Positions, At
<1>2. /\ fs \in Seq(Frames) /\ Len(fs) = Len(frames) + 1
      /\ \A i \in 1 .. Len(frames) : fs[i] = frames[i]
      /\ fs[Len(frames) + 1] = frame
  BY <1>1
<1>3. PICK k \in 0 .. Len(frames) + 1 : Evict(fs, k)
  BY DEF Push
<1> HIDE DEF fs
<1>4. k \in 0 .. Len(fs)
  BY <1>2, <1>3
<1>5. frames' \in Seq(Frames) /\ floor' \in 0 .. MaxSeq /\ floor' >= floor
  BY <1>1, <1>2, <1>3, <1>4, EvictKeeps
<1>6. \A i \in 1 .. Len(frames') : i + k \in 1 .. Len(fs) /\ frames'[i] = fs[i + k]
  BY <1>2, <1>3, <1>4, EvictedIs
<1>7. \A i \in 1 .. Len(frames') :
                 \/ i + k \in 1 .. Len(frames) /\ frames'[i] = frames[i + k]
                 \/ i + k = Len(frames) + 1 /\ frames'[i] = frame
  <2>1. Len(frames) \in Nat
    BY <1>1
  <2> QED BY <1>2, <1>4, <1>6, <2>1
<1>8. k \in Nat
  BY <1>1, <1>3
<1>9. /\ holes' = holes
      /\ wire' = IF sub /\ type # "copy" THEN Append(wire, frame) ELSE wire
  BY DEF Push
<1>10. \/ sub /\ type # "copy" /\ wire' = Append(wire, frame)
       \/ ~ (sub /\ type # "copy") /\ wire' = wire
  BY <1>9
<1>11. \E j \in Nat : \A i \in 1 .. Len(frames') :
                 \/ i + j \in 1 .. Len(frames) /\ frames'[i] = frames[i + j]
                 \/ i + j = Len(frames) + 1 /\ frames'[i] = frame
  BY <1>7, <1>8
<1> QED BY <1>5, <1>9, <1>10, <1>11

\* The items of a wire that grew by one, and of one that was cut or read.
LEMMA AppendedIs ==
    ASSUME NEW w \in Seq(Items), NEW x \in Items
    PROVE  /\ Append(w, x) \in Seq(Items)
           /\ Len(Append(w, x)) = Len(w) + 1
           /\ \A i \in 1 .. Len(w) : Append(w, x)[i] = w[i]
           /\ Append(w, x)[Len(w) + 1] = x
OBVIOUS

LEMMA SeveredIs ==
    ASSUME wire \in Seq(Items), Severed
    PROVE  /\ wire' \in Seq(Items)
           /\ Len(wire') <= Len(wire)
           /\ \A i \in 1 .. Len(wire') : i \in 1 .. Len(wire) /\ wire'[i] = wire[i]
BY DEF Severed

LEMMA TailIs ==
    ASSUME wire \in Seq(Items), wire # <<>>, wire' = Tail(wire)
    PROVE  /\ wire' \in Seq(Items)
           /\ Len(wire') = Len(wire) - 1
           /\ 1 \in 1 .. Len(wire) /\ Head(wire) = wire[1] /\ wire[1] \in Items
           /\ \A i \in 1 .. Len(wire') : i + 1 \in 1 .. Len(wire) /\ wire'[i] = wire[i + 1]
OBVIOUS

\* Where a connection that is served starts.
ServedAt(n) ==
    \/ pos = None /\ n = seq
    \/ pos # None /\ bare /\ Servable(pos) /\ n = pos.seq
    \/ pos # None /\ ~ bare /\ frames' # <<>> /\ n = frames'[Len(frames')].at.seq

\* A new connection brings a reset, or the frames after where it starts.
LEMMA ConnectIs ==
    ASSUME EngineOK, ClientOK, Connect
    PROVE  /\ wire' \in Seq(Items)
           /\ \/ /\ pos # None /\ (bare => ~ Servable(pos))
                 /\ Len(wire') = 2
                 /\ wire'[1] = Control("reset", At(seq)) /\ wire'[2] = Control("connected", At(seq))
              \/ \E n \in 0 .. MaxSeq :
                 /\ ServedAt(n)
                 /\ Len(wire') >= 1
                 /\ wire'[1] = Control("connected", At(n))
                 /\ \A j \in 2 .. Len(wire') : \E i \in 1 .. Len(frames') :
                       wire'[j] = frames'[i] /\ frames'[i].at.seq > n /\ frames'[i].type # "copy"
                 /\ \A j, k \in 2 .. Len(wire') : j < k =>
                       \E i, l \in 1 .. Len(frames') :
                          /\ i < l
                          /\ wire'[j] = frames'[i] /\ frames'[i].type # "copy"
                          /\ wire'[k] = frames'[l] /\ frames'[l].type # "copy"
                 /\ \A i \in 1 .. Len(frames') : frames'[i].at.seq > n /\ frames'[i].type # "copy" =>
                       \E j \in 2 .. Len(wire') : wire'[j] = frames'[i]
<1> USE BoundsAssumption
<1>1. PICK k \in 0 .. Len(frames) : Evict(frames, k)
  BY DEF Connect
<1>2. frames \in Seq(Frames) /\ seq \in 0 .. MaxSeq /\ epoch \in 0 .. MaxEpoch
  BY DEF EngineOK, Epochs
<1>3. frames' \in Seq(Frames)
  BY <1>1, <1>2, EvictedIs
<1>4. \A m \in 0 .. MaxSeq : At(m) \in Positions
  BY <1>2, PositionIs DEF At
<1>5. CASE Reset /\ pos # None /\ (bare => ~ Servable(pos))
  <2>1. Control("reset", At(seq)) \in Items /\ Control("connected", At(seq)) \in Items
    BY <1>2, <1>4, ItemIs DEF ControlTypes
  <2> QED BY <1>5, <2>1 DEF Reset
<1>6. ASSUME NEW n \in 0 .. MaxSeq, Serve(n), ServedAt(n)
      PROVE  /\ wire' \in Seq(Items)
             /\ Len(wire') >= 1
             /\ wire'[1] = Control("connected", At(n))
             /\ \A j \in 2 .. Len(wire') : \E i \in 1 .. Len(frames') :
                   wire'[j] = frames'[i] /\ frames'[i].at.seq > n /\ frames'[i].type # "copy"
             /\ \A j, l \in 2 .. Len(wire') : j < l =>
                   \E i, m \in 1 .. Len(frames') :
                      /\ i < m
                      /\ wire'[j] = frames'[i] /\ frames'[i].type # "copy"
                      /\ wire'[l] = frames'[m] /\ frames'[m].type # "copy"
             /\ \A i \in 1 .. Len(frames') : frames'[i].at.seq > n /\ frames'[i].type # "copy" =>
                   \E j \in 2 .. Len(wire') : wire'[j] = frames'[i]
  <2> DEFINE r == Replay(frames', n)
             c == Control("connected", At(n))
  <2>1. c \in Items
    BY <1>4, ItemIs DEF ControlTypes
  <2>0. n \in Nat
    OBVIOUS
  <2>2. r \in Seq(Items)
    BY <1>3, <2>0, ReplayIs, Zenon
  <2>a. \A j \in 1 .. Len(r) : \E i \in 1 .. Len(frames') :
              r[j] = frames'[i] /\ frames'[i].at.seq > n /\ frames'[i].type # "copy"
    BY <1>3, <2>0, ReplayIs, Zenon
  <2>b. \A j, l \in 1 .. Len(r) : j < l =>
              \E i, m \in 1 .. Len(frames') :
                 /\ i < m
                 /\ r[j] = frames'[i] /\ frames'[i].type # "copy"
                 /\ r[l] = frames'[m] /\ frames'[m].type # "copy"
    BY <1>3, <2>0, ReplayIs, Zenon
  <2>c. \A i \in 1 .. Len(frames') : frames'[i].at.seq > n /\ frames'[i].type # "copy" =>
              \E j \in 1 .. Len(r) : r[j] = frames'[i]
    BY <1>3, <2>0, ReplayIs, Zenon
  <2>3. wire' = <<c>> \o r
    BY <1>6 DEF Serve
  <2> HIDE DEF r, c
  <2>4. /\ wire' \in Seq(Items) /\ Len(wire') = Len(r) + 1 /\ Len(r) \in Nat
        /\ wire'[1] = c
        /\ \A j \in 2 .. Len(wire') : wire'[j] = r[j - 1] /\ j - 1 \in 1 .. Len(r)
        /\ \A j \in 1 .. Len(r) : wire'[j + 1] = r[j] /\ j + 1 \in 2 .. Len(wire')
    BY <2>1, <2>2, <2>3
  <2>5. ASSUME NEW j \in 2 .. Len(wire')
        PROVE  \E i \in 1 .. Len(frames') :
                  wire'[j] = frames'[i] /\ frames'[i].at.seq > n /\ frames'[i].type # "copy"
    <3>1. wire'[j] = r[j - 1] /\ j - 1 \in 1 .. Len(r)
      BY <2>4
    <3>2. \E i \in 1 .. Len(frames') :
             r[j - 1] = frames'[i] /\ frames'[i].at.seq > n /\ frames'[i].type # "copy"
      BY <2>a, <3>1, Zenon
    <3> QED BY <3>1, <3>2, Zenon
  <2>6. ASSUME NEW j \in 2 .. Len(wire'), NEW l \in 2 .. Len(wire'), j < l
        PROVE  \E i, m \in 1 .. Len(frames') :
                      /\ i < m
                      /\ wire'[j] = frames'[i] /\ frames'[i].type # "copy"
                      /\ wire'[l] = frames'[m] /\ frames'[m].type # "copy"
    <3>1. j - 1 \in 1 .. Len(r) /\ l - 1 \in 1 .. Len(r) /\ j - 1 < l - 1
      BY <2>4, <2>6
    <3>2. wire'[j] = r[j - 1] /\ wire'[l] = r[l - 1]
      BY <2>4
    <3>3. \E i, m \in 1 .. Len(frames') :
             /\ i < m
             /\ r[j - 1] = frames'[i] /\ frames'[i].type # "copy"
             /\ r[l - 1] = frames'[m] /\ frames'[m].type # "copy"
      BY <2>b, <3>1, Zenon
    <3> QED BY <3>2, <3>3, Zenon
  <2>7. ASSUME NEW i \in 1 .. Len(frames'), frames'[i].at.seq > n, frames'[i].type # "copy"
        PROVE  \E j \in 2 .. Len(wire') : wire'[j] = frames'[i]
    <3>1. PICK j \in 1 .. Len(r) : r[j] = frames'[i]
      BY <2>c, <2>7, Zenon
    <3>2. wire'[j + 1] = r[j] /\ j + 1 \in 2 .. Len(wire')
      BY <2>4
    <3> QED BY <3>1, <3>2, Zenon
  <2>8. Len(wire') >= 1 /\ wire'[1] = Control("connected", At(n))
    BY <2>4 DEF c
  <2> QED BY <2>4, <2>5, <2>6, <2>7, <2>8
<1>7. CASE \E n \in 0 .. MaxSeq : Serve(n) /\ ServedAt(n)
  BY <1>6, <1>7
<1>8. \/ Reset /\ pos # None /\ (bare => ~ Servable(pos))
      \/ \E n \in 0 .. MaxSeq : Serve(n) /\ ServedAt(n)
  <2>1. CASE pos = None /\ Serve(seq)
    BY <1>2, <2>1 DEF ServedAt
  <2>2. CASE pos # None /\ bare /\ Servable(pos) /\ Serve(pos.seq)
    <3>1. pos.seq \in 0 .. MaxSeq
      BY <2>2, PositionIs DEF ClientOK
    <3> QED BY <2>2, <3>1 DEF ServedAt
  <2>3. CASE pos # None /\ bare /\ ~ Servable(pos) /\ Reset
    BY <2>3
  <2>4. CASE pos # None /\ ~ bare /\ frames' # <<>> /\ Serve(frames'[Len(frames')].at.seq)
    <3>1. frames'[Len(frames')] \in Frames
      BY <1>3, <2>4
    <3>2. frames'[Len(frames')].at.seq \in 0 .. MaxSeq
      BY <3>1, ItemIs, PositionIs
    <3> QED BY <2>4, <3>2 DEF ServedAt
  <2>5. CASE pos # None /\ ~ bare /\ Reset
    BY <2>5
  <2> QED BY <2>1, <2>2, <2>3, <2>4, <2>5 DEF Connect
<1> QED BY <1>5, <1>7, <1>8
-----------------------------------------------------------------------------
(* Types                                                                   *)

LEMMA ClientInit == Init => ClientOK
<1> SUFFICES ASSUME Init PROVE ClientOK
  OBVIOUS
<1>1. [epoch |-> 0, seq |-> 0] \in Positions
  BY PositionIs, BoundsAssumption
<1>2. <<>> \in Seq(Items)
  OBVIOUS
<1>3. sub \in BOOLEAN /\ bare \in BOOLEAN /\ owed \in BOOLEAN
  BY Zenon DEF Init
<1>4. last \in Positions /\ wire \in Seq(Items)
  BY <1>1, <1>2 DEF Init
<1>5. /\ link \in {"open", "down"} /\ pos \in Positions \cup {None}
      /\ losses \in 0 .. MaxLosses /\ unseen \in SUBSET Positions
  BY BoundsAssumption DEF Init
<1> QED BY <1>3, <1>4, <1>5, Zenon DEF ClientOK

LEMMA ClientNext == EngineOK /\ ClientOK /\ [Next]_vars => ClientOK'
<1> SUFFICES ASSUME EngineOK, ClientOK, [Next]_vars PROVE ClientOK'
  OBVIOUS
<1> USE BoundsAssumption
<1>0. /\ wire \in Seq(Items) /\ seq \in 0 .. MaxSeq /\ epoch \in 0 .. MaxEpoch
      /\ \A m \in 0 .. MaxSeq : At(m) \in Positions
  BY PositionIs DEF EngineOK, ClientOK, Epochs, At
<1>a. ASSUME NEW type \in {"event", "sync"}, NEW n \in 1 .. MaxSeq, Push(type, n)
      PROVE  wire' \in Seq(Items)
  <2>1. [type |-> type, at |-> At(n)] \in Items
    BY <1>0 DEF Items
  <2> QED BY <1>0, <1>a, <2>1, AppendedIs DEF Push
<1>1. CASE EmitEvent
  <2>1. seq + 1 \in 1 .. MaxSeq
    BY <1>0, <1>1 DEF EmitEvent
  <2>2. wire' \in Seq(Items)
    BY <1>0, <1>1, <1>a, <2>1 DEF EmitEvent, Skip
  <2>3. At(seq + 1) \in Positions
    BY <1>0, <2>1
  <2> QED BY <1>1, <2>2, <2>3 DEF EmitEvent, ClientOK, clientVars
<1>2. ASSUME NEW n \in 1 .. MaxSeq, EmitCopy(n) PROVE ClientOK'
  <2>1. CASE Push("copy", n)
    BY <1>2, <2>1 DEF Push, EmitCopy, ClientOK, clientVars
  <2>2. CASE UNCHANGED wire
    BY <1>2, <2>2 DEF EmitCopy, ClientOK, clientVars
  <2>3. CASE seq < MaxSeq /\ Push("sync", seq + 1)
    <3>1. wire' \in Seq(Items)
      BY <1>0, <1>a, <2>3
    <3> QED BY <1>2, <3>1 DEF EmitCopy, ClientOK, clientVars
  <2> QED BY <1>2, <2>1, <2>2, <2>3 DEF EmitCopy, Skip
<1>3. CASE Restart \/ Drop
  <2>1. wire' \in Seq(Items)
    BY <1>0, <1>3, SeveredIs DEF Restart, Drop
  <2>2. losses' \in 0 .. MaxLosses
    BY <1>3 DEF Restart, Drop, ClientOK
  <2>3. sub' = FALSE /\ UNCHANGED <<link, clientVars, unseen>>
    BY <1>3 DEF Restart, Drop
  <2> QED BY <2>1, <2>2, <2>3 DEF ClientOK, clientVars
<1>4. CASE Connect
  <2>1. wire' \in Seq(Items)
    BY <1>4, ConnectIs
  <2> QED BY <1>4, <2>1 DEF Connect, ClientOK, clientVars
<1>5. CASE Heartbeat
  <2>1. Control("heartbeat", At(seq)) \in Items
    BY <1>0, ItemIs DEF ControlTypes
  <2>2. wire' \in Seq(Items)
    BY <1>0, <1>5, <2>1, AppendedIs DEF Heartbeat
  <2> QED BY <1>5, <2>2 DEF Heartbeat, ClientOK, clientVars
<1>6. CASE Receive
  <2>1. wire' \in Seq(Items) /\ Head(wire) \in Items
    BY <1>0, <1>6, TailIs DEF Receive
  <2>2. Head(wire).at \in Positions
    BY <2>1, ItemIs
  <2> QED BY <1>6, <2>1, <2>2 DEF Receive, ReceiveBehind, ReceiveNext, ClientOK, clientVars
<1>7. CASE Disconnect \/ DeadMan
  <2>1. losses' \in 0 .. MaxLosses
    BY <1>7 DEF Disconnect, DeadMan, ClientOK
  <2>2. link' = "down" /\ sub' = FALSE /\ wire' = <<>> /\ UNCHANGED <<clientVars, unseen>>
    BY <1>7 DEF Disconnect, DeadMan, HangUp
  <2>3. wire' \in Seq(Items)
    BY <2>2
  <2> QED BY <2>1, <2>2, <2>3 DEF ClientOK, clientVars
<1>8. CASE Resync \/ Detour
  BY <1>8 DEF Resync, Detour, ClientOK
<1>9. CASE UNCHANGED vars
  BY <1>9 DEF vars, ClientOK, clientVars
<1> QED BY <1>1, <1>2, <1>3, <1>4, <1>5, <1>6, <1>7, <1>8, <1>9 DEF Next

(* The engine, the connection and the client stay within their types,      *)
(* whatever is replayed, cut off and resumed.                              *)
THEOREM StreamTypes == Spec => []TypeOK
<1>1. Init => EngineInv /\ ClientOK
  BY EngineInit, ClientInit
<1>2. EngineInv /\ ClientOK /\ [Next]_vars => (EngineInv /\ ClientOK)'
  BY EngineNext, ClientNext DEF EngineInv
<1>3. EngineInv /\ ClientOK => TypeOK
  BY TypeOKIs DEF EngineInv
<1> QED BY <1>1, <1>2, <1>3, PTL DEF Spec

-----------------------------------------------------------------------------
(* The order of what is on the way and the position of the client          *)

\* What is known of a position of the bus, of the cursor and of an event.
Bounded ==
    /\ pos # None => AtOrBehind(pos, At(seq))
    /\ \A i \in 1 .. Len(wire) : AtOrBehind(wire[i].at, At(seq))
    /\ \A p \in unseen : AtOrBehind(p, At(seq))

\* The retained frames are of this epoch, and those that are sent in order.
FramesInOrder ==
    /\ uncopied \subseteq 1 .. seq
    /\ \A i \in 1 .. Len(frames) : frames[i].at.epoch = epoch /\ frames[i].at.seq \in 1 .. seq
    /\ \A i, j \in 1 .. Len(frames) :
          i < j /\ frames[i].type # "copy" /\ frames[j].type # "copy"
          => frames[i].at.seq < frames[j].at.seq

\* What is on the way to the client comes from one run of the engine.
OneRun ==
    /\ link = "down" => wire = <<>> /\ ~ sub
    /\ sub => \A i \in 1 .. Len(wire) : wire[i].at.epoch = epoch
    /\ \A i, j \in 1 .. Len(wire) : wire[i].at.epoch = wire[j].at.epoch
    /\ pos # None => \A i \in 1 .. Len(wire) : pos.epoch <= wire[i].at.epoch

\* A reset comes first and never takes the cursor back.
ResetFirst ==
    \A i \in 1 .. Len(wire) :
        wire[i].type = "reset" => i = 1 /\ (pos # None => AtOrBehind(pos, wire[i].at))

\* No sequence is 0 but a control frame's.
EventsCount == \A i \in 1 .. Len(wire) : ~ IsControl(wire[i]) => wire[i].at.seq >= 1

LastPassed ==
    IF pos = None THEN last = [epoch |-> 0, seq |-> 0] ELSE AtOrBehind(last, pos)

\* The sequence of a sync copy is no event's.
SyncIsNoEvent ==
    /\ \A i \in 1 .. Len(frames) : frames[i].type = "sync" => frames[i].at \notin unseen
    /\ \A i \in 1 .. Len(wire) : wire[i].type = "sync" => wire[i].at \notin unseen

\* What is on the way to the client, and what the client has passed.
OrderInv ==
    /\ Bounded /\ FramesInOrder /\ OneRun /\ ResetFirst /\ EventsCount
    /\ LastPassed /\ SyncIsNoEvent /\ IdsNeverDecrease /\ NoSilentLoss

\* The inductive invariant of the stream.
StreamInv == EngineInv /\ ClientOK /\ OrderInv

LEMMA Kinds ==
    ASSUME EngineOK, ClientOK
    PROVE  /\ epoch \in Int /\ seq \in Int /\ Len(wire) \in Nat /\ Len(frames) \in Nat
           /\ \A i \in 1 .. Len(wire) :
                 /\ wire[i] \in Items /\ wire[i].at \in Positions
                 /\ wire[i].at.epoch \in Int /\ wire[i].at.seq \in Int
           /\ \A i \in 1 .. Len(frames) :
                 /\ frames[i].at \in Positions
                 /\ frames[i].at.epoch \in Int /\ frames[i].at.seq \in Int
           /\ pos # None => pos \in Positions /\ pos.epoch \in Int /\ pos.seq \in Int
           /\ last \in Positions /\ last.epoch \in Int /\ last.seq \in Int
           /\ \A p \in unseen : p \in Positions /\ p.epoch \in Int /\ p.seq \in Int
<1>1. \A p \in Positions : p.epoch \in Int /\ p.seq \in Int
  BY PositionIs, BoundsAssumption
<1>2. \A x \in Items \cup Frames : x.at \in Positions
  BY ItemIs
<1> QED BY <1>1, <1>2, BoundsAssumption DEF EngineOK, ClientOK, Epochs

\* Reading and losing items disturbs no order.
LEMMA Shorter ==
    ASSUME ClientOK, EventsCount, IdsNeverDecrease, NEW d \in Nat, wire' \in Seq(Items),
           \A i \in 1 .. Len(wire') : i + d \in 1 .. Len(wire) /\ wire'[i] = wire[i + d]
    PROVE  EventsCount' /\ IdsNeverDecrease'
<1>1. EventsCount'
  BY DEF EventsCount, IsControl
<1>2. IdsNeverDecrease'
  <2> SUFFICES ASSUME NEW i \in 1 .. Len(wire'), NEW j \in 1 .. Len(wire'), i < j,
                      wire'[i].at.epoch = wire'[j].at.epoch
               PROVE  wire'[i].at.seq <= wire'[j].at.seq
    BY DEF IdsNeverDecrease
  <2>1. i + d \in 1 .. Len(wire) /\ j + d \in 1 .. Len(wire) /\ i + d < j + d
    OBVIOUS
  <2>2. wire'[i] = wire[i + d] /\ wire'[j] = wire[j + d]
    OBVIOUS
  <2> QED BY <2>1, <2>2 DEF IdsNeverDecrease
<1> QED BY <1>1, <1>2

\* Nor does an item of a sequence that is not behind another's.
LEMMA Longer ==
    ASSUME EngineOK, ClientOK, EventsCount, IdsNeverDecrease, NEW x \in Items,
           wire' = Append(wire, x), ~ IsControl(x) => x.at.seq >= 1,
           \A i \in 1 .. Len(wire) : AtOrBehind(wire[i].at, x.at)
    PROVE  EventsCount' /\ IdsNeverDecrease'
<1>1. /\ Len(wire') = Len(wire) + 1 /\ Len(wire) \in Nat
      /\ \A i \in 1 .. Len(wire) : wire'[i] = wire[i]
      /\ wire'[Len(wire) + 1] = x
  BY AppendedIs DEF ClientOK
<1>2. \A i \in 1 .. Len(wire') : i \in 1 .. Len(wire) \/ i = Len(wire) + 1
  BY <1>1
<1>3. \A i \in 1 .. Len(wire) : wire[i].at.epoch \in Int /\ wire[i].at.seq \in Int
  BY Kinds
<1>4. x.at.epoch \in Int /\ x.at.seq \in Int
  BY ItemIs, PositionIs, BoundsAssumption
<1>5. EventsCount'
  BY <1>1, <1>2 DEF EventsCount, IsControl
<1>6. IdsNeverDecrease'
  <2> SUFFICES ASSUME NEW i \in 1 .. Len(wire'), NEW j \in 1 .. Len(wire'), i < j,
                      wire'[i].at.epoch = wire'[j].at.epoch
               PROVE  wire'[i].at.seq <= wire'[j].at.seq
    BY DEF IdsNeverDecrease
  <2>1. i \in 1 .. Len(wire)
    BY <1>1, <1>2
  <2>2. CASE j \in 1 .. Len(wire)
    BY <1>1, <2>1, <2>2 DEF IdsNeverDecrease
  <2>3. CASE j = Len(wire) + 1
    BY <1>1, <1>3, <1>4, <2>1, <2>3 DEF AtOrBehind
  <2> QED BY <1>2, <2>2, <2>3
<1> QED BY <1>5, <1>6

\* A step that leaves the connection, the client and the events alone.
LEMMA StreamStutter ==
    ASSUME StreamInv, UNCHANGED vars
    PROVE  OrderInv'
BY DEF StreamInv, OrderInv, vars, engineVars, clientVars, Bounded, FramesInOrder, OneRun, ResetFirst,
       EventsCount, LastPassed, SyncIsNoEvent, IdsNeverDecrease, NoSilentLoss, At, IsControl,
       Passed, AtOrBehind

\* The bus hands out the next sequence, to an event or to a late sync copy.
LEMMA HandOut ==
    ASSUME StreamInv, NEW type \in {"event", "sync"}, seq < MaxSeq, seq' = seq + 1,
           epoch' = epoch, uncopied' \subseteq uncopied \cup {seq + 1},
           Push(type, seq + 1) \/ Skip(seq + 1),
           unseen' \subseteq unseen \cup {At(seq + 1)},
           type = "sync" => unseen' = unseen,
           UNCHANGED <<sub, link, clientVars>>
    PROVE  OrderInv'
<1> DEFINE x == [type |-> type, at |-> At(seq + 1)]
<1>0. /\ EngineOK /\ ClientOK /\ EventsCount /\ IdsNeverDecrease /\ seq \in Nat
      /\ seq + 1 \in 1 .. MaxSeq /\ Len(wire) \in Nat /\ Len(frames) \in Nat
  BY BoundsAssumption DEF StreamInv, OrderInv, EngineInv, EngineOK, ClientOK
<1>a. At(seq + 1) \in Positions /\ x \in Items /\ x.type \notin ControlTypes
  BY <1>0, PositionIs, BoundsAssumption DEF EngineOK, Epochs, At, Items, ControlTypes
<1>b. /\ x.at = At(seq + 1) /\ x.type = type
      /\ At(seq + 1).epoch = epoch /\ At(seq + 1).seq = seq + 1
      /\ At(seq).epoch = epoch /\ At(seq).seq = seq
      /\ At(seq)'.epoch = epoch /\ At(seq)'.seq = seq + 1
  BY <1>0 DEF At
<1> HIDE DEF x
<1>c. UNCHANGED <<pos, bare, owed, last, sub, link>>
  BY DEF clientVars
<1>1. \/ sub /\ wire' = Append(wire, x)
      \/ wire' = wire
  BY <1>0, PushIs DEF Skip, x, FrameTypes
<1>2. \E k \in Nat : \A i \in 1 .. Len(frames') :
         \/ i + k \in 1 .. Len(frames) /\ frames'[i] = frames[i + k]
         \/ i + k = Len(frames) + 1 /\ frames'[i] = x
  <2>1. CASE Push(type, seq + 1)
    <3>1. type \in FrameTypes
      BY DEF FrameTypes
    <3> QED BY <1>0, <2>1, <3>1, PushIs, Zenon DEF x
  <2>2. CASE Skip(seq + 1)
    <3>1. \A i \in 1 .. Len(frames') : i + 0 \in 1 .. Len(frames) /\ frames'[i] = frames[i + 0]
      BY <1>0, <2>2 DEF Skip
    <3> QED BY <3>1
  <2> QED BY <2>1, <2>2
<1>3. \A p \in Positions : AtOrBehind(p, At(seq)) =>
         AtOrBehind(p, At(seq + 1)) /\ AtOrBehind(p, At(seq)') /\ p # At(seq + 1)
  BY <1>0, <1>b, PositionIs, BoundsAssumption DEF AtOrBehind
<1>4. \A i \in 1 .. Len(wire') :
         \/ i \in 1 .. Len(wire) /\ wire'[i] = wire[i]
         \/ i = Len(wire) + 1 /\ wire'[i] = x /\ sub
  BY <1>0, <1>1, <1>a, AppendedIs DEF ClientOK
<1>5. Bounded'
  <2>1. AtOrBehind(At(seq + 1), At(seq)')
    BY <1>0, <1>b DEF AtOrBehind, EngineOK
  <2>2. \A i \in 1 .. Len(wire') : AtOrBehind(wire'[i].at, At(seq)')
    BY <1>0, <1>3, <1>4, <1>b, <2>1, Kinds DEF StreamInv, OrderInv, Bounded
  <2>3. pos' # None => AtOrBehind(pos', At(seq)')
    BY <1>0, <1>3, <1>c, Kinds DEF StreamInv, OrderInv, Bounded
  <2>4. \A p \in unseen' : AtOrBehind(p, At(seq)')
    BY <1>0, <1>3, <2>1, Kinds DEF StreamInv, OrderInv, Bounded
  <2> QED BY <2>2, <2>3, <2>4 DEF Bounded
<1>6. FramesInOrder'
  <2>0. PICK k \in Nat : \A i \in 1 .. Len(frames') :
         \/ i + k \in 1 .. Len(frames) /\ frames'[i] = frames[i + k]
         \/ i + k = Len(frames) + 1 /\ frames'[i] = x
    BY <1>2
  <2>1. uncopied' \subseteq 1 .. seq'
    BY <1>0 DEF StreamInv, OrderInv, FramesInOrder
  <2>2. \A i \in 1 .. Len(frames') :
           frames'[i].at.epoch = epoch' /\ frames'[i].at.seq \in 1 .. seq'
    <3>1. \A i \in 1 .. Len(frames) :
             frames[i].at.epoch = epoch /\ frames[i].at.seq \in 1 .. seq + 1
      BY <1>0 DEF StreamInv, OrderInv, FramesInOrder
    <3>2. x.at.epoch = epoch /\ x.at.seq \in 1 .. seq + 1
      BY <1>0, <1>b
    <3> QED BY <2>0, <3>1, <3>2
  <2>3. ASSUME NEW i \in 1 .. Len(frames'), NEW j \in 1 .. Len(frames'), i < j,
               frames'[i].type # "copy", frames'[j].type # "copy"
        PROVE  frames'[i].at.seq < frames'[j].at.seq
    <3>1. i + k \in 1 .. Len(frames) /\ frames'[i] = frames[i + k]
      BY <1>0, <2>0, <2>3
    <3>2. CASE j + k \in 1 .. Len(frames) /\ frames'[j] = frames[j + k]
      BY <2>3, <3>1, <3>2 DEF StreamInv, OrderInv, FramesInOrder
    <3>3. CASE j + k = Len(frames) + 1 /\ frames'[j] = x
      BY <1>0, <1>b, <3>1, <3>3 DEF StreamInv, OrderInv, FramesInOrder
    <3> QED BY <2>0, <3>2, <3>3
  <2> QED BY <2>1, <2>2, <2>3 DEF FramesInOrder
<1>7. OneRun'
  <2>1. pos # None => pos.epoch <= epoch
    BY <1>0, <1>b, Kinds DEF StreamInv, OrderInv, Bounded, AtOrBehind
  <2>2. link' = "down" => wire' = <<>> /\ ~ sub'
    BY <1>1, <1>c DEF StreamInv, OrderInv, OneRun
  <2>3. sub' => \A i \in 1 .. Len(wire') : wire'[i].at.epoch = epoch'
    BY <1>4, <1>b, <1>c DEF StreamInv, OrderInv, OneRun
  <2>4. \A i, j \in 1 .. Len(wire') : wire'[i].at.epoch = wire'[j].at.epoch
    BY <1>4, <1>b DEF StreamInv, OrderInv, OneRun
  <2>5. pos' # None => \A i \in 1 .. Len(wire') : pos'.epoch <= wire'[i].at.epoch
    BY <1>4, <1>b, <1>c, <2>1 DEF StreamInv, OrderInv, OneRun
  <2> QED BY <2>2, <2>3, <2>4, <2>5 DEF OneRun
<1>8. ResetFirst'
  BY <1>4, <1>a, <1>c DEF StreamInv, OrderInv, ResetFirst, ControlTypes
<1>9. EventsCount' /\ IdsNeverDecrease'
  <2>1. CASE wire' = Append(wire, x)
    <3>1. \A i \in 1 .. Len(wire) : AtOrBehind(wire[i].at, x.at)
      BY <1>0, <1>3, <1>b, Kinds DEF StreamInv, OrderInv, Bounded
    <3>2. x.at.seq >= 1
      BY <1>0, <1>b
    <3> QED BY <1>0, <1>a, <2>1, <3>1, <3>2, Longer
  <2>2. CASE wire' = wire
    BY <1>0, <2>2 DEF EventsCount, IdsNeverDecrease, IsControl
  <2> QED BY <1>1, <2>1, <2>2
<1>10. LastPassed'
  BY <1>c DEF StreamInv, OrderInv, LastPassed, AtOrBehind
<1>11. SyncIsNoEvent'
  <2>1. At(seq + 1) \notin unseen
    BY <1>0, <1>3, Kinds DEF StreamInv, OrderInv, Bounded
  <2>2. \A i \in 1 .. Len(frames) : frames[i].at # At(seq + 1)
    BY <1>0, <1>b DEF StreamInv, OrderInv, FramesInOrder
  <2>3. \A i \in 1 .. Len(wire) : wire[i].at # At(seq + 1)
    BY <1>0, <1>3, Kinds DEF StreamInv, OrderInv, Bounded
  <2>4. \A i \in 1 .. Len(frames') : frames'[i].type = "sync" => frames'[i].at \notin unseen'
    BY <1>0, <1>2, <1>b, <2>1, <2>2 DEF StreamInv, OrderInv, SyncIsNoEvent
  <2>5. \A i \in 1 .. Len(wire') : wire'[i].type = "sync" => wire'[i].at \notin unseen'
    BY <1>4, <1>b, <2>1, <2>3 DEF StreamInv, OrderInv, SyncIsNoEvent
  <2> QED BY <2>4, <2>5 DEF SyncIsNoEvent
<1>12. NoSilentLoss'
  <2>1. pos # None => ~ AtOrBehind(At(seq + 1), pos)
    BY <1>0, <1>b, Kinds DEF StreamInv, OrderInv, Bounded, AtOrBehind
  <2> QED BY <1>c, <2>1 DEF StreamInv, OrderInv, NoSilentLoss, Passed, AtOrBehind
<1> QED BY <1>5, <1>6, <1>7, <1>8, <1>9, <1>10, <1>11, <1>12 DEF OrderInv

\* A copy that shares its source's sequence is for sync subscribers only.
LEMMA SharedCopy ==
    ASSUME StreamInv, NEW n \in 1 .. MaxSeq, n \in uncopied, uncopied' \subseteq uncopied,
           Push("copy", n) \/ UNCHANGED <<frames, wire>>,
           UNCHANGED <<epoch, seq, sub, link, clientVars, unseen>>
    PROVE  OrderInv'
<1> DEFINE x == [type |-> "copy", at |-> At(n)]
<1>0. /\ EngineOK /\ ClientOK /\ seq \in Nat /\ n \in 1 .. seq
      /\ Len(wire) \in Nat /\ Len(frames) \in Nat
  BY BoundsAssumption DEF StreamInv, OrderInv, EngineInv, EngineOK, ClientOK, FramesInOrder
<1>a. UNCHANGED <<pos, bare, owed, last, wire>>
  BY DEF clientVars, Push
<1>b. x.type = "copy" /\ x.at.epoch = epoch /\ x.at.seq = n
  BY DEF At
<1> HIDE DEF x
<1>1. \E k \in Nat : \A i \in 1 .. Len(frames') :
         \/ i + k \in 1 .. Len(frames) /\ frames'[i] = frames[i + k]
         \/ i + k = Len(frames) + 1 /\ frames'[i] = x
  <2>1. CASE Push("copy", n)
    <3>1. "copy" \in FrameTypes
      BY DEF FrameTypes
    <3> QED BY <1>0, <2>1, <3>1, PushIs, Zenon DEF x
  <2>2. CASE UNCHANGED <<frames, wire>>
    <3>1. \A i \in 1 .. Len(frames') : i + 0 \in 1 .. Len(frames) /\ frames'[i] = frames[i + 0]
      BY <1>0, <2>2
    <3> QED BY <3>1
  <2> QED BY <2>1, <2>2
<1>2. PICK k \in Nat : \A i \in 1 .. Len(frames') :
         \/ i + k \in 1 .. Len(frames) /\ frames'[i] = frames[i + k]
         \/ i + k = Len(frames) + 1 /\ frames'[i] = x
  BY <1>1
<1>3. FramesInOrder'
  <2>1. uncopied' \subseteq 1 .. seq'
    BY DEF StreamInv, OrderInv, FramesInOrder
  <2>2. \A i \in 1 .. Len(frames') :
           frames'[i].at.epoch = epoch' /\ frames'[i].at.seq \in 1 .. seq'
    <3>1. \A i \in 1 .. Len(frames) :
             frames[i].at.epoch = epoch /\ frames[i].at.seq \in 1 .. seq
      BY DEF StreamInv, OrderInv, FramesInOrder
    <3> QED BY <1>0, <1>2, <1>b, <3>1
  <2>3. ASSUME NEW i \in 1 .. Len(frames'), NEW j \in 1 .. Len(frames'), i < j,
               frames'[i].type # "copy", frames'[j].type # "copy"
        PROVE  frames'[i].at.seq < frames'[j].at.seq
    <3>1. i + k \in 1 .. Len(frames) /\ frames'[i] = frames[i + k]
      BY <1>2, <1>b, <2>3
    <3>2. j + k \in 1 .. Len(frames) /\ frames'[j] = frames[j + k]
      BY <1>2, <1>b, <2>3
    <3> QED BY <2>3, <3>1, <3>2 DEF StreamInv, OrderInv, FramesInOrder
  <2> QED BY <2>1, <2>2, <2>3 DEF FramesInOrder
<1>4. SyncIsNoEvent'
  BY <1>2, <1>a, <1>b DEF StreamInv, OrderInv, SyncIsNoEvent
<1>5. (Bounded /\ OneRun /\ ResetFirst /\ EventsCount /\ LastPassed /\ IdsNeverDecrease
       /\ NoSilentLoss)'
  BY <1>a DEF StreamInv, OrderInv, Bounded, OneRun, ResetFirst, EventsCount, LastPassed,
              IdsNeverDecrease, NoSilentLoss, At, IsControl, Passed, AtOrBehind
<1> QED BY <1>3, <1>4, <1>5 DEF OrderInv

\* Part of what was on the way is lost, or all of it; the engine let go.
LEMMA LetGo ==
    ASSUME StreamInv, wire' \in Seq(Items), sub' = FALSE,
           \A i \in 1 .. Len(wire') : i \in 1 .. Len(wire) /\ wire'[i] = wire[i],
           link' = link \/ wire' = <<>>,
           Len(wire') <= Len(wire),
           UNCHANGED <<engineVars, clientVars, unseen>>
    PROVE  OrderInv'
<1>0. EngineOK /\ ClientOK /\ Len(wire) \in Nat
  BY DEF StreamInv, EngineInv, ClientOK
<1>a. UNCHANGED <<epoch, seq, frames, uncopied, pos, bare, owed, last, unseen>>
  BY DEF engineVars, clientVars
<1>1. EventsCount' /\ IdsNeverDecrease'
  <2>1. \A i \in 1 .. Len(wire') : i + 0 \in 1 .. Len(wire) /\ wire'[i] = wire[i + 0]
    BY <1>0
  <2> QED BY <1>0, <2>1, Shorter DEF StreamInv, OrderInv
<1>2. Bounded'
  BY <1>a DEF StreamInv, OrderInv, Bounded, At, AtOrBehind
<1>3. FramesInOrder' /\ LastPassed' /\ NoSilentLoss'
  BY <1>a DEF StreamInv, OrderInv, FramesInOrder, LastPassed, NoSilentLoss, Passed, AtOrBehind
<1>4. OneRun'
  <2>1. wire = <<>> => wire' = <<>>
    BY <1>0
  <2> QED BY <1>a, <2>1 DEF StreamInv, OrderInv, OneRun
<1>5. ResetFirst'
  BY <1>a DEF StreamInv, OrderInv, ResetFirst, AtOrBehind
<1>6. SyncIsNoEvent'
  BY <1>a DEF StreamInv, OrderInv, SyncIsNoEvent
<1> QED BY <1>1, <1>2, <1>3, <1>4, <1>5, <1>6 DEF OrderInv

\* A restart is behind everything: its epoch is the next one.
LEMMA RestartOrder ==
    ASSUME StreamInv, Restart
    PROVE  OrderInv'
<1>0. EngineOK /\ ClientOK /\ Len(wire) \in Nat /\ epoch \in Nat
  BY DEF StreamInv, EngineInv, EngineOK, ClientOK, Epochs
<1>a. /\ UNCHANGED <<pos, bare, owed, last, unseen, link>>
      /\ epoch' = epoch + 1 /\ seq' = 0 /\ frames' = <<>> /\ uncopied' = {} /\ sub' = FALSE
  BY DEF Restart, clientVars
<1>b. /\ wire' \in Seq(Items) /\ Len(wire') <= Len(wire)
      /\ \A i \in 1 .. Len(wire') : i \in 1 .. Len(wire) /\ wire'[i] = wire[i]
  BY SeveredIs DEF Restart, ClientOK, StreamInv
<1>1. EventsCount' /\ IdsNeverDecrease'
  <2>1. \A i \in 1 .. Len(wire') : i + 0 \in 1 .. Len(wire) /\ wire'[i] = wire[i + 0]
    BY <1>0, <1>b
  <2> QED BY <1>0, <1>b, <2>1, Shorter DEF StreamInv, OrderInv
<1>2. Bounded'
  <2>1. \A p \in Positions : AtOrBehind(p, At(seq)) => AtOrBehind(p, At(seq)')
    BY <1>0, <1>a, PositionIs, BoundsAssumption DEF AtOrBehind, At
  <2>2. \A i \in 1 .. Len(wire') : AtOrBehind(wire'[i].at, At(seq)')
    BY <1>0, <1>b, <2>1, Kinds DEF StreamInv, OrderInv, Bounded
  <2>3. pos' # None => AtOrBehind(pos', At(seq)')
    BY <1>0, <1>a, <2>1, Kinds DEF StreamInv, OrderInv, Bounded
  <2>4. \A p \in unseen' : AtOrBehind(p, At(seq)')
    BY <1>0, <1>a, <2>1, Kinds DEF StreamInv, OrderInv, Bounded
  <2> QED BY <2>2, <2>3, <2>4 DEF Bounded
<1>3. FramesInOrder'
  BY <1>a DEF FramesInOrder
<1>4. OneRun'
  <2>1. wire = <<>> => wire' = <<>>
    BY <1>0, <1>b
  <2> QED BY <1>a, <1>b, <2>1 DEF StreamInv, OrderInv, OneRun
<1>5. ResetFirst'
  BY <1>a, <1>b DEF StreamInv, OrderInv, ResetFirst, AtOrBehind
<1>6. SyncIsNoEvent'
  BY <1>a, <1>b DEF StreamInv, OrderInv, SyncIsNoEvent
<1>7. LastPassed' /\ NoSilentLoss'
  BY <1>a DEF StreamInv, OrderInv, LastPassed, NoSilentLoss, Passed, AtOrBehind
<1> QED BY <1>1, <1>2, <1>3, <1>4, <1>5, <1>6, <1>7 DEF OrderInv

\* A heartbeat is at the sequence of the bus, and behind all that was sent.
LEMMA HeartbeatOrder ==
    ASSUME StreamInv, Heartbeat
    PROVE  OrderInv'
<1> DEFINE x == Control("heartbeat", At(seq))
<1>0. EngineOK /\ ClientOK /\ Len(wire) \in Nat /\ epoch \in 0 .. MaxEpoch /\ seq \in 0 .. MaxSeq
  BY DEF StreamInv, EngineInv, EngineOK, ClientOK, Epochs
<1>a. UNCHANGED <<epoch, seq, frames, uncopied, pos, bare, owed, last, unseen, link, sub>>
  BY DEF Heartbeat, engineVars, clientVars
<1>b. sub /\ wire' = Append(wire, x)
  BY DEF Heartbeat
<1>c. x \in Items /\ x.type = "heartbeat" /\ x.at = At(seq) /\ IsControl(x)
  BY <1>0, ItemIs, PositionIs DEF ControlTypes, IsControl, At
<1>d. At(seq).epoch = epoch /\ At(seq).seq = seq /\ At(seq)' = At(seq)
  BY <1>a DEF At
<1> HIDE DEF x
<1>e. \A i \in 1 .. Len(wire') :
         \/ i \in 1 .. Len(wire) /\ wire'[i] = wire[i]
         \/ i = Len(wire) + 1 /\ wire'[i] = x
  BY <1>0, <1>b, <1>c, AppendedIs DEF ClientOK
<1>1. EventsCount' /\ IdsNeverDecrease'
  <2>1. \A i \in 1 .. Len(wire) : AtOrBehind(wire[i].at, x.at)
    BY <1>c DEF StreamInv, OrderInv, Bounded
  <2> QED BY <1>0, <1>b, <1>c, <2>1, Longer DEF StreamInv, OrderInv
<1>2. Bounded'
  <2>1. AtOrBehind(x.at, At(seq))
    BY <1>0, <1>c, <1>d DEF AtOrBehind
  <2>2. \A i \in 1 .. Len(wire') : AtOrBehind(wire'[i].at, At(seq)')
    BY <1>d, <1>e, <2>1 DEF StreamInv, OrderInv, Bounded
  <2> QED BY <1>a, <1>d, <2>2 DEF StreamInv, OrderInv, Bounded
<1>3. FramesInOrder' /\ LastPassed' /\ NoSilentLoss'
  BY <1>a DEF StreamInv, OrderInv, FramesInOrder, LastPassed, NoSilentLoss, Passed, AtOrBehind
<1>4. OneRun'
  <2>1. pos # None => pos.epoch <= epoch
    BY <1>0, <1>d, Kinds DEF StreamInv, OrderInv, Bounded, AtOrBehind
  <2>2. link # "down"
    BY <1>b DEF StreamInv, OrderInv, OneRun
  <2> QED BY <1>a, <1>b, <1>c, <1>d, <1>e, <2>1, <2>2 DEF StreamInv, OrderInv, OneRun
<1>5. ResetFirst'
  BY <1>a, <1>c, <1>e DEF StreamInv, OrderInv, ResetFirst, AtOrBehind
<1>6. SyncIsNoEvent'
  BY <1>a, <1>c, <1>e DEF StreamInv, OrderInv, SyncIsNoEvent
<1> QED BY <1>1, <1>2, <1>3, <1>4, <1>5, <1>6 DEF OrderInv

\* What was fetched holds every event; a detour changes the cursor's form.
LEMMA FetchOrder ==
    ASSUME StreamInv, Resync \/ Detour
    PROVE  OrderInv'
<1>a. UNCHANGED <<epoch, seq, frames, uncopied, pos, last, link, sub, wire>>
  BY DEF Resync, Detour, engineVars
<1>b. \/ unseen' = {}
      \/ UNCHANGED <<unseen, owed>>
  BY DEF Resync, Detour
<1>1. Bounded' /\ SyncIsNoEvent' /\ NoSilentLoss'
  BY <1>a, <1>b DEF StreamInv, OrderInv, Bounded, SyncIsNoEvent, NoSilentLoss, At, Passed, AtOrBehind
<1>2. (FramesInOrder /\ OneRun /\ ResetFirst /\ EventsCount /\ LastPassed /\ IdsNeverDecrease)'
  BY <1>a DEF StreamInv, OrderInv, FramesInOrder, OneRun, ResetFirst, EventsCount, LastPassed,
              IdsNeverDecrease, IsControl, AtOrBehind
<1> QED BY <1>1, <1>2 DEF OrderInv

\* The client reads the next item, and moves to it unless it is behind.
LEMMA ReceiveOrder ==
    ASSUME StreamInv, Receive
    PROVE  OrderInv'
<1> DEFINE item == wire[1]
<1>0. EngineOK /\ ClientOK /\ Len(wire) \in Nat
  BY DEF StreamInv, EngineInv, ClientOK
<1>a. UNCHANGED <<epoch, seq, frames, uncopied, sub, link>> /\ link = "open"
  BY DEF Receive, engineVars
<1>b. wire # <<>> /\ wire' = Tail(wire) /\ wire \in Seq(Items)
  BY DEF Receive, StreamInv, ClientOK
<1>c. /\ wire' \in Seq(Items) /\ 1 \in 1 .. Len(wire) /\ Head(wire) = item /\ item \in Items
      /\ \A i \in 1 .. Len(wire') : i + 1 \in 1 .. Len(wire) /\ wire'[i] = wire[i + 1]
  BY <1>b, TailIs
<1>d. \/ Behind(item) /\ UNCHANGED <<pos, bare, owed, last, unseen>>
      \/ ~ Behind(item) /\ ReceiveNext(item)
  BY <1>c DEF Receive, ReceiveBehind, clientVars
<1>e. /\ item.at \in Positions /\ item.at # None
      /\ item.at.epoch \in Nat /\ item.at.seq \in Nat
  BY <1>c, ItemIs, PositionIs, NoneAssumption, BoundsAssumption
<1> HIDE DEF item
<1>f. \A i \in 1 .. Len(wire') : wire'[i].at.epoch = item.at.epoch
  BY <1>c DEF StreamInv, OrderInv, OneRun, item
<1>g. AtOrBehind(item.at, At(seq))
  BY <1>c DEF StreamInv, OrderInv, Bounded, item
<1>h. /\ link' # "down"
      /\ sub' => \A i \in 1 .. Len(wire') : wire'[i].at.epoch = epoch'
      /\ \A i, j \in 1 .. Len(wire') : wire'[i].at.epoch = wire'[j].at.epoch
  <2>1. sub => item.at.epoch = epoch
    BY <1>c DEF StreamInv, OrderInv, OneRun, item
  <2> QED BY <1>a, <1>f, <2>1
<1>1. EventsCount' /\ IdsNeverDecrease'
  BY <1>0, <1>c, Shorter DEF StreamInv, OrderInv
<1>2. FramesInOrder'
  BY <1>a DEF StreamInv, OrderInv, FramesInOrder
<1>3. ResetFirst'
  <2>1. \A i \in 1 .. Len(wire') : wire[i + 1].type # "reset"
    BY <1>c DEF StreamInv, OrderInv, ResetFirst
  <2> QED BY <1>c, <2>1 DEF ResetFirst
<1>4. SyncIsNoEvent'
  <2>1. unseen' \subseteq unseen
    BY <1>d DEF ReceiveNext
  <2> QED BY <1>a, <1>c, <2>1 DEF StreamInv, OrderInv, SyncIsNoEvent
<1>5. \A i \in 1 .. Len(wire') : AtOrBehind(wire'[i].at, At(seq)')
  BY <1>a, <1>c DEF StreamInv, OrderInv, Bounded, At, AtOrBehind
<1>6. CASE Behind(item) /\ UNCHANGED <<pos, bare, owed, last, unseen>>
  <2>1. Bounded'
    BY <1>a, <1>5, <1>6 DEF StreamInv, OrderInv, Bounded, At, AtOrBehind
  <2>2. OneRun'
    <3>1. pos' # None => \A i \in 1 .. Len(wire') : pos'.epoch <= wire'[i].at.epoch
      BY <1>c, <1>6 DEF StreamInv, OrderInv, OneRun
    <3> QED BY <1>h, <3>1 DEF OneRun
  <2>3. LastPassed' /\ NoSilentLoss'
    BY <1>6 DEF StreamInv, OrderInv, LastPassed, NoSilentLoss, Passed, AtOrBehind
  <2> QED BY <1>1, <1>2, <1>3, <1>4, <2>1, <2>2, <2>3 DEF OrderInv
<1>7. CASE ~ Behind(item) /\ ReceiveNext(item)
  <2>0. /\ pos' = item.at /\ pos' # None
        /\ owed' = (owed \/ item.type = "reset" \/ Hole(item))
        /\ last' = (IF item.type = "event" THEN item.at ELSE last)
        /\ unseen' = unseen \ Seen(item)
    BY <1>7, <1>e DEF ReceiveNext
  <2>1. Bounded'
    <3>1. \A p \in unseen' : AtOrBehind(p, At(seq)')
      BY <1>a, <2>0 DEF StreamInv, OrderInv, Bounded, At, AtOrBehind
    <3>2. AtOrBehind(pos', At(seq)')
      BY <1>a, <1>g, <2>0 DEF At, AtOrBehind
    <3> QED BY <1>5, <3>1, <3>2 DEF Bounded
  <2>2. OneRun'
    <3>1. \A i \in 1 .. Len(wire') : pos'.epoch <= wire'[i].at.epoch
      BY <1>e, <1>f, <2>0
    <3> QED BY <1>h, <3>1 DEF OneRun
  <2>3. pos # None => AtOrBehind(pos, item.at)
    <3>1. pos # None => pos.epoch <= item.at.epoch
      BY <1>c DEF StreamInv, OrderInv, OneRun, item
    <3>2. CASE item.type = "reset"
      BY <1>c, <3>2 DEF StreamInv, OrderInv, ResetFirst, item
    <3>3. CASE item.type # "reset"
      BY <1>0, <1>7, <1>e, <3>1, <3>3, Kinds DEF Behind, Baseline, AtOrBehind
    <3> QED BY <3>2, <3>3
  <2>4. LastPassed'
    <3>1. AtOrBehind(last, item.at)
      BY <1>0, <1>e, <2>3, Kinds DEF StreamInv, OrderInv, LastPassed, AtOrBehind
    <3>2. AtOrBehind(item.at, item.at)
      BY <1>e DEF AtOrBehind
    <3>3. AtOrBehind(last', pos')
      BY <2>0, <3>1, <3>2
    <3> QED BY <2>0, <3>3 DEF LastPassed
  <2>5. NoSilentLoss'
    <3> SUFFICES ASSUME NEW p \in unseen', AtOrBehind(p, item.at), ~ owed'
                 PROVE  FALSE
      BY <2>0 DEF NoSilentLoss, Passed, AtOrBehind
    <3>1. /\ p \in unseen /\ p \in Positions /\ p.epoch \in Int /\ p.seq \in Int
          /\ ~ (item.type = "event" /\ p = item.at)
          /\ pos # None
      BY <1>0, <2>0, Kinds DEF Seen
    <3>2. ~ owed /\ item.type # "reset" /\ ~ Hole(item)
      BY <2>0
    <3>3. ~ AtOrBehind(p, pos)
      BY <3>1, <3>2 DEF StreamInv, OrderInv, NoSilentLoss, Passed
    <3>4. pos.epoch \in Int /\ pos.seq \in Int
      BY <1>0, <3>1, Kinds
    <3>5. /\ item.at.epoch = pos.epoch
          /\ item.at.seq <= pos.seq + (IF IsControl(item) THEN 0 ELSE 1)
      BY <1>e, <3>1, <3>2, <3>4 DEF Hole, Baseline
    <3>6. ~ IsControl(item) /\ p.epoch = item.at.epoch /\ p.seq = item.at.seq
      BY <1>e, <3>1, <3>3, <3>4, <3>5 DEF AtOrBehind
    <3>7. p = item.at
      BY <1>e, <3>1, <3>6, PositionIs
    <3>8. item.type = "sync"
      BY <1>c, <3>1, <3>6, <3>7, ItemIs
    <3> QED BY <1>c, <3>1, <3>7, <3>8 DEF StreamInv, OrderInv, SyncIsNoEvent, item
  <2> QED BY <1>1, <1>2, <1>3, <1>4, <2>1, <2>2, <2>4, <2>5 DEF OrderInv
<1> QED BY <1>d, <1>6, <1>7

\* A connection starts at or behind the bus, and is served in its order.
LEMMA ConnectOrder ==
    ASSUME StreamInv, Connect
    PROVE  OrderInv'
<1>0. /\ EngineOK /\ ClientOK /\ epoch \in Nat /\ seq \in Nat
  BY BoundsAssumption DEF StreamInv, EngineInv, EngineOK, Epochs
<1>a. /\ UNCHANGED <<epoch, seq, uncopied, pos, bare, owed, last, unseen>>
      /\ link' = "open" /\ sub' = TRUE
  BY DEF Connect, clientVars
<1>b. At(seq)' = At(seq) /\ \A n : At(n).epoch = epoch /\ At(n).seq = n
  BY <1>a DEF At
<1>c. PICK k \in 0 .. Len(frames) : Evict(frames, k)
  BY DEF Connect
<1>d. /\ frames' \in Seq(Frames) /\ k \in Nat /\ Len(frames') \in Nat
      /\ \A i \in 1 .. Len(frames') : i + k \in 1 .. Len(frames) /\ frames'[i] = frames[i + k]
  BY <1>0, <1>c, EvictedIs DEF EngineOK
<1>1. FramesInOrder'
  <2>1. \A i \in 1 .. Len(frames') :
           frames'[i].at.epoch = epoch' /\ frames'[i].at.seq \in 1 .. seq'
    BY <1>a, <1>d DEF StreamInv, OrderInv, FramesInOrder
  <2>2. ASSUME NEW i \in 1 .. Len(frames'), NEW j \in 1 .. Len(frames'), i < j,
               frames'[i].type # "copy", frames'[j].type # "copy"
        PROVE  frames'[i].at.seq < frames'[j].at.seq
    <3>1. /\ i + k \in 1 .. Len(frames) /\ j + k \in 1 .. Len(frames) /\ i + k < j + k
          /\ frames'[i] = frames[i + k] /\ frames'[j] = frames[j + k]
      BY <1>d, <2>2
    <3> QED BY <2>2, <3>1 DEF StreamInv, OrderInv, FramesInOrder
  <2> QED BY <1>a, <2>1, <2>2 DEF StreamInv, OrderInv, FramesInOrder
<1>2. /\ wire' \in Seq(Items)
      /\ \A i \in 1 .. Len(wire') : wire'[i].at.epoch = epoch /\ wire'[i].at.seq \in 0 .. seq
      /\ EventsCount' /\ IdsNeverDecrease'
      /\ \A i \in 1 .. Len(wire') : wire'[i].type = "reset" =>
            i = 1 /\ wire'[i].at = At(seq)
      /\ \A i \in 1 .. Len(wire') : wire'[i].type = "sync" =>
            \E m \in 1 .. Len(frames') : wire'[i] = frames'[m]
  <2>1. CASE /\ Len(wire') = 2
             /\ wire'[1] = Control("reset", At(seq)) /\ wire'[2] = Control("connected", At(seq))
    <3>1. \A i \in 1 .. Len(wire') : i = 1 \/ i = 2
      BY <2>1
    <3>2. /\ wire'[1].at = At(seq) /\ wire'[1].type = "reset"
          /\ wire'[2].at = At(seq) /\ wire'[2].type = "connected"
      BY <2>1 DEF Control
    <3>3. EventsCount' /\ IdsNeverDecrease'
      BY <1>0, <1>b, <3>1, <3>2 DEF EventsCount, IdsNeverDecrease, IsControl, ControlTypes
    <3>4. \A i \in 1 .. Len(wire') : wire'[i].at.epoch = epoch /\ wire'[i].at.seq \in 0 .. seq
      BY <1>0, <1>b, <3>1, <3>2
    <3> QED BY <1>0, <3>1, <3>2, <3>3, <3>4, ConnectIs
  <2>2. ASSUME NEW n \in 0 .. MaxSeq, ServedAt(n), Len(wire') >= 1,
               wire'[1] = Control("connected", At(n)),
               \A j \in 2 .. Len(wire') : \E i \in 1 .. Len(frames') :
                  wire'[j] = frames'[i] /\ frames'[i].at.seq > n /\ frames'[i].type # "copy",
               \A j, l \in 2 .. Len(wire') : j < l =>
                  \E i, m \in 1 .. Len(frames') :
                     /\ i < m
                     /\ wire'[j] = frames'[i] /\ frames'[i].type # "copy"
                     /\ wire'[l] = frames'[m] /\ frames'[m].type # "copy"
        PROVE  /\ \A i \in 1 .. Len(wire') :
                     wire'[i].at.epoch = epoch /\ wire'[i].at.seq \in 0 .. seq
               /\ EventsCount' /\ IdsNeverDecrease'
               /\ \A i \in 1 .. Len(wire') : wire'[i].type # "reset"
               /\ \A i \in 1 .. Len(wire') : wire'[i].type = "sync" =>
                     \E m \in 1 .. Len(frames') : wire'[i] = frames'[m]
    <3>0. \A i \in 1 .. Len(wire') : i = 1 \/ i \in 2 .. Len(wire')
      BY <2>2
    <3>1. /\ wire'[1].at.epoch = epoch /\ wire'[1].at.seq = n /\ wire'[1].type = "connected"
      BY <1>b, <2>2 DEF Control
    <3>2. n \in 0 .. seq
      <4>1. CASE frames' # <<>> /\ n = frames'[Len(frames')].at.seq
        <5>1. Len(frames') \in 1 .. Len(frames')
          BY <1>d, <4>1
        <5> QED BY <1>0, <1>1, <1>a, <4>1, <5>1 DEF FramesInOrder
      <4> QED BY <1>0, <2>2, <4>1 DEF ServedAt, Servable
    <3>3. \A j \in 2 .. Len(wire') :
             /\ wire'[j].at.epoch = epoch /\ wire'[j].at.seq \in 1 .. seq
             /\ wire'[j].at.seq > n
      BY <1>1, <1>a, <2>2 DEF FramesInOrder
    <3>4. \A j \in 2 .. Len(wire') : wire'[j].type \in {"event", "sync"}
      <4>1. \A i \in 1 .. Len(frames') : frames'[i].type \in FrameTypes
        BY <1>d, ItemIs
      <4> QED BY <2>2, <4>1 DEF FrameTypes
    <3>5. EventsCount'
      BY <3>0, <3>1, <3>3 DEF EventsCount, IsControl, ControlTypes
    <3>6. IdsNeverDecrease'
      <4> SUFFICES ASSUME NEW i \in 1 .. Len(wire'), NEW j \in 1 .. Len(wire'), i < j
                   PROVE  wire'[i].at.seq <= wire'[j].at.seq
        BY DEF IdsNeverDecrease
      <4>1. j \in 2 .. Len(wire')
        BY <3>0
      <4>2. CASE i = 1
        BY <3>1, <3>2, <3>3, <4>1, <4>2
      <4>3. CASE i \in 2 .. Len(wire')
        <5>1. PICK l, m \in 1 .. Len(frames') :
                 /\ l < m
                 /\ wire'[i] = frames'[l] /\ frames'[l].type # "copy"
                 /\ wire'[j] = frames'[m] /\ frames'[m].type # "copy"
          BY <2>2, <4>1, <4>3
        <5>2. frames'[l].at.seq < frames'[m].at.seq
          BY <1>1, <5>1 DEF FramesInOrder
        <5> QED BY <3>3, <4>1, <4>3, <5>1, <5>2
      <4> QED BY <3>0, <4>2, <4>3
    <3>7. \A i \in 1 .. Len(wire') :
             wire'[i].at.epoch = epoch /\ wire'[i].at.seq \in 0 .. seq
      BY <3>0, <3>1, <3>2, <3>3
    <3>8. \A i \in 1 .. Len(wire') : wire'[i].type # "reset"
      BY <3>0, <3>1, <3>4
    <3>9. \A i \in 1 .. Len(wire') : wire'[i].type = "sync" =>
             \E m \in 1 .. Len(frames') : wire'[i] = frames'[m]
      BY <2>2, <3>0, <3>1
    <3> QED BY <3>5, <3>6, <3>7, <3>8, <3>9
  <2> QED BY <1>0, <2>1, <2>2, ConnectIs
<1>3. Bounded'
  <2>1. \A i \in 1 .. Len(wire') : AtOrBehind(wire'[i].at, At(seq)')
    BY <1>0, <1>2, <1>b DEF AtOrBehind
  <2> QED BY <1>a, <1>b, <2>1 DEF StreamInv, OrderInv, Bounded
<1>4. OneRun'
  <2>1. pos # None => pos.epoch <= epoch
    BY <1>0, <1>b, Kinds DEF StreamInv, OrderInv, Bounded, AtOrBehind
  <2> QED BY <1>2, <1>a, <2>1 DEF OneRun
<1>5. ResetFirst'
  BY <1>2, <1>a DEF StreamInv, OrderInv, Bounded, ResetFirst
<1>6. SyncIsNoEvent'
  <2>1. \A i \in 1 .. Len(frames') : frames'[i].type = "sync" => frames'[i].at \notin unseen'
    BY <1>a, <1>d DEF StreamInv, OrderInv, SyncIsNoEvent
  <2>2. \A i \in 1 .. Len(wire') : wire'[i].type = "sync" => wire'[i].at \notin unseen'
    BY <1>2, <2>1
  <2> QED BY <2>1, <2>2 DEF SyncIsNoEvent
<1>7. LastPassed' /\ NoSilentLoss'
  BY <1>a DEF StreamInv, OrderInv, LastPassed, NoSilentLoss, Passed, AtOrBehind
<1> QED BY <1>1, <1>2, <1>3, <1>4, <1>5, <1>6, <1>7 DEF OrderInv

LEMMA OrderInit == Init => OrderInv
<1> SUFFICES ASSUME Init PROVE OrderInv
  OBVIOUS
<1>1. /\ pos = None /\ wire = <<>> /\ frames = <<>> /\ unseen = {} /\ uncopied = {}
      /\ sub = FALSE /\ last = [epoch |-> 0, seq |-> 0]
  BY DEF Init
<1>2. Len(wire) = 0 /\ Len(frames) = 0
  BY <1>1
<1> QED BY <1>1, <1>2 DEF OrderInv, Bounded, FramesInOrder, OneRun, ResetFirst, EventsCount,
              LastPassed, SyncIsNoEvent, IdsNeverDecrease, NoSilentLoss

LEMMA OrderNext == StreamInv /\ [Next]_vars => OrderInv'
<1> SUFFICES ASSUME StreamInv, [Next]_vars PROVE OrderInv'
  OBVIOUS
<1>1. CASE EmitEvent
  <2>1. uncopied' \subseteq uncopied \cup {seq + 1} /\ unseen' = unseen \cup {At(seq + 1)}
    BY <1>1 DEF EmitEvent
  <2>2. /\ seq < MaxSeq /\ seq' = seq + 1 /\ epoch' = epoch
        /\ Push("event", seq + 1) \/ Skip(seq + 1)
        /\ UNCHANGED <<sub, link, clientVars>>
    BY <1>1 DEF EmitEvent
  <2> QED BY <2>1, <2>2, HandOut
<1>2. ASSUME NEW n \in 1 .. MaxSeq, EmitCopy(n) PROVE OrderInv'
  <2>0. /\ n \in uncopied /\ uncopied' \subseteq uncopied
        /\ UNCHANGED <<epoch, sub, link, clientVars, unseen>>
    BY <1>2 DEF EmitCopy
  <2>1. CASE seq' = seq /\ (Push("copy", n) \/ UNCHANGED <<frames, wire>>)
    BY <2>0, <2>1, SharedCopy
  <2>2. CASE seq < MaxSeq /\ seq' = seq + 1 /\ (Push("sync", seq + 1) \/ Skip(seq + 1))
    BY <2>0, <2>2, HandOut
  <2> QED BY <1>2, <2>1, <2>2 DEF EmitCopy
<1>3. CASE Restart
  BY <1>3, RestartOrder
<1>4. CASE Connect
  BY <1>4, ConnectOrder
<1>5. CASE Heartbeat
  BY <1>5, HeartbeatOrder
<1>6. CASE Drop
  <2>1. wire \in Seq(Items) /\ Severed
    BY <1>6 DEF Drop, StreamInv, ClientOK
  <2>2. /\ wire' \in Seq(Items) /\ Len(wire') <= Len(wire)
        /\ \A i \in 1 .. Len(wire') : i \in 1 .. Len(wire) /\ wire'[i] = wire[i]
    BY <2>1, SeveredIs
  <2> QED BY <1>6, <2>2, LetGo DEF Drop
<1>7. CASE Disconnect \/ DeadMan
  <2>1. /\ wire' = <<>> /\ sub' = FALSE /\ UNCHANGED <<engineVars, clientVars, unseen>>
    BY <1>7 DEF Disconnect, DeadMan, HangUp
  <2>2. wire' \in Seq(Items) /\ Len(wire') = 0 /\ Len(wire) \in Nat
    BY <2>1 DEF StreamInv, ClientOK
  <2>3. \A i \in 1 .. Len(wire') : i \in 1 .. Len(wire) /\ wire'[i] = wire[i]
    BY <2>2
  <2>4. Len(wire') <= Len(wire)
    BY <2>2
  <2> QED BY <2>1, <2>2, <2>3, <2>4, LetGo
<1>8. CASE Receive
  BY <1>8, ReceiveOrder
<1>9. CASE Resync \/ Detour
  BY <1>9, FetchOrder
<1>10. CASE UNCHANGED vars
  BY <1>10, StreamStutter
<1> QED BY <1>1, <1>2, <1>3, <1>4, <1>5, <1>6, <1>7, <1>8, <1>9, <1>10 DEF Next

LEMMA StreamIsInvariant == Spec => []StreamInv
<1>1. Init => StreamInv
  BY EngineInit, ClientInit, OrderInit DEF StreamInv
<1>2. StreamInv /\ [Next]_vars => StreamInv'
  BY EngineNext, ClientNext, OrderNext DEF StreamInv, EngineInv
<1> QED BY <1>1, <1>2, PTL DEF Spec

(* Every unreplayable loss is loud: an event the cursor has moved past was *)
(* applied or fetched, or a forced resync is due, whatever is evicted, cut *)
(* off, restarted and resumed (stream-cursor.ts, ReplayBuffer).            *)
THEOREM LossIsLoud == Spec => []NoSilentLoss
<1>1. StreamInv => NoSilentLoss
  BY DEF StreamInv, OrderInv
<1> QED BY <1>1, StreamIsInvariant, PTL

(* The ids on a connection never decrease: what a replay, a heartbeat and  *)
(* the live frames bring is in the order of the bus (handlers/global.ts).  *)
THEOREM IdsAscend == Spec => []IdsNeverDecrease
<1>1. StreamInv => IdsNeverDecrease
  BY DEF StreamInv, OrderInv
<1> QED BY <1>1, StreamIsInvariant, PTL

(* The client applies every event after the last one it applied, across    *)
(* any number of connections with replay (stream-cursor.ts frame).         *)
THEOREM AppliedOnceInOrder == Spec => []AppliedInOrder
<1>1. StreamInv => AppliedInOrder
  <2> SUFFICES ASSUME StreamInv, wire # <<>>, Head(wire).type = "event", ~ Behind(Head(wire)),
                      AtOrBehind(Head(wire).at, last)
               PROVE  FALSE
    BY DEF AppliedInOrder
  <2>0. EngineOK /\ ClientOK
    BY DEF StreamInv, EngineInv
  <2>1. 1 \in 1 .. Len(wire) /\ Head(wire) = wire[1]
    BY <2>0 DEF ClientOK
  <2>2. wire[1].type = "event" /\ ~ Behind(wire[1]) /\ AtOrBehind(wire[1].at, last)
    BY <2>1
  <2>3. ~ IsControl(wire[1]) /\ wire[1].type # "reset"
    BY <2>2 DEF IsControl, ControlTypes
  <2>4. /\ wire[1].at.epoch \in Int /\ wire[1].at.seq \in Int /\ wire[1].at.seq >= 1
        /\ wire[1].at.epoch >= 0
        /\ pos # None => pos.epoch <= wire[1].at.epoch
    BY <2>0, <2>1, <2>3, Kinds, PositionIs, BoundsAssumption
       DEF StreamInv, OrderInv, EventsCount, OneRun
  <2>5. CASE pos = None
    BY <2>2, <2>4, <2>5 DEF StreamInv, OrderInv, LastPassed, AtOrBehind
  <2>6. CASE pos # None
    <3>1. AtOrBehind(last, pos)
      BY <2>6 DEF StreamInv, OrderInv, LastPassed
    <3>2. wire[1].at.epoch = pos.epoch => wire[1].at.seq > pos.seq
      BY <2>0, <2>2, <2>3, <2>4, <2>6, Kinds DEF Behind, Baseline
    <3> QED BY <2>0, <2>2, <2>4, <2>6, <3>1, <3>2, Kinds DEF AtOrBehind
  <2> QED BY <2>5, <2>6
<1> QED BY <1>1, StreamIsInvariant, PTL

-----------------------------------------------------------------------------
(* What is on the way skips nothing that was not lost                      *)

\* The sequences of this epoch that the buffer can still replay.
Due == (floor + 1 .. seq) \ holes

\* Sequence n is among items i + 1 .. j of w.
Brings(w, i, j, n) == \E k \in i + 1 .. j : w[k].at.seq = n /\ ~ IsControl(w[k])

\* Nothing after item i overtakes sequence n, and n is on the way while more can come.
Carries(i, n) ==
    /\ \A j \in i + 1 .. Len(wire) : n <= wire[j].at.seq => Brings(wire, i, j, n)
    /\ sub => Brings(wire, i, Len(wire), n)

\* What is on the way skips nothing that is due.
Chain ==
    \A i \in 1 .. Len(wire) : wire[i].at.epoch = epoch =>
        \A n \in Due : wire[i].at.seq < n => Carries(i, n)

Announced == wire # <<>> /\ wire[1].type = "reset"

\* Nor does it skip anything after the cursor, but for an announced loss.
Continues ==
    pos # None /\ bare /\ pos.epoch = epoch /\ ~ Announced =>
        \A n \in Due : pos.seq < n => Carries(0, n)

\* A reset is on its way only to a cursor that could not be served.
ResetHasCause ==
    pos # None /\ bare /\ pos.epoch = epoch /\ Announced => pos.seq < floor

CauseInv == Chain /\ Continues /\ ResetHasCause

LEMMA StreamKinds ==
    ASSUME StreamInv
    PROVE  /\ EngineOK /\ ClientOK /\ OrderInv
           /\ floor \in Int /\ seq \in Int /\ epoch \in Int /\ wire \in Seq(Items)
           /\ Len(wire) \in Nat /\ sub \in BOOLEAN
           /\ \A i \in 1 .. Len(wire) :
                 wire[i] \in Items /\ wire[i].at.epoch \in Int /\ wire[i].at.seq \in Int
           /\ pos # None => pos.epoch \in Int /\ pos.seq \in Int
<1>1. EngineOK /\ ClientOK /\ OrderInv
  BY DEF StreamInv, EngineInv
<1>2. floor \in Int /\ wire \in Seq(Items) /\ Len(wire) \in Nat /\ sub \in BOOLEAN
  BY <1>1, BoundsAssumption DEF EngineOK, ClientOK
<1> QED BY <1>1, <1>2, Kinds

\* Reading items and losing the last ones leaves what the others bring.
LEMMA CarriesKept ==
    ASSUME NEW d \in Nat, NEW i \in Nat, NEW n \in Int, wire \in Seq(Items), wire' \in Seq(Items),
           \A k \in 1 .. Len(wire') : k + d \in 1 .. Len(wire) /\ wire'[k] = wire[k + d],
           sub' => sub /\ Len(wire') + d = Len(wire),
           i <= Len(wire'), Carries(i + d, n)
    PROVE  Carries(i, n)'
<1>0. Len(wire) \in Nat /\ Len(wire') \in Nat
  OBVIOUS
<1>1. ASSUME NEW j \in i .. Len(wire'), Brings(wire, i + d, j + d, n)
      PROVE  Brings(wire', i, j, n)
  <2>1. PICK k \in i + d + 1 .. j + d : wire[k].at.seq = n /\ ~ IsControl(wire[k])
    BY <1>1 DEF Brings
  <2>2. k - d \in i + 1 .. j /\ k - d \in 1 .. Len(wire') /\ (k - d) + d = k
    BY <1>0, <2>1
  <2>3. wire'[k - d] = wire[k]
    BY <2>2
  <2> QED BY <2>1, <2>2, <2>3 DEF Brings
<1>2. ASSUME NEW j \in i + 1 .. Len(wire'), n <= wire'[j].at.seq
      PROVE  Brings(wire', i, j, n)
  <2>1. j \in 1 .. Len(wire') /\ j + d \in i + d + 1 .. Len(wire) /\ wire'[j] = wire[j + d]
    BY <1>0
  <2>2. Brings(wire, i + d, j + d, n)
    BY <1>2, <2>1 DEF Carries
  <2> QED BY <1>0, <1>1, <2>1, <2>2
<1>3. ASSUME sub'
      PROVE  Brings(wire', i, Len(wire'), n)
  <2>1. Brings(wire, i + d, Len(wire') + d, n)
    BY <1>3 DEF Carries
  <2> QED BY <1>0, <1>1, <2>1
<1> QED BY <1>2, <1>3 DEF Carries

\* An item that is added takes nothing away.
LEMMA CarriesMore ==
    ASSUME NEW i \in Nat, NEW n \in Int, wire \in Seq(Items), NEW x \in Items, sub,
           wire' = Append(wire, x), Carries(i, n)
    PROVE  Carries(i, n)'
<1>0. /\ Len(wire) \in Nat /\ Len(wire') = Len(wire) + 1
      /\ \A k \in 1 .. Len(wire) : wire'[k] = wire[k]
  BY AppendedIs
<1>1. PICK k \in i + 1 .. Len(wire) : wire[k].at.seq = n /\ ~ IsControl(wire[k])
  BY DEF Carries, Brings
<1>2. wire'[k].at.seq = n /\ ~ IsControl(wire'[k])
  BY <1>0, <1>1
<1>3. ASSUME NEW j \in i + 1 .. Len(wire'), n <= wire'[j].at.seq
      PROVE  Brings(wire', i, j, n)
  <2>1. CASE j = Len(wire) + 1
    <3>1. k \in i + 1 .. j
      BY <1>0, <1>1, <2>1
    <3> QED BY <1>2, <3>1 DEF Brings
  <2>2. CASE j \in i + 1 .. Len(wire)
    <3>1. wire'[j] = wire[j]
      BY <1>0, <2>2
    <3>2. Brings(wire, i, j, n)
      BY <1>3, <2>2, <3>1 DEF Carries
    <3>3. PICK m \in i + 1 .. j : wire[m].at.seq = n /\ ~ IsControl(wire[m])
      BY <3>2 DEF Brings
    <3>4. wire'[m] = wire[m]
      BY <1>0, <2>2, <3>3
    <3> QED BY <3>3, <3>4 DEF Brings
  <2> QED BY <1>0, <2>1, <2>2
<1>4. Brings(wire', i, Len(wire'), n)
  <2>1. k \in i + 1 .. Len(wire')
    BY <1>0, <1>1
  <2> QED BY <1>2, <2>1 DEF Brings
<1> QED BY <1>3, <1>4 DEF Carries

\* The item of a sequence that is new brings it.
LEMMA CarriesNew ==
    ASSUME NEW i \in Nat, NEW n \in Int, wire \in Seq(Items), NEW x \in Items, i <= Len(wire),
           wire' = Append(wire, x), x.at.seq = n, ~ IsControl(x),
           \A j \in i + 1 .. Len(wire) : ~ (n <= wire[j].at.seq)
    PROVE  Carries(i, n)'
<1>0. /\ Len(wire) \in Nat /\ Len(wire') = Len(wire) + 1 /\ wire'[Len(wire) + 1] = x
      /\ \A k \in 1 .. Len(wire) : wire'[k] = wire[k]
  BY AppendedIs
<1>1. Brings(wire', i, Len(wire) + 1, n)
  <2>1. Len(wire) + 1 \in i + 1 .. Len(wire) + 1
    BY <1>0
  <2> QED BY <1>0, <2>1 DEF Brings
<1>2. ASSUME NEW j \in i + 1 .. Len(wire'), n <= wire'[j].at.seq
      PROVE  j = Len(wire) + 1
  <2>1. CASE j \in i + 1 .. Len(wire)
    BY <1>0, <1>2, <2>1
  <2> QED BY <1>0, <2>1
<1> QED BY <1>0, <1>1, <1>2 DEF Carries

\* Steps that lose frames, the last items or the connection, and no cursor.
LEMMA CauseKept ==
    ASSUME StreamInv, CauseInv, Due' \subseteq Due, floor' \in Int, floor <= floor',
           epoch' = epoch, wire' \in Seq(Items),
           \A i \in 1 .. Len(wire') : i \in 1 .. Len(wire) /\ wire'[i] = wire[i],
           sub' => sub /\ wire' = wire,
           wire' # wire => sub' = FALSE,
           pos' = pos, bare' => bare
    PROVE  CauseInv'
<1>0. /\ floor \in Int /\ seq \in Int /\ wire \in Seq(Items) /\ Len(wire) \in Nat
      /\ Len(wire') \in Nat
      /\ pos # None => pos.epoch \in Int /\ pos.seq \in Int
  BY StreamKinds
<1>1. ASSUME NEW i \in Nat, NEW n \in Int, i <= Len(wire'), Carries(i, n)
      PROVE  Carries(i, n)'
  <2>1. \A k \in 1 .. Len(wire') : k + 0 \in 1 .. Len(wire) /\ wire'[k] = wire[k + 0]
    BY <1>0
  <2>2. sub' => sub /\ Len(wire') + 0 = Len(wire)
    BY <1>0
  <2>3. Carries(i + 0, n)
    BY <1>1
  <2> QED BY <1>0, <1>1, <2>1, <2>2, <2>3, CarriesKept
<1>2. \A n \in Due : n \in Int
  BY <1>0 DEF Due
<1>3. Chain'
  <2> SUFFICES ASSUME NEW i \in 1 .. Len(wire'), wire'[i].at.epoch = epoch',
                      NEW n \in Due', wire'[i].at.seq < n
               PROVE  Carries(i, n)'
    BY DEF Chain
  <2>1. i \in 1 .. Len(wire) /\ wire[i].at.epoch = epoch /\ wire[i].at.seq < n /\ n \in Due
    OBVIOUS
  <2>2. Carries(i, n)
    BY <2>1 DEF CauseInv, Chain
  <2>3. i \in Nat /\ i <= Len(wire') /\ n \in Int
    BY <1>2, <2>1
  <2> QED BY <1>1, <2>2, <2>3
<1>4. wire' = <<>> \/ (Announced' <=> Announced)
  <2>1. wire' # <<>> => 1 \in 1 .. Len(wire')
    BY <1>0
  <2>2. 1 \in 1 .. Len(wire) => wire # <<>>
    OBVIOUS
  <2> QED BY <2>1, <2>2 DEF Announced
<1>5. Continues'
  <2> SUFFICES ASSUME pos # None, bare', bare, pos.epoch = epoch, ~ Announced',
                      NEW n \in Due', pos.seq < n
               PROVE  Carries(0, n)'
    BY DEF Continues
  <2>1. n \in Due /\ n \in Int
    BY <1>2
  <2>2. CASE ~ Announced
    <3>1. Carries(0, n)
      BY <2>1, <2>2 DEF CauseInv, Continues
    <3>2. 0 \in Nat /\ 0 <= Len(wire')
      BY <1>0
    <3> QED BY <1>1, <2>1, <3>1, <3>2
  <2>3. CASE Announced
    <3>1. wire' = <<>> /\ wire # <<>>
      BY <1>4, <2>3 DEF Announced
    <3>2. sub' = FALSE /\ Len(wire') = 0
      BY <3>1
    <3> QED BY <3>2 DEF Carries
  <2> QED BY <2>2, <2>3
<1>6. ResetHasCause'
  <2> SUFFICES ASSUME pos # None, bare', bare, pos.epoch = epoch, Announced'
               PROVE  pos.seq < floor'
    BY DEF ResetHasCause
  <2>1. Announced
    BY <1>4 DEF Announced
  <2>2. pos.seq < floor
    BY <2>1 DEF CauseInv, ResetHasCause
  <2> QED BY <1>0, <2>2
<1> QED BY <1>3, <1>5, <1>6 DEF CauseInv

\* A new sequence is brought, or has no frame.
LEMMA CauseHandOut ==
    ASSUME StreamInv, CauseInv, NEW type \in {"event", "sync"}, seq < MaxSeq, seq' = seq + 1,
           epoch' = epoch, Push(type, seq + 1) \/ Skip(seq + 1),
           UNCHANGED <<sub, clientVars>>
    PROVE  CauseInv'
<1> DEFINE x == [type |-> type, at |-> At(seq + 1)]
<1>0. /\ floor \in Int /\ seq \in Int /\ wire \in Seq(Items) /\ Len(wire) \in Nat
      /\ EngineOK /\ ClientOK /\ OrderInv /\ sub \in BOOLEAN
      /\ pos # None => pos.epoch \in Int /\ pos.seq \in Int
      /\ \A i \in 1 .. Len(wire) : wire[i].at.epoch \in Int /\ wire[i].at.seq \in Int
      /\ pos' = pos /\ bare' = bare
  BY StreamKinds DEF clientVars
<1>a. /\ seq + 1 \in 1 .. MaxSeq /\ seq + 1 \in Int
      /\ type \in FrameTypes /\ type # "copy"
  <2>1. seq + 1 \in 1 .. MaxSeq /\ seq + 1 \in Int
    BY <1>0, BoundsAssumption DEF EngineOK
  <2> QED BY <2>1 DEF FrameTypes
<1>b. x \in Items /\ x.at.seq = seq + 1 /\ ~ IsControl(x) /\ x.type # "reset"
  <2>1. At(seq + 1) \in Positions
    BY <1>0, <1>a, PositionIs, BoundsAssumption DEF EngineOK, Epochs, At
  <2> QED BY <2>1, PositionIs DEF Items, IsControl, ControlTypes
<1> HIDE DEF x
<1>1. CASE Skip(seq + 1)
  <2>1. wire' = wire /\ floor' = floor /\ holes' = holes \cup {seq + 1}
    BY <1>1 DEF Skip
  <2>2. Due' \subseteq Due
    <3>1. \A n \in floor' + 1 .. seq' : n = seq + 1 \/ n \in floor + 1 .. seq
      BY <1>0, <2>1
    <3> QED BY <2>1, <3>1 DEF Due
  <2>3. \A i \in 1 .. Len(wire') : i \in 1 .. Len(wire) /\ wire'[i] = wire[i]
    BY <2>1
  <2> QED BY <1>0, <2>1, <2>2, <2>3, CauseKept
<1>2. CASE Push(type, seq + 1)
  <2>1. floor' \in Int /\ floor <= floor' /\ holes' = holes
    <3>1. floor' \in 0 .. MaxSeq /\ floor' >= floor /\ holes' = holes
      BY <1>0, <1>2, <1>a, PushIs, Zenon
    <3> QED BY <1>0, <3>1, BoundsAssumption
  <2>2. \A n \in Due' : (n \in Due \/ n = seq + 1) /\ n \in Int
    <3>1. Due' = (floor' + 1 .. seq + 1) \ holes
      BY <2>1 DEF Due
    <3>a. \A f \in Int, g \in Int, s \in Int : f <= g =>
             \A n \in g + 1 .. s + 1 : (n \in f + 1 .. s \/ n = s + 1) /\ n \in Int
      OBVIOUS
    <3>2. \A n \in floor' + 1 .. seq + 1 : (n \in floor + 1 .. seq \/ n = seq + 1) /\ n \in Int
      BY <1>0, <2>1, <3>a
    <3>3. \A n \in floor + 1 .. seq : n \in holes \/ n \in Due
      BY DEF Due
    <3> QED BY <3>1, <3>2, <3>3
  <2>3. CASE sub
    <3>1. wire' = Append(wire, x)
      BY <1>0, <1>2, <1>a, <2>3, PushIs DEF x
    <3>2. /\ Len(wire') = Len(wire) + 1 /\ wire'[Len(wire) + 1] = x
          /\ \A i \in 1 .. Len(wire) : wire'[i] = wire[i]
      BY <1>0, <1>b, <3>1, AppendedIs
    <3>3. \A i \in 1 .. Len(wire) : wire[i].at.seq <= seq
      BY <1>0, <2>3, PositionIs DEF OrderInv, OneRun, Bounded, AtOrBehind, At
    <3>4. ASSUME NEW i \in Nat, NEW n \in Int, n = seq + 1, i <= Len(wire)
          PROVE  Carries(i, n)'
      <4>1. \A j \in i + 1 .. Len(wire) : ~ (n <= wire[j].at.seq)
        BY <1>0, <3>3, <3>4
      <4>2. ~ IsControl(x) /\ x \in Items /\ x.at.seq = n
        BY <1>b, <3>4
      <4> QED BY <1>0, <3>1, <3>4, <4>1, <4>2, CarriesNew
    <3>5. ASSUME NEW i \in Nat, NEW n \in Int, Carries(i, n)
          PROVE  Carries(i, n)'
      BY <1>0, <1>b, <2>3, <3>1, <3>5, CarriesMore
    <3>6. Chain'
      <4> SUFFICES ASSUME NEW i \in 1 .. Len(wire'), wire'[i].at.epoch = epoch',
                          NEW n \in Due', wire'[i].at.seq < n
                   PROVE  Carries(i, n)'
        BY DEF Chain
      <4>1. i \in 1 .. Len(wire) /\ wire'[i] = wire[i]
        <5>1. i # Len(wire) + 1
          BY <1>0, <1>b, <2>2, <3>2 DEF Due
        <5> QED BY <1>0, <3>2, <5>1
      <4>2. CASE n = seq + 1
        <5>1. i \in Nat /\ i <= Len(wire)
          BY <4>1
        <5> QED BY <2>2, <3>4, <4>2, <5>1
      <4>3. CASE n \in Due
        <5>1. Carries(i, n)
          BY <4>1, <4>3 DEF CauseInv, Chain
        <5> QED BY <2>2, <3>5, <4>1, <5>1
      <4> QED BY <2>2, <4>2, <4>3
    <3>7. Announced' <=> Announced
      <4>1. CASE wire = <<>>
        BY <1>b, <3>2, <4>1 DEF Announced
      <4>2. CASE wire # <<>>
        <5>1. 1 \in 1 .. Len(wire) /\ wire' # <<>>
          BY <1>0, <3>2, <4>2
        <5> QED BY <3>2, <4>2, <5>1 DEF Announced
      <4> QED BY <4>1, <4>2
    <3>8. Continues'
      <4> SUFFICES ASSUME pos # None, bare, pos.epoch = epoch, ~ Announced,
                          NEW n \in Due', pos.seq < n
                   PROVE  Carries(0, n)'
        BY <1>0, <3>7 DEF Continues
      <4>1. CASE n = seq + 1
        <5>1. 0 \in Nat /\ 0 <= Len(wire)
          BY <1>0
        <5> QED BY <2>2, <3>4, <4>1, <5>1
      <4>2. CASE n \in Due
        <5>1. Carries(0, n)
          BY <4>2 DEF CauseInv, Continues
        <5> QED BY <2>2, <3>5, <5>1
      <4> QED BY <2>2, <4>1, <4>2
    <3>9. ResetHasCause'
      BY <1>0, <2>1, <3>7 DEF CauseInv, ResetHasCause
    <3> QED BY <3>6, <3>8, <3>9 DEF CauseInv
  <2>4. CASE ~ sub
    <3>1. wire' = wire /\ ~ sub'
      BY <1>0, <1>2, <1>a, <2>4, PushIs
    <3>2. ASSUME NEW i \in Nat, NEW n \in Due', n \in Due => Carries(i, n),
                 n = seq + 1 => \A j \in 1 .. Len(wire) : wire[j].at.seq <= seq
          PROVE  Carries(i, n)'
      <4>1. CASE n \in Due
        BY <3>1, <3>2, <4>1 DEF Carries
      <4>2. CASE n = seq + 1
        <5>1. \A j \in i + 1 .. Len(wire) : ~ (n <= wire[j].at.seq)
          BY <1>0, <3>2, <4>2
        <5> QED BY <3>1, <5>1 DEF Carries
      <4> QED BY <2>2, <4>1, <4>2
    <3>3. \A j \in 1 .. Len(wire) : wire[j].at.epoch = epoch => wire[j].at.seq <= seq
      BY <1>0, PositionIs DEF OrderInv, Bounded, AtOrBehind
    <3>4. Chain'
      <4> SUFFICES ASSUME NEW i \in 1 .. Len(wire), wire[i].at.epoch = epoch,
                          NEW n \in Due', wire[i].at.seq < n
                   PROVE  Carries(i, n)'
        BY <3>1 DEF Chain
      <4>1. \A j \in 1 .. Len(wire) : wire[j].at.seq <= seq
        BY <1>0, <3>3 DEF OrderInv, OneRun
      <4>2. n \in Due => Carries(i, n)
        BY DEF CauseInv, Chain
      <4> QED BY <3>2, <4>1, <4>2
    <3>5. Continues'
      <4> SUFFICES ASSUME pos # None, bare, pos.epoch = epoch, ~ Announced,
                          NEW n \in Due', pos.seq < n
                   PROVE  Carries(0, n)'
        BY <1>0, <3>1 DEF Continues, Announced
      <4>1. \A j \in 1 .. Len(wire) : wire[j].at.seq <= seq
        <5>1. \A j \in 1 .. Len(wire) : wire[j].at.epoch = epoch
          BY <1>0, PositionIs, StreamKinds DEF OrderInv, OneRun, Bounded, AtOrBehind
        <5> QED BY <3>3, <5>1
      <4>2. n \in Due => Carries(0, n)
        BY DEF CauseInv, Continues
      <4> QED BY <3>2, <4>1, <4>2
    <3>6. ResetHasCause'
      BY <1>0, <2>1, <3>1 DEF CauseInv, ResetHasCause, Announced
    <3> QED BY <3>4, <3>5, <3>6 DEF CauseInv
  <2> QED BY <1>0, <2>3, <2>4
<1> QED BY <1>1, <1>2

\* A heartbeat follows all that was handed out.
LEMMA CauseHeartbeat ==
    ASSUME StreamInv, CauseInv, Heartbeat
    PROVE  CauseInv'
<1> DEFINE x == Control("heartbeat", At(seq))
<1>0. /\ wire \in Seq(Items) /\ Len(wire) \in Nat /\ EngineOK /\ seq \in Int /\ floor \in Int
  BY StreamKinds
<1>a. sub /\ wire' = Append(wire, x) /\ UNCHANGED <<epoch, seq, floor, holes, sub, pos, bare>>
  BY DEF Heartbeat, engineVars, clientVars
<1>b. x \in Items /\ x.type = "heartbeat" /\ x.at.epoch = epoch /\ x.at.seq = seq
  BY <1>0, ItemIs, PositionIs, BoundsAssumption DEF ControlTypes, EngineOK, Epochs, At
<1> HIDE DEF x
<1>c. /\ Len(wire') = Len(wire) + 1 /\ wire'[Len(wire) + 1] = x
      /\ \A i \in 1 .. Len(wire) : wire'[i] = wire[i]
  BY <1>0, <1>a, <1>b, AppendedIs
<1>d. Due' = Due /\ \A n \in Due : n \in Int /\ n <= seq
  BY <1>0, <1>a DEF Due
<1>1. ASSUME NEW i \in Nat, NEW n \in Int, Carries(i, n)
      PROVE  Carries(i, n)'
  BY <1>0, <1>1, <1>a, <1>b, CarriesMore
<1>2. Chain'
  <2> SUFFICES ASSUME NEW i \in 1 .. Len(wire'), wire'[i].at.epoch = epoch,
                      NEW n \in Due, wire'[i].at.seq < n
               PROVE  Carries(i, n)'
    BY <1>a, <1>d DEF Chain
  <2>1. i \in 1 .. Len(wire) /\ wire'[i] = wire[i]
    <3>1. i # Len(wire) + 1
      BY <1>0, <1>b, <1>c, <1>d
    <3> QED BY <1>0, <1>c, <3>1
  <2>2. Carries(i, n)
    BY <2>1 DEF CauseInv, Chain
  <2> QED BY <1>1, <1>d, <2>1, <2>2
<1>3. Announced' <=> Announced
  <2>1. CASE wire = <<>>
    BY <1>b, <1>c, <2>1 DEF Announced
  <2>2. CASE wire # <<>>
    <3>1. 1 \in 1 .. Len(wire) /\ wire' # <<>>
      BY <1>0, <1>c, <2>2
    <3> QED BY <1>c, <2>2, <3>1 DEF Announced
  <2> QED BY <2>1, <2>2
<1>4. Continues'
  <2> SUFFICES ASSUME pos # None, bare, pos.epoch = epoch, ~ Announced,
                      NEW n \in Due, pos.seq < n
               PROVE  Carries(0, n)'
    BY <1>a, <1>d, <1>3 DEF Continues
  <2>1. Carries(0, n)
    BY DEF CauseInv, Continues
  <2> QED BY <1>1, <1>d, <2>1
<1>5. ResetHasCause'
  BY <1>a, <1>3 DEF CauseInv, ResetHasCause
<1> QED BY <1>2, <1>4, <1>5 DEF CauseInv

\* After a restart nothing of the new run is on the way.
LEMMA CauseRestart ==
    ASSUME StreamInv, CauseInv, Restart
    PROVE  CauseInv'
<1>0. /\ epoch \in Int /\ EngineOK /\ ClientOK /\ OrderInv /\ wire \in Seq(Items)
      /\ \A i \in 1 .. Len(wire) : wire[i].at.epoch \in Int
      /\ pos # None => pos.epoch \in Int
  BY StreamKinds
<1>1. epoch' = epoch + 1 /\ pos' = pos
  BY DEF Restart, clientVars
<1>2. \A i \in 1 .. Len(wire') : i \in 1 .. Len(wire) /\ wire'[i] = wire[i]
  BY <1>0, SeveredIs DEF Restart
<1>3. \A i \in 1 .. Len(wire) : wire[i].at.epoch <= epoch
  BY <1>0, PositionIs DEF OrderInv, Bounded, AtOrBehind
<1>4. pos # None => pos.epoch <= epoch
  BY <1>0, PositionIs DEF OrderInv, Bounded, AtOrBehind
<1>5. \A i \in 1 .. Len(wire') : wire'[i].at.epoch # epoch'
  BY <1>0, <1>1, <1>2, <1>3
<1>6. pos' # None => pos'.epoch # epoch'
  BY <1>0, <1>1, <1>4
<1> QED BY <1>5, <1>6 DEF CauseInv, Chain, Continues, ResetHasCause

\* What the client reads, it either has or moves to.
LEMMA CauseReceive ==
    ASSUME StreamInv, CauseInv, Receive
    PROVE  CauseInv'
<1> DEFINE item == wire[1]
<1>0. /\ wire \in Seq(Items) /\ Len(wire) \in Nat /\ EngineOK /\ ClientOK /\ OrderInv
      /\ seq \in Int /\ floor \in Int
      /\ \A i \in 1 .. Len(wire) :
            wire[i] \in Items /\ wire[i].at.epoch \in Int /\ wire[i].at.seq \in Int
      /\ pos # None => pos.epoch \in Int /\ pos.seq \in Int
  BY StreamKinds
<1>a. UNCHANGED <<epoch, seq, floor, holes, sub>> /\ wire # <<>> /\ wire' = Tail(wire)
  BY DEF Receive, engineVars
<1>b. /\ wire' \in Seq(Items) /\ 1 \in 1 .. Len(wire) /\ Head(wire) = item
      /\ Len(wire') = Len(wire) - 1 /\ Len(wire') \in Nat
      /\ \A i \in 1 .. Len(wire') : i + 1 \in 1 .. Len(wire) /\ wire'[i] = wire[i + 1]
  BY <1>0, <1>a, TailIs
<1>c. \/ Behind(item) /\ UNCHANGED <<pos, bare>>
      \/ ~ Behind(item) /\ pos' = item.at
  BY <1>b DEF Receive, ReceiveBehind, ReceiveNext, clientVars
<1>d. Due' = Due /\ \A n \in Due : n \in Int
  BY <1>0, <1>a DEF Due
<1> HIDE DEF item
<1>1. ASSUME NEW i \in Nat, NEW n \in Int, i <= Len(wire'), Carries(i + 1, n)
      PROVE  Carries(i, n)'
  <2>1. sub' => sub /\ Len(wire') + 1 = Len(wire)
    BY <1>a, <1>b
  <2> QED BY <1>0, <1>1, <1>b, <2>1, CarriesKept
<1>2. Chain'
  <2> SUFFICES ASSUME NEW i \in 1 .. Len(wire'), wire'[i].at.epoch = epoch,
                      NEW n \in Due, wire'[i].at.seq < n
               PROVE  Carries(i, n)'
    BY <1>a, <1>d DEF Chain
  <2>1. i + 1 \in 1 .. Len(wire) /\ wire'[i] = wire[i + 1]
    BY <1>b
  <2>2. Carries(i + 1, n)
    BY <2>1 DEF CauseInv, Chain
  <2>3. i \in Nat /\ i <= Len(wire')
    OBVIOUS
  <2> QED BY <1>1, <1>d, <2>2, <2>3
<1>3. ~ Announced'
  <2>1. wire' # <<>> => 1 \in 1 .. Len(wire')
    BY <1>b
  <2>2. wire' # <<>> => 1 + 1 \in 1 .. Len(wire) /\ wire'[1] = wire[1 + 1]
    BY <1>b, <2>1
  <2>3. 1 + 1 \in 1 .. Len(wire) => wire[1 + 1].type # "reset"
    BY <1>0 DEF OrderInv, ResetFirst
  <2> QED BY <2>2, <2>3 DEF Announced
<1>4. Continues'
  <2> SUFFICES ASSUME pos' # None, bare', pos'.epoch = epoch, NEW n \in Due, pos'.seq < n
               PROVE  Carries(0, n)'
    BY <1>a, <1>d DEF Continues
  <2>0. 0 \in Nat /\ 0 <= Len(wire') /\ n \in Int /\ 0 + 1 = 1
    BY <1>b, <1>d
  <2>1. CASE ~ Behind(item) /\ pos' = item.at
    <3>1. Carries(1, n)
      BY <1>b, <2>1 DEF CauseInv, Chain, item
    <3> QED BY <1>1, <2>0, <3>1
  <2>2. CASE Behind(item) /\ UNCHANGED <<pos, bare>>
    <3>1. item.type # "reset" /\ pos # None /\ item.at.seq <= pos.seq
      BY <1>0, <1>b, <2>2 DEF Behind, Baseline, item
    <3>2. ~ Announced
      BY <3>1 DEF Announced, item
    <3>3. Carries(0, n)
      BY <2>2, <3>1, <3>2 DEF CauseInv, Continues
    <3>4. item.at.seq # n
      BY <1>0, <1>b, <2>0, <2>2, <3>1 DEF item
    <3>5. ASSUME NEW j \in 1 .. Len(wire), Brings(wire, 0, j, n)
          PROVE  Brings(wire, 1, j, n)
      <4>1. PICK k \in 1 .. j : wire[k].at.seq = n /\ ~ IsControl(wire[k])
        BY <3>5 DEF Brings
      <4>2. k \in 1 + 1 .. j
        BY <3>4, <4>1 DEF item
      <4> QED BY <4>1, <4>2 DEF Brings
    <3>6. Carries(1, n)
      <4>1. ASSUME NEW j \in 1 + 1 .. Len(wire), n <= wire[j].at.seq
            PROVE  Brings(wire, 1, j, n)
        <5>1. j \in 0 + 1 .. Len(wire) /\ j \in 1 .. Len(wire)
          BY <1>b
        <5>2. Brings(wire, 0, j, n)
          BY <3>3, <4>1, <5>1 DEF Carries
        <5> QED BY <3>5, <5>1, <5>2
      <4>2. sub => Brings(wire, 1, Len(wire), n)
        <5>1. Len(wire) \in 1 .. Len(wire)
          BY <1>0, <1>b
        <5> QED BY <3>3, <3>5, <5>1 DEF Carries
      <4> QED BY <4>1, <4>2 DEF Carries
    <3> QED BY <1>1, <2>0, <3>6
  <2> QED BY <1>c, <2>1, <2>2
<1>5. ResetHasCause'
  BY <1>3 DEF ResetHasCause
<1> QED BY <1>2, <1>4, <1>5 DEF CauseInv

\* A reset is announced for a cause, and a replay skips nothing that is due.
LEMMA CauseConnect ==
    ASSUME StreamInv, CauseInv, Connect
    PROVE  CauseInv'
<1>0. /\ EngineOK /\ ClientOK /\ OrderInv /\ EngineInv
      /\ floor \in Int /\ seq \in Int /\ epoch \in Int
      /\ pos # None => pos.epoch \in Int /\ pos.seq \in Int
  BY StreamKinds DEF StreamInv
<1>1. /\ UNCHANGED <<epoch, seq, holes, pos, bare>> /\ sub' = TRUE
      /\ wire' \in Seq(Items) /\ Len(wire') \in Nat
  BY <1>0, ConnectIs DEF Connect, clientVars
<1>2. OrderInv' /\ EngineInv'
  BY <1>0, ConnectOrder, ConnectStep
<1>3. floor' \in Int /\ \A n \in Due' : n \in Int /\ n <= seq
  <2>1. floor' \in Int
    BY <1>2, BoundsAssumption DEF EngineInv, EngineOK
  <2>2. Due' \subseteq floor' + 1 .. seq
    BY <1>1 DEF Due
  <2>3. \A n \in floor' + 1 .. seq : n \in Int /\ n <= seq
    BY <1>0, <2>1
  <2> QED BY <2>1, <2>2, <2>3
<1>4. \A n : At(n).epoch = epoch /\ At(n).seq = n
  BY PositionIs
<1>5. CASE /\ pos # None /\ (bare => ~ Servable(pos))
           /\ Len(wire') = 2
           /\ wire'[1] = Control("reset", At(seq)) /\ wire'[2] = Control("connected", At(seq))
  <2>1. \A i \in 1 .. Len(wire') : wire'[i].at.seq = seq
    BY <1>4, <1>5 DEF Control
  <2>2. Chain'
    BY <1>0, <1>1, <1>3, <2>1 DEF Chain
  <2>3. Announced'
    <3>1. wire' # <<>> /\ wire'[1].type = "reset"
      <4>1. wire'[1].type = "reset"
        BY <1>5 DEF Control
      <4>2. \A w \in Seq(Items) : Len(w) = 2 => w # <<>>
        OBVIOUS
      <4> QED BY <1>1, <1>5, <4>1, <4>2
    <3> QED BY <3>1 DEF Announced
  <2>4. ResetHasCause'
    <3> SUFFICES ASSUME pos # None, bare, pos.epoch = epoch
                 PROVE  pos.seq < floor'
      BY <1>1 DEF ResetHasCause
    <3>1. pos.seq <= seq
      BY <1>0, <1>4 DEF OrderInv, Bounded, AtOrBehind
    <3> QED BY <1>0, <1>3, <1>5, <3>1 DEF Servable
  <2> QED BY <2>2, <2>3, <2>4 DEF CauseInv, Continues
<1>6. ASSUME NEW m \in 0 .. MaxSeq, ServedAt(m), Len(wire') >= 1,
             wire'[1] = Control("connected", At(m)),
             \A j \in 2 .. Len(wire') : \E i \in 1 .. Len(frames') :
                wire'[j] = frames'[i] /\ frames'[i].at.seq > m /\ frames'[i].type # "copy",
             \A j, k \in 2 .. Len(wire') : j < k =>
                \E i, l \in 1 .. Len(frames') :
                   /\ i < l
                   /\ wire'[j] = frames'[i] /\ frames'[i].type # "copy"
                   /\ wire'[k] = frames'[l] /\ frames'[l].type # "copy",
             \A i \in 1 .. Len(frames') : frames'[i].at.seq > m /\ frames'[i].type # "copy" =>
                \E j \in 2 .. Len(wire') : wire'[j] = frames'[i]
      PROVE  CauseInv'
  <2>1. /\ wire'[1].type = "connected" /\ wire'[1].at.seq = m /\ m \in Int
        /\ \A i \in 1 .. Len(wire') : i = 1 \/ i \in 2 .. Len(wire')
    BY <1>1, <1>4, <1>6, BoundsAssumption DEF Control
  <2>2. \A i \in 1 .. Len(frames') : frames'[i].at.seq \in Int
    BY <1>0, <1>1, <1>2 DEF OrderInv, FramesInOrder
  <2>3. \A j \in 2 .. Len(wire') : wire'[j].at.seq \in Int /\ wire'[j].at.seq > m
    BY <1>6, <2>2
  <2>4. ASSUME NEW j \in 2 .. Len(wire'), NEW k \in 2 .. Len(wire'), j < k
        PROVE  wire'[j].at.seq < wire'[k].at.seq
    <3>1. PICK i, l \in 1 .. Len(frames') :
             /\ i < l
             /\ wire'[j] = frames'[i] /\ frames'[i].type # "copy"
             /\ wire'[k] = frames'[l] /\ frames'[l].type # "copy"
      BY <1>6, <2>4
    <3> QED BY <1>2, <3>1 DEF OrderInv, FramesInOrder
  <2>5. ASSUME NEW n \in Due', m < n
        PROVE  \E k \in 2 .. Len(wire') : wire'[k].at.seq = n /\ ~ IsControl(wire'[k])
    <3>1. PICK i \in 1 .. Len(frames') :
             frames'[i].at = [epoch |-> epoch', seq |-> n] /\ frames'[i].type # "copy"
      BY <1>2 DEF Due, EngineInv, ServableIsRetained, At
    <3>2. frames'[i].at.seq = n /\ frames'[i].type \in FrameTypes
      BY <1>2, <3>1, ItemIs DEF EngineInv, EngineOK
    <3>3. PICK k \in 2 .. Len(wire') : wire'[k] = frames'[i]
      BY <1>3, <1>6, <2>5, <3>1, <3>2
    <3> QED BY <3>1, <3>2, <3>3 DEF IsControl, ControlTypes, FrameTypes
  <2>6. ASSUME NEW i \in Nat, NEW n \in Due', m < n,
               i # 0 => i \in 1 .. Len(wire') /\ wire'[i].at.seq < n
        PROVE  Carries(i, n)'
    <3>1. PICK k \in 2 .. Len(wire') : wire'[k].at.seq = n /\ ~ IsControl(wire'[k])
      BY <2>5, <2>6
    <3>2. n \in Int /\ k \in Nat
      BY <1>3
    <3>3. i < k
      <4>1. CASE i = 0 \/ i = 1
        BY <4>1
      <4>2. CASE i \in 2 .. Len(wire')
        BY <2>3, <2>4, <2>6, <3>1, <3>2, <4>2
      <4> QED BY <2>1, <2>6, <4>1, <4>2
    <3>4. ASSUME NEW j \in i + 1 .. Len(wire'), n <= wire'[j].at.seq
          PROVE  k <= j
      <4>1. j # 1
        BY <2>1, <2>6, <3>2, <3>4
      <4>2. j \in 2 .. Len(wire')
        BY <1>1, <4>1
      <4>3. ~ (j < k)
        BY <2>3, <2>4, <3>1, <3>2, <3>4, <4>2
      <4> QED BY <3>2, <4>2, <4>3
    <3>5. \A j \in i + 1 .. Len(wire') : n <= wire'[j].at.seq => Brings(wire', i, j, n)
      BY <3>1, <3>2, <3>3, <3>4 DEF Brings
    <3>6. Brings(wire', i, Len(wire'), n)
      BY <1>1, <3>1, <3>2, <3>3 DEF Brings
    <3> QED BY <3>5, <3>6 DEF Carries
  <2>7. Chain'
    <3> SUFFICES ASSUME NEW i \in 1 .. Len(wire'), NEW n \in Due', wire'[i].at.seq < n
                 PROVE  Carries(i, n)'
      BY DEF Chain
    <3>1. m < n /\ i \in Nat
      BY <1>3, <2>1, <2>3
    <3> QED BY <2>6, <3>1
  <2>8. ~ Announced'
    BY <2>1 DEF Announced
  <2>9. Continues'
    <3> SUFFICES ASSUME pos # None, bare, NEW n \in Due', pos.seq < n
                 PROVE  Carries(0, n)'
      BY <1>1 DEF Continues
    <3>1. m = pos.seq
      BY <1>6 DEF ServedAt
    <3> QED BY <2>6, <3>1
  <2> QED BY <2>7, <2>8, <2>9 DEF CauseInv, ResetHasCause
<1> QED BY <1>0, <1>5, <1>6, ConnectIs

LEMMA CauseInit == Init => CauseInv
<1> SUFFICES ASSUME Init PROVE CauseInv
  OBVIOUS
<1>1. pos = None /\ wire = <<>>
  BY DEF Init
<1>2. Len(wire) = 0
  BY <1>1
<1> QED BY <1>1, <1>2 DEF CauseInv, Chain, Continues, ResetHasCause

LEMMA CauseNext == StreamInv /\ CauseInv /\ [Next]_vars => CauseInv'
<1> SUFFICES ASSUME StreamInv, CauseInv, [Next]_vars PROVE CauseInv'
  OBVIOUS
<1>0. /\ EngineOK /\ ClientOK /\ wire \in Seq(Items)
      /\ floor \in Int /\ floor <= floor /\ seq \in Int
  BY StreamKinds
<1>1. CASE EmitEvent
  <2>1. /\ seq < MaxSeq /\ seq' = seq + 1 /\ epoch' = epoch
        /\ Push("event", seq + 1) \/ Skip(seq + 1)
        /\ UNCHANGED <<sub, clientVars>>
    BY <1>1 DEF EmitEvent
  <2> QED BY <2>1, CauseHandOut
<1>2. ASSUME NEW n \in 1 .. MaxSeq, EmitCopy(n) PROVE CauseInv'
  <2>0. UNCHANGED <<epoch, sub, clientVars>>
    BY <1>2 DEF EmitCopy
  <2>1. CASE seq' = seq /\ (Push("copy", n) \/ UNCHANGED <<floor, wire, holes>>)
    <3>1. floor' \in Int /\ floor <= floor' /\ holes' = holes /\ wire' = wire
      <4>1. CASE Push("copy", n)
        <5>1. "copy" \in FrameTypes
          BY DEF FrameTypes
        <5>2. floor' \in 0 .. MaxSeq /\ floor' >= floor /\ holes' = holes /\ wire' = wire
          BY <1>0, <4>1, <5>1, PushIs, Zenon
        <5> QED BY <1>0, <5>2, BoundsAssumption
      <4> QED BY <1>0, <2>1, <4>1
    <3>2. Due' \subseteq Due
      BY <1>0, <2>1, <3>1 DEF Due
    <3>3. pos' = pos /\ (bare' => bare)
      BY <2>0 DEF clientVars
    <3> QED BY <1>0, <2>0, <3>1, <3>2, <3>3, CauseKept
  <2>2. CASE seq < MaxSeq /\ seq' = seq + 1 /\ (Push("sync", seq + 1) \/ Skip(seq + 1))
    BY <2>0, <2>2, CauseHandOut
  <2> QED BY <1>2, <2>1, <2>2 DEF EmitCopy
<1>3. CASE Restart
  BY <1>3, CauseRestart
<1>4. CASE Connect
  BY <1>4, CauseConnect
<1>5. CASE Heartbeat
  BY <1>5, CauseHeartbeat
<1>6. CASE Receive
  BY <1>6, CauseReceive
<1>7. ASSUME UNCHANGED engineVars, pos' = pos, bare' => bare, wire' \in Seq(Items),
             \A i \in 1 .. Len(wire') : i \in 1 .. Len(wire) /\ wire'[i] = wire[i],
             sub' => sub /\ wire' = wire, wire' # wire => sub' = FALSE
      PROVE  CauseInv'
  <2>1. Due' = Due /\ floor' = floor /\ epoch' = epoch
    BY <1>7 DEF engineVars, Due
  <2> QED BY <1>0, <1>7, <2>1, CauseKept
<1>8. CASE Drop
  <2>1. /\ UNCHANGED engineVars /\ pos' = pos /\ (bare' => bare) /\ sub' = FALSE /\ Severed
    BY <1>8 DEF Drop, clientVars
  <2>2. /\ wire' \in Seq(Items)
        /\ \A i \in 1 .. Len(wire') : i \in 1 .. Len(wire) /\ wire'[i] = wire[i]
    BY <1>0, <2>1, SeveredIs
  <2> QED BY <1>7, <2>1, <2>2
<1>9. CASE Disconnect \/ DeadMan
  <2>1. /\ UNCHANGED engineVars /\ pos' = pos /\ (bare' => bare) /\ sub' = FALSE /\ wire' = <<>>
    BY <1>9 DEF Disconnect, DeadMan, HangUp, clientVars
  <2>2. /\ wire' \in Seq(Items)
        /\ \A i \in 1 .. Len(wire') : i \in 1 .. Len(wire) /\ wire'[i] = wire[i]
    BY <2>1
  <2> QED BY <1>7, <2>1, <2>2
<1>10. CASE Resync \/ Detour \/ UNCHANGED vars
  <2>1. /\ UNCHANGED engineVars /\ pos' = pos /\ (bare' => bare) /\ sub' = sub /\ wire' = wire
    BY <1>10 DEF Resync, Detour, vars, clientVars
  <2> QED BY <1>0, <1>7, <2>1
<1> QED BY <1>1, <1>2, <1>3, <1>4, <1>5, <1>6, <1>8, <1>9, <1>10 DEF Next

\* What the client reads makes a resync due only for a loss.
LEMMA CauseOfResync ==
    ASSUME StreamInv, CauseInv, Receive, pos # None, bare, ~ owed, owed',
           pos.epoch = epoch, ~ (pos.seq < floor)
    PROVE  \E n \in holes : pos.seq < n /\ n <= pos'.seq
<1> DEFINE item == wire[1]
           n == pos.seq + 1
<1>0. /\ EngineOK /\ ClientOK /\ OrderInv /\ wire \in Seq(Items) /\ Len(wire) \in Nat
      /\ seq \in Int /\ floor \in Int /\ epoch \in Int
      /\ pos.epoch \in Int /\ pos.seq \in Int
  BY StreamKinds
<1>1. wire # <<>> /\ 1 \in 1 .. Len(wire) /\ Head(wire) = item
  BY <1>0 DEF Receive
<1>2. /\ item.at.epoch \in Int /\ item.at.seq \in Int
      /\ pos.epoch <= item.at.epoch /\ AtOrBehind(item.at, At(seq))
  BY <1>0, <1>1, StreamKinds DEF OrderInv, OneRun, Bounded
<1>3. item.at.epoch = epoch /\ item.at.seq <= seq
  BY <1>0, <1>2, PositionIs DEF AtOrBehind
<1>4. pos' = item.at /\ (item.type = "reset" \/ Hole(item))
  BY <1>1 DEF Receive, ReceiveBehind, ReceiveNext, clientVars
<1> HIDE DEF item
<1>5. item.type # "reset" /\ ~ Announced
  <2>1. ~ Announced
    BY DEF CauseInv, ResetHasCause
  <2> QED BY <1>1, <2>1 DEF Announced, item
<1>6. item.at.seq > pos.seq + (IF IsControl(item) THEN 0 ELSE 1)
  BY <1>3, <1>4, <1>5 DEF Hole
<1>7. n <= item.at.seq /\ (~ IsControl(item) => item.at.seq # n)
  BY <1>0, <1>2, <1>6
<1>8. n \in floor + 1 .. seq
  BY <1>0, <1>2, <1>3, <1>7
<1>9. n \notin Due
  <2> SUFFICES ASSUME n \in Due PROVE FALSE
    OBVIOUS
  <2>1. pos.seq < n
    BY <1>0
  <2> HIDE DEF n
  <2>2. Carries(0, n)
    BY <1>5, <2>1 DEF CauseInv, Continues
  <2>3. 1 \in 0 + 1 .. Len(wire)
    BY <1>1
  <2>4. Brings(wire, 0, 1, n)
    BY <1>7, <2>2, <2>3 DEF Carries, item
  <2>5. PICK k \in 0 + 1 .. 1 : wire[k].at.seq = n /\ ~ IsControl(wire[k])
    BY <2>4 DEF Brings
  <2>6. k = 1
    OBVIOUS
  <2> QED BY <1>7, <2>5, <2>6 DEF item
<1>10. n \in holes
  BY <1>8, <1>9 DEF Due
<1> QED BY <1>0, <1>4, <1>7, <1>10

LEMMA CauseIsInvariant == Spec => [](StreamInv /\ CauseInv)
<1>1. Init => CauseInv
  BY CauseInit
<1>2. StreamInv /\ CauseInv /\ [Next]_vars => CauseInv'
  BY CauseNext
<1> QED BY <1>1, <1>2, StreamIsInvariant, PTL DEF Spec

(* A resync is forced only for a loss: a restart, an eviction of what the  *)
(* client lacks or a sequence without a frame, and never because of a sync *)
(* copy, a heartbeat, a lost connection or a replay (bus/global.ts         *)
(* #sequence, handlers/global.ts, stream-cursor.ts).                       *)
THEOREM ResyncHasCause == Spec => ResyncOnlyForLoss
<1>1. ASSUME StreamInv, CauseInv, [Next]_vars, pos # None, bare, ~ owed, owed'
      PROVE  \/ pos.epoch # epoch
             \/ pos.seq < floor
             \/ \E n \in holes : pos.seq < n /\ n <= pos'.seq
  <2>1. Receive
    BY <1>1 DEF Next, EmitEvent, EmitCopy, Restart, Connect, Heartbeat, Drop, Disconnect, DeadMan,
                HangUp, Resync, Detour, vars, clientVars
  <2> QED BY <1>1, <2>1, CauseOfResync
<1>2. StreamInv /\ CauseInv /\ [Next]_vars =>
         [pos # None /\ bare /\ ~ owed /\ owed' =>
             \/ pos.epoch # epoch
             \/ pos.seq < floor
             \/ \E n \in holes : pos.seq < n /\ n <= pos'.seq]_vars
  BY <1>1
<1> QED BY <1>2, CauseIsInvariant, PTL DEF Spec, ResyncOnlyForLoss

=============================================================================
