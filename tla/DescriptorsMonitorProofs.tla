------------------------ MODULE DescriptorsMonitorProofs ------------------------
(***************************************************************************)
(* Proofs about DescriptorsMonitor, for any descriptors and readers and    *)
(* any number of registrations at one time.                                *)
(***************************************************************************)
EXTENDS DescriptorsMonitor, SequenceTheorems, FiniteSetTheorems, FunctionTheorems, TLAPS

Distinct(s) == \A j, k \in DOMAIN s : s[j] = s[k] => j = k

\* What is left of a sequence without one of its elements.
LEMMA RemoveAtProperties ==
    ASSUME NEW S, NEW s \in Seq(S), NEW k \in 1..Len(s)
    PROVE  /\ RemoveAt(s, k) \in Seq(S)
           /\ Len(RemoveAt(s, k)) = Len(s) - 1
           /\ \A m \in 1..(Len(s) - 1) : RemoveAt(s, k)[m] = IF m < k THEN s[m] ELSE s[m + 1]
<1> DEFINE front == SubSeq(s, 1, k - 1)
           back  == SubSeq(s, k + 1, Len(s))
<1>1. /\ Len(s) \in Nat /\ k \in Nat \ {0} /\ k <= Len(s)
      /\ \A m \in 1..Len(s) : s[m] \in S
  BY LenProperties, ElementOfSeq
<1>2. /\ front \in Seq(S) /\ Len(front) = k - 1
      /\ \A m \in 1..(k - 1) : front[m] = s[m]
  <2>1. 1 \in Int /\ k - 1 \in Int /\ \A m \in 1..(k - 1) : s[m] \in S
    BY <1>1
  <2>2. /\ front \in Seq(S)
        /\ Len(front) = IF 1 <= k - 1 THEN (k - 1) - 1 + 1 ELSE 0
        /\ \A m \in 1..((k - 1) - 1 + 1) : front[m] = s[1 + m - 1]
    BY <2>1, SubSeqProperties
  <2> HIDE DEF front
  <2> QED
    BY <1>1, <2>2
<1>3. /\ back \in Seq(S) /\ Len(back) = Len(s) - k
      /\ \A m \in 1..(Len(s) - k) : back[m] = s[k + m]
  <2>1. k + 1 \in Int /\ Len(s) \in Int /\ \A m \in (k + 1)..Len(s) : s[m] \in S
    BY <1>1
  <2>2. /\ back \in Seq(S)
        /\ Len(back) = IF k + 1 <= Len(s) THEN Len(s) - (k + 1) + 1 ELSE 0
        /\ \A m \in 1..(Len(s) - (k + 1) + 1) : back[m] = s[(k + 1) + m - 1]
    BY <2>1, SubSeqProperties
  <2> HIDE DEF back
  <2> QED
    BY <1>1, <2>2
<1> HIDE DEF front, back
<1>4. /\ front \o back \in Seq(S)
      /\ Len(front \o back) = Len(front) + Len(back)
      /\ \A m \in 1..(Len(front) + Len(back)) : (front \o back)[m]
            = IF m <= Len(front) THEN front[m] ELSE back[m - Len(front)]
  BY <1>2, <1>3, ConcatProperties
<1>5. ASSUME NEW m \in 1..(Len(s) - 1)
      PROVE  (front \o back)[m] = IF m < k THEN s[m] ELSE s[m + 1]
  <2>1. (front \o back)[m] = IF m <= k - 1 THEN front[m] ELSE back[m - (k - 1)]
    BY <1>1, <1>2, <1>3, <1>4
  <2>2. CASE m < k
    BY <1>1, <1>2, <2>1, <2>2
  <2>3. CASE ~(m < k)
    <3>1. m - (k - 1) \in 1..(Len(s) - k) /\ k + (m - (k - 1)) = m + 1 /\ ~(m <= k - 1)
      BY <1>1, <2>3
    <3>2. back[m - (k - 1)] = s[k + (m - (k - 1))]
      BY <1>3, <3>1
    <3>3. (front \o back)[m] = back[m - (k - 1)]
      BY <2>1, <3>1
    <3> QED
      BY <2>3, <3>1, <3>2, <3>3
  <2> QED
    BY <2>2, <2>3
<1>6. RemoveAt(s, k) = front \o back
  BY DEF RemoveAt, front, back
<1> QED
  BY <1>1, <1>2, <1>3, <1>4, <1>5, <1>6

\* A member of a sequence that has no member twice is gone when it is removed.
LEMMA RemoveDistinct ==
    ASSUME NEW S, NEW s \in Seq(S), Distinct(s), NEW k \in 1..Len(s)
    PROVE  Distinct(RemoveAt(s, k)) /\ ToSet(RemoveAt(s, k)) = ToSet(s) \ {s[k]}
<1> DEFINE r == RemoveAt(s, k)
<1>1. /\ Len(s) \in Nat /\ DOMAIN s = 1..Len(s) /\ k \in Nat \ {0} /\ k <= Len(s)
  BY LenProperties
<1>2. /\ DOMAIN r = 1..(Len(s) - 1)
      /\ \A m \in 1..(Len(s) - 1) : r[m] = IF m < k THEN s[m] ELSE s[m + 1]
  BY RemoveAtProperties, LenProperties
<1> HIDE DEF r
<1> DEFINE old(m) == IF m < k THEN m ELSE m + 1
<1>3. /\ \A m \in DOMAIN r : old(m) \in DOMAIN s /\ old(m) # k /\ r[m] = s[old(m)]
      /\ \A m, l \in DOMAIN r : old(m) = old(l) => m = l
  BY <1>1, <1>2
<1>4. \A m \in DOMAIN s : m # k => \E l \in DOMAIN r : old(l) = m
  <2> SUFFICES ASSUME NEW m \in DOMAIN s, m # k
               PROVE  \E l \in DOMAIN r : old(l) = m
    OBVIOUS
  <2>1. CASE m < k
    BY <1>1, <1>2, <2>1
  <2>2. CASE m > k
    <3>1. m - 1 \in DOMAIN r /\ old(m - 1) = m
      BY <1>1, <1>2, <2>2
    <3> QED
      BY <3>1
  <2> QED
    BY <1>1, <2>1, <2>2
<1> HIDE DEF old
<1>5. Distinct(r)
  BY <1>3 DEF Distinct
<1>6. \A x : x \in ToSet(r) <=> x \in ToSet(s) /\ x # s[k]
  BY <1>1, <1>3, <1>4 DEF ToSet, Distinct
<1> QED
  BY <1>5, <1>6 DEF r

\* A new element at the end of a vector without repetitions repeats nothing.
LEMMA AppendDistinct ==
    ASSUME NEW S, NEW s \in Seq(S), Distinct(s), NEW e \in S, e \notin ToSet(s)
    PROVE  Distinct(Append(s, e)) /\ ToSet(Append(s, e)) = ToSet(s) \cup {e}
<1>1. Len(s) \in Nat /\ DOMAIN s = 1..Len(s)
  BY LenProperties
<1>2. /\ DOMAIN Append(s, e) = 1..(Len(s) + 1)
      /\ \A m \in 1..Len(s) : Append(s, e)[m] = s[m]
      /\ Append(s, e)[Len(s) + 1] = e
  BY AppendProperties, LenProperties
<1>3. DOMAIN Append(s, e) = DOMAIN s \cup {Len(s) + 1}
  BY <1>1, <1>2
<1> QED
  BY <1>1, <1>2, <1>3 DEF Distinct, ToSet

--------------------------------------------------------------------------------
(* The inductive invariant.                                                  *)

\* The vector holds each allocated registration once, and each of them is for another
\* descriptor of the set.
Registrations ==
    /\ Distinct(descriptors)
    /\ ToSet(descriptors) = allocated
    /\ {heap[b].descriptor : b \in allocated} = descriptorSet
    /\ \A b, c \in allocated : heap[b].descriptor = heap[c].descriptor => b = c

\* The part of the copy that the iteration has still to look at.
Ahead ==
    {k \in DOMAIN checkedDescriptors :
        \/ pc = "select"
        \/ pc = "notify" /\ k >= i
        \/ pc = "handler" /\ k > i}

AheadDescriptor(k) == heap[checkedDescriptors[k]].descriptor

\* As long as handlers unregister only their own descriptor, the registrations ahead
\* exist, those to be served still have data, and none is for the descriptor that the
\* handler reads or unregisters.
Iteration ==
    /\ Distinct(checkedDescriptors)
    /\ \A k \in Ahead : checkedDescriptors[k] \in allocated
    /\ pc # "select" => \A k \in Ahead : AheadDescriptor(k) \in fd => AheadDescriptor(k) \in readable
    /\ pc = "handler" => \A k \in Ahead : AheadDescriptor(k) # CurrentDescriptor

IterationInv == pc \in {"select", "notify", "handler"} /\ ~disturbed => Iteration

\* A handler runs for an entry of the copy.
HandlerInv == pc = "handler" => i <= Len(checkedDescriptors)

Inv == TypeOK /\ HandlerInv /\ Registrations /\ IterationInv

\* The invariant holds at the start.
LEMMA InvInit == Init => Inv
<1> SUFFICES ASSUME Init PROVE Inv
  OBVIOUS
<1> DEFINE free == CHOOSE garbage \in Registration : TRUE
<1>1. free \in Registration
  <2>1. PICK n \in Descriptor, r \in Reader : TRUE
    BY DescriptorAssumption, ReaderAssumption
  <2>2. [descriptor |-> n, reader |-> r] \in Registration
    BY DEF Registration
  <2> QED
    BY <2>2
<1>2. <<>> \in Seq(Block) /\ Len(<<>>) = 0
  BY EmptySeq
<1>3. DOMAIN <<>> = {}
  OBVIOUS
<1>4. TypeOK
  <2>1. heap = [b \in Block |-> free]
    BY DEF Init
  <2> HIDE DEF free
  <2>2. heap \in [Block -> Registration]
    BY <1>1, <2>1
  <2>3. /\ descriptorSet = {} /\ highestDescriptor = 0 /\ descriptors = <<>> /\ allocated = {}
        /\ open = Descriptor /\ readable = {} /\ pc = "program" /\ fd = {}
        /\ checkedDescriptors = <<>> /\ i = 1
    BY DEF Init
  <2>4. disturbed \in BOOLEAN
    BY DEF Init
  <2> QED
    BY <1>2, <2>2, <2>3, <2>4 DEF TypeOK
<1>5. Registrations
  <2>1. DOMAIN descriptors = {} /\ allocated = {} /\ descriptorSet = {}
    BY <1>3 DEF Init
  <2>2. ToSet(descriptors) = {} /\ Distinct(descriptors)
    BY <2>1 DEF ToSet, Distinct
  <2> QED
    BY <2>1, <2>2 DEF Registrations
<1> QED
  BY <1>4, <1>5 DEF Init, Inv, HandlerInv, IterationInv

\* What the variables are when the program is inside wait() or not.
LEMMA TypeFacts ==
    ASSUME Inv
    PROVE  /\ descriptorSet \subseteq Descriptor /\ highestDescriptor \in Nat
           /\ descriptors \in Seq(Block) /\ heap \in [Block -> Registration]
           /\ allocated \subseteq Block /\ open \subseteq Descriptor /\ readable \subseteq open
           /\ pc \in {"program", "select", "notify", "handler", "crashed", "destroyed"}
           /\ fd \subseteq Descriptor /\ checkedDescriptors \in Seq(Block)
           /\ i \in Nat \ {0} /\ disturbed \in BOOLEAN
           /\ DOMAIN checkedDescriptors = 1..Len(checkedDescriptors)
           /\ Len(checkedDescriptors) \in Nat
           /\ DOMAIN descriptors = 1..Len(descriptors) /\ Len(descriptors) \in Nat
           /\ Registrations /\ IterationInv
           /\ pc \in {"notify", "handler"} => i <= Len(checkedDescriptors) + 1
           /\ pc = "handler" => i <= Len(checkedDescriptors)
  BY LenProperties DEF Inv, TypeOK, HandlerInv

\* The entries of the copy are blocks, also those of deleted registrations.
LEMMA CurrentBlock ==
    ASSUME Inv, pc \in {"notify", "handler"}, i <= Len(checkedDescriptors)
    PROVE  /\ i \in DOMAIN checkedDescriptors /\ Current \in Block
           /\ CurrentDescriptor \in Descriptor
<1>1. i \in DOMAIN checkedDescriptors
  BY TypeFacts
<1>2. Current \in Block
  BY <1>1, TypeFacts, ElementOfSeq DEF Current
<1>3. heap[Current] \in Registration
  BY <1>2, TypeFacts
<1> QED
  BY <1>1, <1>2, <1>3 DEF CurrentDescriptor, Registration

--------------------------------------------------------------------------------
(* Registering and unregistering.                                            *)

\* What startMonitoringDescriptor() adds to the vector.
LEMMA StartAdds ==
    ASSUME Inv, NEW r \in Reader, NEW n \in Descriptor, StartMonitoring(r, n)
    PROVE  /\ Registrations' /\ descriptors' \in Seq(Block)
           /\ descriptorSet' \subseteq Descriptor /\ highestDescriptor' \in Nat
           /\ \E b \in Block \ allocated :
               /\ heap' = [heap EXCEPT ![b] = [descriptor |-> n, reader |-> r]]
               /\ allocated' = allocated \cup {b}
<1>1. PICK b \in Block \ allocated :
          /\ heap' = [heap EXCEPT ![b] = [descriptor |-> n, reader |-> r]]
          /\ allocated' = allocated \cup {b}
          /\ descriptors' = Append(descriptors, b)
  BY DEF StartMonitoring
<1>2. /\ n \notin descriptorSet /\ descriptorSet' = descriptorSet \cup {n}
      /\ highestDescriptor' = IF highestDescriptor < n THEN n ELSE highestDescriptor
  BY DEF StartMonitoring
<1>3. /\ Distinct(descriptors) /\ ToSet(descriptors) = allocated
      /\ {heap[c].descriptor : c \in allocated} = descriptorSet
      /\ \A c, d \in allocated : heap[c].descriptor = heap[d].descriptor => c = d
      /\ descriptors \in Seq(Block) /\ heap \in [Block -> Registration] /\ allocated \subseteq Block
  BY TypeFacts DEF Registrations
<1>4. Distinct(descriptors') /\ ToSet(descriptors') = allocated' /\ descriptors' \in Seq(Block)
  BY <1>1, <1>3, AppendDistinct, AppendProperties
<1>5. heap'[b].descriptor = n /\ \A c \in allocated : heap'[c] = heap[c]
  BY <1>1, <1>3
<1>6. {heap'[c].descriptor : c \in allocated'} = descriptorSet'
  BY <1>1, <1>2, <1>3, <1>5
<1>7. \A c, d \in allocated' : heap'[c].descriptor = heap'[d].descriptor => c = d
  <2>1. \A c \in allocated : heap[c].descriptor # n
    BY <1>2, <1>3
  <2> QED
    BY <1>1, <1>3, <1>5, <2>1
<1>8. descriptorSet' \subseteq Descriptor /\ highestDescriptor' \in Nat
  BY <1>2, TypeFacts, DescriptorAssumption
<1> QED
  BY <1>1, <1>4, <1>6, <1>7, <1>8 DEF Registrations

\* What stopMonitoringDescriptor() takes from the vector.
LEMMA StopRemoves ==
    ASSUME Inv, NEW n \in Descriptor, StopMonitoring(n)
    PROVE  /\ Registrations' /\ descriptors' \in Seq(Block)
           /\ descriptorSet' \subseteq Descriptor
           /\ \E b \in allocated : heap[b].descriptor = n /\ allocated' = allocated \ {b}
           /\ heap' = heap
<1>1. PICK k \in DOMAIN descriptors :
          /\ heap[descriptors[k]].descriptor = n
          /\ allocated' = allocated \ {descriptors[k]}
          /\ descriptors' = RemoveAt(descriptors, k)
  BY DEF StopMonitoring
<1>2. descriptorSet' = descriptorSet \ {n} /\ heap' = heap
  BY DEF StopMonitoring
<1>3. /\ Distinct(descriptors) /\ ToSet(descriptors) = allocated
      /\ {heap[c].descriptor : c \in allocated} = descriptorSet
      /\ \A c, d \in allocated : heap[c].descriptor = heap[d].descriptor => c = d
      /\ descriptors \in Seq(Block) /\ k \in 1..Len(descriptors)
      /\ descriptorSet \subseteq Descriptor
  BY TypeFacts DEF Registrations
<1>4. Distinct(descriptors') /\ ToSet(descriptors') = allocated' /\ descriptors' \in Seq(Block)
  BY <1>1, <1>3, RemoveDistinct, RemoveAtProperties
<1>5. descriptors[k] \in allocated
  BY <1>3 DEF ToSet
<1>6. {heap'[c].descriptor : c \in allocated'} = descriptorSet'
  BY <1>1, <1>2, <1>3, <1>5
<1>7. \A c, d \in allocated' : heap'[c].descriptor = heap'[d].descriptor => c = d
  BY <1>1, <1>2, <1>3
<1> QED
  BY <1>1, <1>2, <1>3, <1>4, <1>5, <1>6, <1>7 DEF Registrations

\* startMonitoringDescriptor() keeps the invariant.
LEMMA StartStep ==
    ASSUME Inv, NEW r \in Reader, NEW n \in Descriptor, StartMonitoring(r, n)
    PROVE  Inv'
<1>1. /\ UNCHANGED <<open, readable, pc, fd, checkedDescriptors, i, disturbed>>
      /\ pc \in {"program", "handler"} /\ n \notin descriptorSet
  BY DEF StartMonitoring, files, local
<1>2. PICK b \in Block \ allocated :
          /\ heap' = [heap EXCEPT ![b] = [descriptor |-> n, reader |-> r]]
          /\ allocated' = allocated \cup {b}
  BY StartAdds
<1>3. heap' \in [Block -> Registration] /\ allocated' \subseteq Block
  BY <1>2, TypeFacts DEF Registration
<1>4. TypeOK' /\ HandlerInv'
  <2>1. /\ descriptors' \in Seq(Block) /\ descriptorSet' \subseteq Descriptor
        /\ highestDescriptor' \in Nat
    BY StartAdds
  <2>2. TypeOK /\ HandlerInv
    BY DEF Inv
  <2>3. disturbed' \in BOOLEAN
    BY <1>1, TypeFacts
  <2> QED
    BY <1>1, <1>3, <2>1, <2>2, <2>3 DEF TypeOK, HandlerInv
<1>5. IterationInv'
  <2> SUFFICES ASSUME pc' \in {"select", "notify", "handler"}, ~disturbed'
               PROVE  Iteration'
    BY DEF IterationInv
  <2>1. pc = "handler" /\ Iteration
    BY <1>1, TypeFacts DEF IterationInv
  <2>2. Ahead' = Ahead
    BY <1>1 DEF Ahead
  <2>3. ASSUME NEW k \in Ahead
        PROVE  /\ checkedDescriptors[k] \in allocated /\ AheadDescriptor(k)' = AheadDescriptor(k)
               /\ AheadDescriptor(k) # n
    <3>1. checkedDescriptors[k] \in allocated
      BY <2>1 DEF Iteration
    <3>2. heap[checkedDescriptors[k]].descriptor \in descriptorSet
      BY <3>1, TypeFacts DEF Registrations
    <3>3. heap'[checkedDescriptors[k]] = heap[checkedDescriptors[k]]
      BY <1>2, <3>1, TypeFacts
    <3> QED
      BY <1>1, <3>1, <3>2, <3>3 DEF AheadDescriptor
  <2>4. CurrentDescriptor' = n \/ CurrentDescriptor' = CurrentDescriptor
    <3>1. Current \in Block /\ Current' = Current
      BY <1>1, <2>1, TypeFacts, CurrentBlock DEF Current
    <3>2. heap'[Current] = heap[Current] \/ heap'[Current].descriptor = n
      BY <1>2, <3>1, TypeFacts
    <3> QED
      BY <3>1, <3>2 DEF CurrentDescriptor
  <2>5. Distinct(checkedDescriptors')
    BY <1>1, <2>1 DEF Iteration
  <2>6. \A k \in Ahead' : checkedDescriptors'[k] \in allocated'
    BY <1>1, <1>2, <2>2, <2>3
  <2>7. \A k \in Ahead' : AheadDescriptor(k)' \in fd' => AheadDescriptor(k)' \in readable'
    BY <1>1, <2>1, <2>2, <2>3 DEF Iteration
  <2>8. \A k \in Ahead' : AheadDescriptor(k)' # CurrentDescriptor'
    BY <2>1, <2>2, <2>3, <2>4 DEF Iteration
  <2> QED
    BY <2>5, <2>6, <2>7, <2>8 DEF Iteration
<1> QED
  BY <1>4, <1>5, StartAdds DEF Inv

\* stopMonitoringDescriptor() keeps the invariant.
LEMMA StopStep ==
    ASSUME Inv, NEW n \in Descriptor, StopMonitoring(n)
    PROVE  Inv'
<1>1. /\ UNCHANGED <<highestDescriptor, heap, open, readable, pc, fd, checkedDescriptors, i>>
      /\ pc \in {"program", "handler"}
      /\ disturbed' = (disturbed \/ (pc = "handler" /\ n # CurrentDescriptor))
  BY DEF StopMonitoring, StopCalled, files, local
<1>2. PICK b \in allocated : heap[b].descriptor = n /\ allocated' = allocated \ {b}
  BY StopRemoves
<1>3. TypeOK' /\ HandlerInv'
  <2>1. /\ descriptors' \in Seq(Block) /\ descriptorSet' \subseteq Descriptor
    BY StopRemoves
  <2>2. TypeOK /\ HandlerInv
    BY DEF Inv
  <2>3. disturbed' \in BOOLEAN
    BY <1>1, TypeFacts
  <2> QED
    BY <1>1, <1>2, <2>1, <2>2, <2>3 DEF TypeOK, HandlerInv
<1>4. IterationInv'
  <2> SUFFICES ASSUME pc' \in {"select", "notify", "handler"}, ~disturbed'
               PROVE  Iteration'
    BY DEF IterationInv
  <2>1. pc = "handler" /\ ~disturbed /\ n = CurrentDescriptor
    BY <1>1
  <2>2. Iteration
    BY <2>1, TypeFacts DEF IterationInv
  <2>3. Ahead' = Ahead
    BY <1>1 DEF Ahead
  <2>4. \A k \in Ahead : AheadDescriptor(k)' = AheadDescriptor(k)
    BY <1>1 DEF AheadDescriptor
  <2>5. CurrentDescriptor' = CurrentDescriptor
    BY <1>1 DEF CurrentDescriptor, Current
  <2>6. \A k \in Ahead : checkedDescriptors[k] \in allocated'
    BY <1>2, <2>1, <2>2 DEF Iteration, AheadDescriptor
  <2> QED
    BY <1>1, <2>1, <2>2, <2>3, <2>4, <2>5, <2>6 DEF Iteration
<1> QED
  BY <1>3, <1>4, StopRemoves DEF Inv

--------------------------------------------------------------------------------
(* wait().                                                                   *)

\* The copy of the vector holds the registrations.
LEMMA WaitBegins ==
    ASSUME Inv, Wait
    PROVE  Inv'
<1>1. /\ pc = "program" /\ fd' = descriptorSet /\ checkedDescriptors' = descriptors
      /\ pc' = "select"
      /\ UNCHANGED <<descriptorSet, highestDescriptor, descriptors, heap, allocated,
                     open, readable, i, disturbed>>
  BY DEF Wait, monitor, files
<1>2. TypeOK' /\ HandlerInv'
  <2>1. TypeOK
    BY DEF Inv
  <2>2. disturbed' \in BOOLEAN
    BY <1>1, TypeFacts
  <2> QED
    BY <1>1, <2>1, <2>2 DEF TypeOK, HandlerInv
<1>3. Registrations'
  BY <1>1, TypeFacts DEF Registrations
<1>4. Iteration'
  <2>1. Distinct(descriptors) /\ \A k \in DOMAIN descriptors : descriptors[k] \in allocated
    BY TypeFacts DEF Registrations, ToSet
  <2> QED
    BY <1>1, <2>1 DEF Iteration, Ahead
<1> QED
  BY <1>2, <1>3, <1>4 DEF Inv, IterationInv

\* Outside wait() nothing is ahead.
LEMMA WaitLeft ==
    ASSUME Inv, LeaveWait
    PROVE  Inv'
<1>1. /\ pc' = "program" /\ fd' = {} /\ checkedDescriptors' = <<>> /\ i' = 1
      /\ UNCHANGED <<descriptorSet, highestDescriptor, descriptors, heap, allocated, open, readable>>
  BY DEF LeaveWait, monitor, files
<1>2. TypeOK' /\ HandlerInv'
  <2>1. TypeOK
    BY DEF Inv
  <2>2. disturbed' \in BOOLEAN
    BY DEF LeaveWait
  <2>3. <<>> \in Seq(Block)
    BY EmptySeq
  <2> QED
    BY <1>1, <2>1, <2>2, <2>3 DEF TypeOK, HandlerInv
<1>3. Registrations'
  BY <1>1, TypeFacts DEF Registrations
<1> QED
  BY <1>1, <1>2, <1>3 DEF Inv, IterationInv

\* select() keeps the invariant.
LEMMA SelectStep ==
    ASSUME Inv, SelectReturns
    PROVE  Inv'
<1>1. /\ pc = "select" /\ fd' \subseteq fd \cap readable /\ i' = 1 /\ pc' = "notify"
      /\ UNCHANGED <<descriptorSet, highestDescriptor, descriptors, heap, allocated,
                     open, readable, checkedDescriptors, disturbed>>
  BY DEF SelectReturns, Watched, monitor, files
<1>2. TypeOK' /\ HandlerInv'
  <2>1. TypeOK /\ Len(checkedDescriptors) \in Nat
    BY TypeFacts DEF Inv
  <2>2. disturbed' \in BOOLEAN
    BY <1>1, TypeFacts
  <2> QED
    BY <1>1, <2>1, <2>2 DEF TypeOK, HandlerInv
<1>3. Registrations'
  BY <1>1, TypeFacts DEF Registrations
<1>4. IterationInv'
  <2> SUFFICES ASSUME ~disturbed'
               PROVE  Iteration'
    BY DEF IterationInv
  <2>1. Iteration
    BY <1>1, TypeFacts DEF IterationInv
  <2>2. Ahead' \subseteq Ahead
    BY <1>1 DEF Ahead
  <2>3. Distinct(checkedDescriptors') /\ \A k \in Ahead' : checkedDescriptors'[k] \in allocated'
    BY <1>1, <2>1, <2>2 DEF Iteration
  <2>4. \A k \in Ahead' : AheadDescriptor(k)' \in fd' => AheadDescriptor(k)' \in readable'
    BY <1>1
  <2> QED
    BY <1>1, <2>3, <2>4 DEF Iteration
<1> QED
  BY <1>2, <1>3, <1>4 DEF Inv

\* A registration that is followed while no handler has disturbed the iteration exists, and
\* following it changes nothing.
LEMMA Followed ==
    ASSUME Inv, ~disturbed, pc = "notify", i <= Len(checkedDescriptors)
    PROVE  i \in Ahead /\ Current \in allocated /\ CurrentDescriptor \in descriptorSet
<1>1. i \in Ahead
  BY TypeFacts DEF Ahead
<1>2. Iteration
  BY TypeFacts DEF IterationInv
<1>3. Current \in allocated
  BY <1>1, <1>2 DEF Iteration, Current
<1> QED
  BY <1>1, <1>3, TypeFacts DEF Registrations, CurrentDescriptor

\* A turn of the loop over the vector keeps the invariant.
LEMMA NotifyStep ==
    ASSUME Inv, Notify
    PROVE  Inv'
<1>1. /\ pc = "notify" /\ i <= Len(checkedDescriptors)
      /\ UNCHANGED <<descriptorSet, highestDescriptor, descriptors, allocated, open, readable,
                     fd, checkedDescriptors, disturbed>>
      /\ \/ pc' = "handler" /\ i' = i
         \/ pc' = "notify" /\ i' = i + 1
         \/ pc' = "crashed" /\ i' = i /\ Current \notin allocated
  BY DEF Notify, files
<1>2. /\ Current \in allocated => heap' = heap
      /\ Current \notin allocated
         => \E registration \in Registration : heap' = [heap EXCEPT ![Current] = registration]
  BY DEF Notify
<1>3. heap' \in [Block -> Registration] /\ \A b \in allocated : heap'[b] = heap[b]
  BY <1>1, <1>2, CurrentBlock, TypeFacts
<1>4. TypeOK' /\ HandlerInv'
  <2>1. TypeOK
    BY DEF Inv
  <2>2. disturbed' \in BOOLEAN
    BY <1>1, TypeFacts
  <2>3. i' \in Nat \ {0} /\ (pc' \in {"notify", "handler"} => i' <= Len(checkedDescriptors) + 1)
    BY <1>1, TypeFacts
  <2> QED
    BY <1>1, <1>3, <2>1, <2>2, <2>3 DEF TypeOK, HandlerInv
<1>5. Registrations'
  BY <1>1, <1>3, TypeFacts DEF Registrations
<1>6. IterationInv'
  <2> SUFFICES ASSUME ~disturbed', pc' # "crashed"
               PROVE  Iteration'
    BY <1>1 DEF IterationInv
  <2>1. ~disturbed /\ Iteration
    BY <1>1, TypeFacts DEF IterationInv
  <2>2. i \in Ahead /\ Current \in allocated /\ heap' = heap
    BY <1>1, <1>2, <2>1, Followed
  <2>3. (Ahead' \subseteq Ahead /\ i \notin Ahead') \/ (pc' = "notify" /\ Ahead' \subseteq Ahead)
    BY <1>1, TypeFacts DEF Ahead
  <2>4. \A k \in Ahead' : AheadDescriptor(k)' = AheadDescriptor(k)
    BY <1>1, <2>2 DEF AheadDescriptor
  <2>5. Distinct(checkedDescriptors') /\ \A k \in Ahead' : checkedDescriptors'[k] \in allocated'
    BY <1>1, <2>1, <2>3 DEF Iteration
  <2>6. \A k \in Ahead' : AheadDescriptor(k)' \in fd' => AheadDescriptor(k)' \in readable'
    BY <1>1, <2>1, <2>3, <2>4 DEF Iteration
  <2>7. ASSUME pc' = "handler", NEW k \in Ahead'
        PROVE  AheadDescriptor(k)' # CurrentDescriptor'
    <3>1. k \in Ahead /\ k # i
      BY <2>3, <2>7
    <3>2. CurrentDescriptor' = heap[checkedDescriptors[i]].descriptor
      BY <1>1, <2>2, <2>7 DEF CurrentDescriptor, Current
    <3>3. /\ checkedDescriptors[k] \in allocated /\ checkedDescriptors[i] \in allocated
          /\ checkedDescriptors[k] # checkedDescriptors[i]
      BY <2>1, <2>2, <3>1 DEF Iteration, Distinct, Ahead
    <3> QED
      BY <2>4, <2>7, <3>2, <3>3, TypeFacts DEF Registrations, AheadDescriptor
  <2> QED
    BY <2>5, <2>6, <2>7 DEF Iteration
<1> QED
  BY <1>4, <1>5, <1>6 DEF Inv

\* What changes the files and not the registrations: data that arrives, a handler that
\* reads, a descriptor that is closed.
LEMMA FilesStep ==
    ASSUME Inv,
           UNCHANGED <<monitor, pc, local, disturbed>>,
           open' \subseteq open, readable' \subseteq open',
           \/ readable \subseteq readable'
           \/ pc = "handler" /\ readable' = readable \ {CurrentDescriptor}
           \/ pc = "program"
    PROVE  Inv'
<1>1. UNCHANGED <<descriptorSet, highestDescriptor, descriptors, heap, allocated, pc,
                  fd, checkedDescriptors, i, disturbed>>
  BY DEF monitor, local
<1>2. TypeOK' /\ HandlerInv'
  <2>1. TypeOK /\ HandlerInv
    BY DEF Inv
  <2>2. disturbed' \in BOOLEAN
    BY <1>1, TypeFacts
  <2> QED
    BY <1>1, <2>1, <2>2 DEF TypeOK, HandlerInv
<1>3. Registrations'
  BY <1>1, TypeFacts DEF Registrations
<1>4. IterationInv'
  <2> SUFFICES ASSUME pc \in {"select", "notify", "handler"}, ~disturbed
               PROVE  Iteration'
    BY <1>1 DEF IterationInv
  <2>1. Iteration
    BY TypeFacts DEF IterationInv
  <2>2. Ahead' = Ahead
    BY <1>1 DEF Ahead
  <2>3. CurrentDescriptor' = CurrentDescriptor /\ \A k : AheadDescriptor(k)' = AheadDescriptor(k)
    BY <1>1 DEF CurrentDescriptor, Current, AheadDescriptor
  <2>4. pc # "select" => \A k \in Ahead : AheadDescriptor(k) \in fd => AheadDescriptor(k) \in readable'
    BY <2>1 DEF Iteration
  <2> QED
    BY <1>1, <2>1, <2>2, <2>3, <2>4 DEF Iteration
<1> QED
  BY <1>2, <1>3, <1>4 DEF Inv

\* A handler that comes back keeps the invariant.
LEMMA HandlerEnds ==
    ASSUME Inv, HandlerReturns
    PROVE  Inv'
<1>1. /\ pc = "handler" /\ i' = i + 1 /\ pc' = "notify"
      /\ UNCHANGED <<descriptorSet, highestDescriptor, descriptors, heap, allocated,
                     open, readable, fd, checkedDescriptors, disturbed>>
  BY DEF HandlerReturns, monitor, files
<1>2. TypeOK' /\ HandlerInv'
  <2>1. TypeOK
    BY DEF Inv
  <2>2. disturbed' \in BOOLEAN
    BY <1>1, TypeFacts
  <2>3. i' \in Nat \ {0} /\ i' <= Len(checkedDescriptors) + 1
    BY <1>1, TypeFacts
  <2> QED
    BY <1>1, <2>1, <2>2, <2>3 DEF TypeOK, HandlerInv
<1>3. Registrations'
  BY <1>1, TypeFacts DEF Registrations
<1>4. IterationInv'
  <2> SUFFICES ASSUME ~disturbed'
               PROVE  Iteration'
    BY DEF IterationInv
  <2>1. Iteration
    BY <1>1, TypeFacts DEF IterationInv
  <2>2. Ahead' = Ahead
    BY <1>1, TypeFacts DEF Ahead
  <2>3. \A k : AheadDescriptor(k)' = AheadDescriptor(k)
    BY <1>1 DEF AheadDescriptor
  <2> QED
    BY <1>1, <2>1, <2>2, <2>3 DEF Iteration
<1> QED
  BY <1>2, <1>3, <1>4 DEF Inv

\* The destructor of the monitor keeps the invariant.
LEMMA DestroyStep ==
    ASSUME Inv, Destroy
    PROVE  Inv'
<1>1. /\ allocated' = allocated \ ToSet(descriptors) /\ descriptors' = <<>>
      /\ descriptorSet' = {} /\ pc' = "destroyed"
      /\ UNCHANGED <<highestDescriptor, heap, open, readable, fd, checkedDescriptors, i, disturbed>>
  BY DEF Destroy, files, local
<1>2. allocated' = {}
  BY <1>1, TypeFacts DEF Registrations
<1>3. <<>> \in Seq(Block) /\ DOMAIN <<>> = {}
  BY EmptySeq
<1>4. TypeOK' /\ HandlerInv'
  <2>1. TypeOK
    BY DEF Inv
  <2>2. disturbed' \in BOOLEAN
    BY <1>1, TypeFacts
  <2> QED
    BY <1>1, <1>2, <1>3, <2>1, <2>2 DEF TypeOK, HandlerInv
<1>5. Registrations'
  <2>1. DOMAIN descriptors' = {} /\ ToSet(descriptors') = {}
    BY <1>1, <1>3 DEF ToSet
  <2> QED
    BY <1>1, <1>2, <2>1 DEF Registrations, Distinct
<1> QED
  BY <1>1, <1>4, <1>5 DEF Inv, IterationInv

\* Every step keeps the invariant.
LEMMA InvStep == Inv /\ [Next]_vars => Inv'
<1> SUFFICES ASSUME Inv, [Next]_vars PROVE Inv'
  OBVIOUS
<1>1. ASSUME NEW n \in Descriptor, NEW r \in Reader, StartMonitoring(r, n)
      PROVE  Inv'
  BY <1>1, StartStep
<1>2. ASSUME NEW n \in Descriptor, StopMonitoring(n)
      PROVE  Inv'
  BY <1>2, StopStep
<1>3. ASSUME NEW n \in Descriptor, DataArrives(n) \/ Close(n)
      PROVE  Inv'
  <2>1. UNCHANGED <<monitor, pc, local, disturbed>>
    BY <1>3 DEF DataArrives, Close
  <2>2. open' \subseteq open /\ readable' \subseteq open'
    BY <1>3, TypeFacts DEF DataArrives, Close
  <2>3. readable \subseteq readable' \/ pc = "program"
    BY <1>3 DEF DataArrives, Close
  <2> QED
    BY <2>1, <2>2, <2>3, FilesStep
<1>4. CASE HandlerReads
  <2>1. /\ UNCHANGED <<monitor, open, pc, local, disturbed>>
        /\ pc = "handler" /\ readable' = readable \ {CurrentDescriptor}
    BY <1>4 DEF HandlerReads
  <2>2. open' \subseteq open /\ readable' \subseteq open'
    BY <2>1, TypeFacts
  <2> QED
    BY <2>1, <2>2, FilesStep
<1>5. CASE Wait
  BY <1>5, WaitBegins
<1>6. CASE WaitStep
  <2>1. SelectFails \/ WaitReturns => LeaveWait
    BY DEF SelectFails, WaitReturns
  <2> QED
    BY <1>6, <2>1, WaitLeft, SelectStep, NotifyStep, HandlerEnds DEF WaitStep
<1>7. CASE Destroy
  BY <1>7, DestroyStep
<1>8. CASE SelectInterrupted
  BY <1>8, WaitLeft DEF SelectInterrupted
<1>9. CASE UNCHANGED vars
  <2>1. UNCHANGED <<monitor, pc, local, disturbed>> /\ open' \subseteq open /\ readable' \subseteq open'
    BY <1>9, TypeFacts DEF vars, files
  <2>2. readable \subseteq readable'
    BY <1>9 DEF vars, files
  <2> QED
    BY <2>1, <2>2, FilesStep
<1> QED
  BY <1>1, <1>2, <1>3, <1>4, <1>5, <1>6, <1>7, <1>8, <1>9 DEF Next

\* The invariant holds in every reachable state.
LEMMA Invariant == Spec => []Inv
  BY InvInit, InvStep, PTL DEF Spec

--------------------------------------------------------------------------------
(* The properties.                                                           *)

\* Every variable keeps its type; in particular wait()'s iterator stays within the copy or
\* one behind its end, whatever handlers do.
THEOREM TypeCorrect == Spec => []TypeOK
<1>1. Inv => TypeOK
  BY DEF Inv
<1> QED
  BY <1>1, Invariant, PTL

\* The vector and the set are changed by separate statements and always name the same
\* descriptors, each of them once: the destructor deletes every registration.
THEOREM VectorCorrect == Spec => []VectorAgrees
<1>1. ASSUME Inv
      PROVE  VectorAgrees
  <2>1. /\ Distinct(descriptors) /\ ToSet(descriptors) = allocated
        /\ {heap[b].descriptor : b \in allocated} = descriptorSet
        /\ \A b, c \in allocated : heap[b].descriptor = heap[c].descriptor => b = c
        /\ DOMAIN descriptors = 1..Len(descriptors) /\ Len(descriptors) \in Nat
    BY <1>1, TypeFacts DEF Registrations
  <2> DEFINE D == 1..Len(descriptors)
             f == [k \in D |-> heap[descriptors[k]].descriptor]
  <2>2. \A k \in D : descriptors[k] \in allocated /\ f[k] = heap[descriptors[k]].descriptor
    BY <2>1 DEF ToSet
  <2>3. \A n \in descriptorSet : \E k \in D : f[k] = n
    <3>1. \A b \in allocated : \E k \in D : descriptors[k] = b
      BY <2>1 DEF ToSet
    <3> QED
      BY <2>1, <2>2, <3>1
  <2>4. \A j, k \in D : f[j] = f[k] => j = k
    BY <2>1, <2>2 DEF Distinct
  <2>5. f \in [D -> descriptorSet]
    BY <2>1, <2>2
  <2> HIDE DEF f
  <2>6. f \in Bijection(D, descriptorSet)
    BY <2>3, <2>4, <2>5 DEF Bijection, Injection, Surjection, IsInjective
  <2>7. ExistsBijection(1..Len(descriptors), descriptorSet)
    BY <2>6 DEF ExistsBijection
  <2>8. Cardinality(descriptorSet) = Len(descriptors)
    BY <2>1, <2>7, FS_CountingElements
  <2> QED
    BY <2>1, <2>8 DEF VectorAgrees
<1> QED
  BY <1>1, Invariant, PTL

\* For any number of registrations, wait() follows no pointer to a deleted one as long as
\* handlers unregister only the descriptor they are called for.
THEOREM IterationCorrect == Spec => []NoDanglingRegistration
<1>1. Inv => NoDanglingRegistration
  BY Followed DEF NoDanglingRegistration, CurrentExists
<1> QED
  BY <1>1, Invariant, PTL

\* A reader is called only for a descriptor that is monitored and has data at that moment.
THEOREM CallsCorrect == Spec => CalledOnlyWhenReadable
<1>1. ASSUME Inv, [Next]_vars, pc = "notify", pc' = "handler", ~disturbed
      PROVE  CurrentDescriptor' \in readable \cap descriptorSet
  <2>1. Notify
    BY <1>1 DEF Next, vars, WaitStep, StartMonitoring, StopMonitoring, StopCalled, DataArrives, Close,
       Wait, SelectReturns, SelectFails, SelectInterrupted, WaitReturns, LeaveWait, HandlerReads, HandlerReturns, Destroy
  <2>2. i <= Len(checkedDescriptors) /\ UNCHANGED checkedDescriptors /\ CurrentDescriptor' \in fd
        /\ UNCHANGED i
    BY <1>1, <2>1 DEF Notify, CurrentDescriptor, Current
  <2>3. i \in Ahead /\ Current \in allocated /\ CurrentDescriptor \in descriptorSet
    BY <1>1, <2>2, Followed
  <2>4. CurrentDescriptor' = CurrentDescriptor
    BY <2>1, <2>2, <2>3 DEF Notify, CurrentDescriptor, Current
  <2>5. Iteration
    BY <1>1, TypeFacts DEF IterationInv
  <2>6. CurrentDescriptor \in fd => CurrentDescriptor \in readable
    BY <1>1, <2>3, <2>5 DEF Iteration, AheadDescriptor, CurrentDescriptor, Current
  <2> QED
    BY <2>2, <2>3, <2>4, <2>6
<1>2. Inv /\ [Next]_vars
      => [pc = "notify" /\ pc' = "handler" /\ ~disturbed
              => CurrentDescriptor' \in readable \cap descriptorSet]_vars
  BY <1>1
<1> QED
  BY <1>2, Invariant, PTL DEF Spec, CalledOnlyWhenReadable
================================================================================
