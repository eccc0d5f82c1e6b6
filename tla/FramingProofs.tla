----------------------------- MODULE FramingProofs ----------------------------
(* Proofs about a connection and the threads at its two ends: what is meant  *)
(* by lines and handlers is what the reader decodes.  Between the two lies a *)
(* stream of frames, of which some are read, one is being read and one may   *)
(* be half written.                                                          *)
EXTENDS ProtocolProofs

(* A frame a thread is writing: until its first byte is sent it is whole.    *)
Writing(w) ==
  /\ w = [left |-> w.left, begun |-> w.begun, fits |-> w.fits, meaning |-> w.meaning]
  /\ w.left \in Seq(Nat) /\ w.left # <<>> /\ w.begun \in BOOLEAN
  /\ ~w.begun /\ w.fits => Framed(w.left, w.meaning)

FrameTypes ==
  /\ room \in Nat /\ end \in Ends /\ connection \in {"up", "closed", "lost"}
  /\ wire \in Seq(Nat) /\ Len(wire) <= room
  /\ reading \in Seq(Nat) /\ Len(reading) < size(reading)
  /\ Sequence(received) /\ Sequence(meant)

IdTypes == key_offered_to_ \subseteq 1 .. U32 - 1 /\ banned_ids_ \subseteq 1 .. U32 - 1

FrameWriters ==
  /\ sending = [thread \in Threads |-> sending[thread]]
  /\ \A thread \in Threads : sending[thread] = Idle \/ Writing(sending[thread])

(* A thread with a frame no byte of which is sent: it is counted in frames   *)
(* and not yet in meant.                                                     *)
waits(thread) ==
  IF thread \in Threads /\ sending[thread] # Idle /\ ~sending[thread].begun THEN 1 ELSE 0

waiting == waits("input") + (waits("receiver") + waits("loop"))

FrameCount ==
  frames \in Nat /\ frames <= MaxFrames /\ Len(meant) + waiting <= frames

InOrder ==
  /\ Len(received) <= Len(meant)
  /\ \A k \in 1 .. Len(received) : understood(received[k]) = meant[k]

(* Of the frame that was begun, if there is one, the rest is to be sent.     *)
Unsent(tail) ==
  \/ tail = <<>> /\ \A thread \in Threads : ~sending[thread].begun
  \/ \E thread \in Threads :
       /\ sending[thread].begun /\ tail = sending[thread].left
       /\ \A other \in Threads \ {thread} : ~sending[other].begun

(* When the writer ended within a frame, its rest will not come.             *)
OnItsWay ==
  \E F, P, tail :
    /\ tail \in Seq(Nat) /\ (connection = "up" => Unsent(tail))
    /\ Pending(F, P, meant, Len(meant), Len(received), reading, wire \o tail)

Transported ==
  ~torn /\ ~too_long =>
    InOrder /\ Len(reading) < kMbapHeaderSize + U16 /\ (connection # "lost" => OnItsWay)

FramingInv == FrameTypes /\ IdTypes /\ FrameWriters /\ FrameCount /\ Transported

-------------------------------------------------------------------------------
(* The names of the threads.                                                 *)
LEMMA ThreadNames == Threads \subseteq {"input", "receiver", "loop"}
BY DEF Threads

(* A thread waits or it does not.                                            *)
LEMMA WaitsNat ==
  ASSUME NEW thread
  PROVE  waits(thread) \in 0 .. 1 /\ waits(thread)' \in 0 .. 1
BY DEF waits

(* An idle thread has begun nothing, and a frame is something.               *)
LEMMA IdleFacts ==
  /\ Idle.left = <<>> /\ ~Idle.begun
  /\ \A w : Writing(w) => w # Idle
<1>1. Idle.left = <<>> /\ Idle.begun = FALSE
  BY DEF Idle
<1> QED BY <1>1, Zenon DEF Writing

(* A thread that is idle has something to send, or finds that it has not, or *)
(* the process ends.                                                         *)
Started(thread, w) ==
  /\ Writing(w) /\ ~w.begun /\ connection' = connection
  /\ sending' = [sending EXCEPT ![thread] = w]

Effect(thread) ==
  (\E w : Started(thread, w)) \/ process_ends \/ UNCHANGED <<connection, sending>>

SendStep(thread) ==
  /\ connection = "up" /\ thread \in Threads /\ sending[thread] = Idle
  /\ frames < MaxFrames /\ frames' = frames + 1
  /\ UNCHANGED <<end, room, wire, reading, received, history>>
  /\ IdTypes'
  /\ Effect(thread)

(* What a thread does with a frame it starts with.                           *)
LEMMA StartedFacts ==
  ASSUME FrameWriters, NEW thread \in Threads, NEW w, Started(thread, w),
         sending[thread] = Idle, Threads' = Threads
  PROVE  /\ FrameWriters' /\ sending'[thread] = w
         /\ \A u \in Threads \ {thread} : sending'[u] = sending[u]
         /\ \A u \in Threads : sending'[u].begun => sending[u].begun
         /\ \A u \in Threads : sending[u].begun => sending'[u] = sending[u]
<1>1. sending = [u \in Threads |-> sending[u]] /\ sending' = [sending EXCEPT ![thread] = w]
  BY Zenon DEF FrameWriters, Started
<1>2. sending' = [u \in Threads |-> IF u = thread THEN w ELSE sending[u]]
  BY <1>1
<1>3. sending'[thread] = w /\ \A u \in Threads \ {thread} : sending'[u] = sending[u]
  BY <1>2, Zenon
<1>4. Writing(w) /\ ~w.begun
  BY Zenon DEF Started
<1>5. ~Idle.begun
  BY IdleFacts, Zenon
<1>6. \A u \in Threads : sending'[u] = Idle \/ Writing(sending'[u])
  BY <1>3, <1>4, Zenon DEF FrameWriters
<1>7. sending' = [u \in Threads |-> sending'[u]]
  BY <1>2
<1>8. FrameWriters'
  BY <1>6, <1>7, Zenon DEF FrameWriters, Writing, Framed
<1> QED BY <1>3, <1>4, <1>5, <1>8, Zenon

(* The arithmetic of counting frames.                                        *)
LEMMA Sums ==
  ASSUME NEW a \in 0 .. 1, NEW b \in 0 .. 1, NEW c \in 0 .. 1
  PROVE  a + (b + c) \in Nat
OBVIOUS

(* One thread more that waits is one frame more.                             *)
LEMMA OneMoreWaits ==
  ASSUME NEW thread \in Threads, waits(thread) = 0,
         \A u : u # thread => waits(u)' = waits(u)
  PROVE  waiting' <= waiting + 1 /\ waiting \in Nat /\ waiting' \in Nat
<1>1. PICK a \in 0 .. 1, b \in 0 .. 1, c \in 0 .. 1 :
        a = waits("input") /\ b = waits("receiver") /\ c = waits("loop")
  BY WaitsNat, Zenon
<1>2. PICK d \in 0 .. 1, e \in 0 .. 1, f \in 0 .. 1 :
        d = waits("input")' /\ e = waits("receiver")' /\ f = waits("loop")'
  BY WaitsNat, Zenon
<1>3. waiting = a + (b + c) /\ waiting' = d + (e + f)
  BY <1>1, <1>2, Zenon DEF waiting
<1>4. d + (e + f) <= (a + (b + c)) + 1
  <2>1. CASE thread = "input"
    <3>1. a = 0 /\ e = b /\ f = c
      BY <1>1, <1>2, <2>1
    <3> QED BY ONLY <3>1, a \in 0 .. 1, b \in 0 .. 1, c \in 0 .. 1, d \in 0 .. 1
  <2>2. CASE thread = "receiver"
    <3>1. b = 0 /\ d = a /\ f = c
      BY <1>1, <1>2, <2>2
    <3> QED BY ONLY <3>1, a \in 0 .. 1, b \in 0 .. 1, c \in 0 .. 1, e \in 0 .. 1
  <2>3. CASE thread = "loop"
    <3>1. c = 0 /\ d = a /\ e = b
      BY <1>1, <1>2, <2>3
    <3> QED BY ONLY <3>1, a \in 0 .. 1, b \in 0 .. 1, c \in 0 .. 1, f \in 0 .. 1
  <2> QED BY <2>1, <2>2, <2>3, ThreadNames, Zenon
<1> QED BY <1>3, <1>4, Sums, Zenon

(* A frame that is counted.                                                  *)
LEMMA CountKept ==
  ASSUME NEW m \in Nat, NEW w \in Nat, NEW v \in Nat, NEW k \in Nat,
         m + w <= k, v <= w + 1
  PROVE  m + v <= k + 1
OBVIOUS

(* type_line, ban_ids and the handlers: a frame is made ready.               *)
LEMMA SendStepKeeps ==
  ASSUME FramingInv, NEW thread, SendStep(thread)
  PROVE  FramingInv'
<1>1. /\ connection = "up" /\ thread \in Threads /\ sending[thread] = Idle
      /\ frames < MaxFrames /\ frames' = frames + 1 /\ IdTypes'
      /\ end' = end /\ room' = room /\ wire' = wire /\ reading' = reading
      /\ received' = received /\ meant' = meant /\ torn' = torn /\ too_long' = too_long
  BY Zenon DEF SendStep, history
<1>2. Threads' = Threads
  BY <1>1, Zenon DEF Threads
<1>3. FrameTypes /\ FrameWriters /\ FrameCount /\ Transported
  BY Zenon DEF FramingInv
<1>4. Len(meant) \in Nat /\ frames \in Nat /\ MaxFrames \in Nat
  <2>1. PICK S : meant \in Seq(S)
    BY <1>3, Zenon DEF FrameTypes, Sequence
  <2> QED BY <1>3, <2>1, FramingConstants, SeqFacts, Zenon DEF FrameCount
<1>5. frames + 1 \in Nat /\ frames + 1 <= MaxFrames
  BY ONLY <1>1, <1>4
<1>6. ASSUME connection' = connection \/ connection' = "closed" PROVE FrameTypes'
  BY <1>1, <1>3, <1>6, Zenon DEF FrameTypes
<1>7. ASSUME waiting' \in Nat, waiting \in Nat, waiting' <= waiting + 1 PROVE FrameCount'
  <2>1. Len(meant) + waiting <= frames
    BY <1>3, Zenon DEF FrameCount
  <2>2. Len(meant) + waiting' <= frames + 1
    BY <1>4, <1>7, <2>1, CountKept, Zenon
  <2> QED BY <1>1, <1>5, <2>2, Zenon DEF FrameCount
<1>8. ASSUME \A F, P, tail :
               /\ tail \in Seq(Nat) /\ Unsent(tail)
               /\ Pending(F, P, meant, Len(meant), Len(received), reading, wire \o tail)
               => (connection' = "up" => Unsent(tail)')
      PROVE  Transported'
  <2>1. OnItsWay => OnItsWay'
    BY <1>1, <1>8, Zenon DEF OnItsWay
  <2>2. InOrder => InOrder'
    BY <1>1, Zenon DEF InOrder
  <2>3. connection # "lost"
    BY <1>1
  <2> QED BY <1>1, <1>3, <2>1, <2>2, <2>3, Zenon DEF Transported
<1>9. waits(thread) = 0
  BY <1>1, Zenon DEF waits
<1>10. CASE \E w : Started(thread, w)
  <2>1. PICK w : Started(thread, w)
    BY <1>10, Zenon
  <2>2. connection' = connection
    BY <2>1, Zenon DEF Started
  <2>3. /\ FrameWriters' /\ sending'[thread] = w
        /\ \A u \in Threads \ {thread} : sending'[u] = sending[u]
        /\ \A u \in Threads : sending'[u].begun => sending[u].begun
        /\ \A u \in Threads : sending[u].begun => sending'[u] = sending[u]
    BY <1>1, <1>2, <1>3, <2>1, StartedFacts, Zenon
  <2>4. \A u : u # thread => waits(u)' = waits(u)
    BY <1>2, <2>3, Zenon DEF waits
  <2>5. waiting' <= waiting + 1 /\ waiting \in Nat /\ waiting' \in Nat
    BY <1>1, <1>9, <2>4, OneMoreWaits, Zenon
  <2>6. FrameCount'
    BY <1>7, <2>5, Zenon
  <2>7. \A tail : Unsent(tail) => Unsent(tail)'
    BY <1>2, <2>3, Zenon DEF Unsent
  <2>8. Transported'
    BY <1>8, <2>7, Zenon
  <2>9. FrameTypes'
    BY <1>6, <2>2, Zenon
  <2> QED BY <1>1, <2>3, <2>6, <2>8, <2>9, Zenon DEF FramingInv
<1>11. CASE process_ends
  <2>1. connection' = "closed" /\ sending' = [u \in Threads |-> Idle]
    BY <1>11, Zenon DEF process_ends
  <2>2. \A u \in Threads : sending'[u] = Idle
    BY <2>1, Zenon
  <2>3. FrameWriters'
    BY <1>2, <2>1, <2>2, Zenon DEF FrameWriters
  <2>4. waits("input")' = 0 /\ waits("receiver")' = 0 /\ waits("loop")' = 0
    BY <1>2, <2>2, Zenon DEF waits
  <2>5. waiting' = 0
    <3>1. 0 + (0 + 0) = 0
      OBVIOUS
    <3> QED BY <2>4, <3>1, Zenon DEF waiting
  <2>6. waiting \in Nat
    BY WaitsNat, Sums, Zenon DEF waiting
  <2>7. waiting' \in Nat /\ waiting' <= waiting + 1
    BY <2>5, <2>6
  <2>8. FrameCount'
    BY <1>7, <2>6, <2>7, Zenon
  <2>9. connection' # "up"
    BY <2>1
  <2>10. Transported'
    BY <1>8, <2>9, Zenon
  <2>11. FrameTypes'
    BY <1>6, <2>1, Zenon
  <2> QED BY <1>1, <2>3, <2>8, <2>10, <2>11, Zenon DEF FramingInv
<1>12. CASE UNCHANGED <<connection, sending>>
  <2>1. connection' = connection /\ sending' = sending
    BY <1>12, Zenon
  <2>2. FrameWriters'
    BY <1>2, <1>3, <2>1, Zenon DEF FrameWriters
  <2>3. \A u : waits(u)' = waits(u)
    BY <1>2, <2>1, Zenon DEF waits
  <2>4. waiting' <= waiting + 1 /\ waiting \in Nat /\ waiting' \in Nat
    BY <1>1, <1>9, <2>3, OneMoreWaits, Zenon
  <2>5. FrameCount'
    BY <1>7, <2>4, Zenon
  <2>6. \A tail : Unsent(tail) => Unsent(tail)'
    BY <1>2, <2>1, Zenon DEF Unsent
  <2>7. Transported'
    BY <1>8, <2>6, Zenon
  <2>8. FrameTypes'
    BY <1>6, <2>1, Zenon
  <2> QED BY <1>1, <2>2, <2>5, <2>7, <2>8, Zenon DEF FramingInv
<1> QED BY <1>10, <1>11, <1>12, Zenon DEF SendStep, Effect

(* What send() takes of a frame.                                             *)
LEMMA ChunkFacts ==
  ASSUME FrameTypes, Len(wire) < room, NEW left \in Seq(Nat), left # <<>>
  PROVE  /\ chunk(left) \in Nat /\ chunk(left) <= Len(left)
         /\ Len(wire) + chunk(left) <= room
<1>1. PICK a \in Nat, l \in Nat, s \in Nat : a = Len(wire) /\ l = Len(left) /\ s = room
  BY SeqFacts, Zenon DEF FrameTypes
<1>2. chunk(left) = IF l < s - a THEN l ELSE s - a
  BY <1>1, Zenon DEF chunk
<1>3. a < s
  BY <1>1, Zenon
<1>4. \A n : n = (IF l < s - a THEN l ELSE s - a) => n \in Nat /\ n <= l /\ a + n <= s
  BY ONLY <1>3, a \in Nat, l \in Nat, s \in Nat
<1> QED BY <1>1, <1>2, <1>4, Zenon

(* What is left of a frame after send().                                     *)
Rest(thread, w, rest) ==
  \/ rest = <<>> /\ sending'[thread] = Idle
  \/ /\ rest # <<>> /\ sending'[thread].begun /\ sending'[thread].left = rest
     /\ Writing(sending'[thread])

(* write_exact, as seen from the bytes.                                      *)
WriteStep(thread, w, rest) ==
  /\ w = sending[thread] /\ Writing(w) /\ rest \in Seq(Nat)
  /\ wire' \in Seq(Nat) /\ Len(wire') <= room /\ wire' \o rest = wire \o w.left
  /\ Rest(thread, w, rest)
  /\ sending' = [u \in Threads |-> sending'[u]]
  /\ \A u \in Threads \ {thread} : sending'[u] = sending[u]

(* No byte is lost, sent twice or sent out of its order.                     *)
LEMMA WriteIsStep ==
  ASSUME FramingInv, NEW thread \in Threads, write_exact(thread)
  PROVE  \E w, rest : WriteStep(thread, w, rest)
<1>1. FrameTypes /\ FrameWriters
  BY Zenon DEF FramingInv
<1>2. PICK w : w = sending[thread]
  BY Zenon
<1>3. PICK n : n = chunk(w.left)
  BY Zenon
<1>4. /\ w # Idle /\ Len(wire) < room /\ wire' = wire \o SubSeq(w.left, 1, n)
      /\ sending' = [sending EXCEPT ![thread] =
                       IF n = Len(w.left) THEN Idle
                       ELSE [w EXCEPT !.left = from(w.left, n), !.begun = TRUE]]
  BY <1>2, <1>3, Zenon DEF write_exact
<1>5. Writing(w)
  BY <1>1, <1>2, <1>4, Zenon DEF FrameWriters
<1>6. PICK left \in Seq(Nat) : left = w.left /\ left # <<>>
  BY <1>5, Zenon DEF Writing
<1>7. n \in Nat /\ n <= Len(left) /\ Len(wire) + n <= room
  BY <1>1, <1>3, <1>4, <1>6, ChunkFacts, Zenon
<1>8. PICK head, rest : head = SubSeq(left, 1, n) /\ rest = from(left, n)
  BY Zenon
<1>9. Cut(left, n, head, rest)
  BY <1>7, <1>8, CutAt, Zenon
<1>10. /\ head \in Seq(Nat) /\ rest \in Seq(Nat) /\ Len(head) = n
       /\ Len(rest) = Len(left) - n /\ left = head \o rest
  BY <1>9, Zenon DEF Cut
<1>11. PICK a \in Nat : a = Len(wire) /\ wire \in Seq(Nat)
  BY <1>1, SeqFacts, Zenon DEF FrameTypes
<1>12. Joins(wire', wire, head, a, n)
  BY <1>4, <1>6, <1>7, <1>8, <1>10, <1>11, ConcatFacts, Zenon
<1>13. wire' \in Seq(Nat) /\ Len(wire') <= room
  BY <1>7, <1>11, <1>12, Zenon DEF Joins
<1>14. wire' \o rest = wire \o w.left
  <2>1. Grouped(wire, head, rest)
    BY <1>10, <1>11, Regroup, Zenon
  <2> QED BY <1>4, <1>6, <1>8, <1>10, <2>1, Zenon DEF Grouped
<1>15. PICK v : v = IF n = Len(left) THEN Idle
                    ELSE [w EXCEPT !.left = rest, !.begun = TRUE]
  BY Zenon
<1>16. sending' = [u \in Threads |-> IF u = thread THEN v ELSE sending[u]]
  <2>1. sending = [u \in Threads |-> sending[u]]
    BY <1>1, Zenon DEF FrameWriters
  <2>2. sending' = [sending EXCEPT ![thread] = v]
    BY <1>4, <1>6, <1>8, <1>15, Zenon
  <2> QED BY ONLY <2>1, <2>2, thread \in Threads
<1>17. sending'[thread] = v /\ \A u \in Threads \ {thread} : sending'[u] = sending[u]
  BY <1>16, Zenon
<1>18. sending' = [u \in Threads |-> sending'[u]]
  BY <1>16
<1>19. PICK l \in Nat : l = Len(left)
  BY SeqFacts, Zenon
<1>20. Rest(thread, w, rest)
  <2>1. CASE n = l
    <3>1. v = Idle
      BY <1>15, <1>19, <2>1, Zenon
    <3>2. l - n = 0
      BY ONLY <2>1, l \in Nat
    <3>3. rest = <<>>
      <4>1. ~(Len(rest) \in Nat \ {0})
        BY <1>10, <1>19, <3>2
      <4> QED BY <1>10, <4>1, SeqEmpty, Zenon
    <3> QED BY <1>17, <3>1, <3>3, Zenon DEF Rest
  <2>2. CASE n # l
    <3>1. v = [w EXCEPT !.left = rest, !.begun = TRUE]
      BY <1>15, <1>19, <2>2, Zenon
    <3>2. w = [left |-> w.left, begun |-> w.begun, fits |-> w.fits, meaning |-> w.meaning]
      BY <1>5, Zenon DEF Writing
    <3>3. v = [left |-> rest, begun |-> TRUE, fits |-> w.fits, meaning |-> w.meaning]
      BY ONLY <3>1, <3>2, Zenon
    <3>4. v.left = rest /\ v.begun = TRUE /\ v.fits = w.fits /\ v.meaning = w.meaning
      BY ONLY <3>3
    <3>5. rest # <<>>
      <4>1. l - n # 0
        BY ONLY <2>2, <1>7, l \in Nat
      <4> QED BY <1>10, <1>19, <4>1, SeqEmpty, Zenon
    <3>6. Writing(v)
      BY <1>10, <3>3, <3>4, <3>5, Zenon DEF Writing
    <3> QED BY <1>17, <3>4, <3>5, <3>6, Zenon DEF Rest
  <2> QED BY <2>1, <2>2, Zenon
<1>21. WriteStep(thread, w, rest)
  BY <1>2, <1>5, <1>10, <1>13, <1>14, <1>17, <1>18, <1>20, Zenon DEF WriteStep
<1> QED BY <1>21, Zenon

(* What a thread leaves to be sent when no other is within a frame.          *)
LEMMA UnsentAfter ==
  ASSUME NEW thread \in Threads, NEW w, NEW rest, WriteStep(thread, w, rest),
         Threads' = Threads, \A u \in Threads \ {thread} : ~sending[u].begun
  PROVE  Unsent(rest)'
<1>1. \A u \in Threads \ {thread} : ~sending'[u].begun
  BY Zenon DEF WriteStep
<1>2. CASE rest = <<>> /\ sending'[thread] = Idle
  <2>1. ~sending'[thread].begun
    BY <1>2, IdleFacts, Zenon
  <2> QED BY <1>1, <1>2, <2>1, Zenon DEF Unsent
<1>3. CASE sending'[thread].begun /\ sending'[thread].left = rest
  BY <1>1, <1>3, Zenon DEF Unsent
<1> QED BY <1>2, <1>3, Zenon DEF WriteStep, Rest

(* What was to be sent before.                                               *)
LEMMA UnsentBefore ==
  ASSUME NEW thread \in Threads, NEW tail, Unsent(tail),
         \A u \in Threads \ {thread} : ~sending[u].begun
  PROVE  IF sending[thread].begun THEN tail = sending[thread].left ELSE tail = <<>>
BY Zenon DEF Unsent

(* What was read is still right when a frame is begun.                       *)
LEMMA InOrderKept ==
  ASSUME InOrder, Sequence(received), received' = received,
         \/ meant' = meant
         \/ \E e : Grown(meant', meant, e)
  PROVE  InOrder'
<1>1. CASE meant' = meant
  BY <1>1, Zenon DEF InOrder
<1>2. CASE \E e : Grown(meant', meant, e)
  <2>1. PICK e : Grown(meant', meant, e)
    BY <1>2, Zenon
  <2>2. PICK n \in Nat : /\ n = Len(meant) /\ Len(meant') = n + 1
                         /\ \A i \in 1 .. n : meant'[i] = meant[i]
    BY <2>1, Zenon DEF Grown, Longer
  <2>3. PICK r \in Nat : r = Len(received)
    BY SeqFacts, Zenon DEF Sequence
  <2>4. r <= n
    BY <2>2, <2>3, Zenon DEF InOrder
  <2>5. r <= n + 1 /\ \A k \in 1 .. r : k \in 1 .. n
    BY ONLY <2>4, r \in Nat, n \in Nat
  <2> QED BY <2>2, <2>3, <2>5, Zenon DEF InOrder
<1> QED BY <1>1, <1>2, Zenon

(* write_exact keeps the frames in order on the wire.                        *)
LEMMA WriteTransports ==
  ASSUME FramingInv, NEW thread \in Threads, write_exact(thread), Threads' = Threads
  PROVE  Transported'
<1>1. PICK w, rest : WriteStep(thread, w, rest)
  BY WriteIsStep, Zenon
<1>2. /\ w = sending[thread] /\ Writing(w) /\ rest \in Seq(Nat)
      /\ wire' \o rest = wire \o w.left
  BY <1>1, Zenon DEF WriteStep
<1>3. /\ connection = "up" /\ connection' = connection /\ reading' = reading
      /\ received' = received
      /\ meant' = IF w.begun THEN meant ELSE Append(meant, w.meaning)
      /\ torn' = (torn \/ \E other \in Threads \ {thread} : sending[other].begun)
      /\ too_long' = (too_long \/ ~w.fits)
  BY <1>2, Zenon DEF write_exact
<1>4. FrameTypes /\ Transported
  BY Zenon DEF FramingInv
<1>5. Sequence(received) /\ Sequence(meant) /\ wire \in Seq(Nat)
  BY <1>4, Zenon DEF FrameTypes
<1>6. SUFFICES ASSUME ~torn', ~too_long'
               PROVE  /\ InOrder' /\ Len(reading') < kMbapHeaderSize + U16
                      /\ (connection' # "lost" => OnItsWay')
  BY Zenon DEF Transported
<1>7. /\ ~torn /\ ~too_long /\ w.fits
      /\ \A other \in Threads \ {thread} : ~sending[other].begun
  BY <1>3, <1>6, Zenon
<1>8. InOrder /\ Len(reading) < kMbapHeaderSize + U16 /\ OnItsWay
  <2>1. connection # "lost"
    BY <1>3
  <2> QED BY <1>4, <1>7, <2>1, Zenon DEF Transported
<1>9. PICK F, P, tail :
        /\ tail \in Seq(Nat) /\ Unsent(tail)
        /\ Pending(F, P, meant, Len(meant), Len(received), reading, wire \o tail)
  BY <1>3, <1>8, Zenon DEF OnItsWay
<1>10. Unsent(rest)'
  BY <1>1, <1>7, UnsentAfter, Zenon
<1>11. IF w.begun THEN tail = w.left ELSE tail = <<>>
  BY <1>2, <1>7, <1>9, UnsentBefore, Zenon
<1>12. CASE w.begun
  <2>1. meant' = meant /\ wire' \o rest = wire \o tail
    BY <1>2, <1>3, <1>11, <1>12, Zenon
  <2>2. Pending(F, P, meant', Len(meant'), Len(received'), reading', wire' \o rest)
    BY <1>3, <1>9, <2>1, Zenon
  <2>3. OnItsWay'
    BY <1>2, <1>10, <2>2, Zenon DEF OnItsWay
  <2>4. InOrder'
    BY <1>3, <1>5, <1>8, <2>1, InOrderKept, Zenon
  <2> QED BY <1>3, <1>8, <2>3, <2>4, Zenon
<1>13. CASE ~w.begun
  <2>1. meant' = Append(meant, w.meaning) /\ tail = <<>>
    BY <1>3, <1>11, <1>13, Zenon
  <2>2. Grown(meant', meant, w.meaning)
    BY <1>5, <2>1, Appended, Zenon
  <2>3. Len(meant') = Len(meant) + 1 /\ Longer(meant', meant, Len(meant), w.meaning)
    BY <2>2, Zenon DEF Grown
  <2>4. Framed(w.left, w.meaning)
    BY <1>2, <1>7, <1>13, Zenon DEF Writing
  <2>5. wire \o tail = wire
    BY <1>5, <2>1, SeqNothing, Zenon
  <2>6. Pending(F, P, meant, Len(meant), Len(received), reading, wire)
    BY <1>9, <2>5, Zenon
  <2>7. PICK F2, P2 : Pending(F2, P2, meant', Len(meant) + 1, Len(received), reading,
                              wire \o w.left)
    BY <2>3, <2>4, <2>6, PendingExtended, Zenon
  <2>8. Pending(F2, P2, meant', Len(meant'), Len(received'), reading', wire' \o rest)
    BY <1>2, <1>3, <2>3, <2>7, Zenon
  <2>9. OnItsWay'
    BY <1>2, <1>10, <2>8, Zenon DEF OnItsWay
  <2>10. InOrder'
    BY <1>3, <1>5, <1>8, <2>2, InOrderKept, Zenon
  <2> QED BY <1>3, <1>8, <2>9, <2>10, Zenon
<1> QED BY <1>12, <1>13, Zenon

(* Bytes are written.                                                        *)
LEMMA WriteKeeps ==
  ASSUME FramingInv, NEW thread \in Threads, write_exact(thread)
  PROVE  FramingInv'
<1>1. PICK w, rest : WriteStep(thread, w, rest)
  BY WriteIsStep, Zenon
<1>2. /\ w = sending[thread] /\ Writing(w) /\ Rest(thread, w, rest)
      /\ wire' \in Seq(Nat) /\ Len(wire') <= room
      /\ sending' = [u \in Threads |-> sending'[u]]
      /\ \A u \in Threads \ {thread} : sending'[u] = sending[u]
  BY <1>1, Zenon DEF WriteStep
<1>3. /\ connection' = connection /\ end' = end /\ room' = room /\ frames' = frames
      /\ key_offered_to_' = key_offered_to_ /\ banned_ids_' = banned_ids_
      /\ reading' = reading /\ received' = received /\ w # Idle
      /\ meant' = IF w.begun THEN meant ELSE Append(meant, w.meaning)
  BY <1>2, Zenon DEF write_exact
<1>4. Threads' = Threads
  BY <1>3, Zenon DEF Threads
<1>5. FrameTypes /\ IdTypes /\ FrameWriters /\ FrameCount
  BY Zenon DEF FramingInv
<1>6. Transported'
  BY <1>4, WriteTransports, Zenon
<1>7. Sequence(meant)
  BY <1>5, Zenon DEF FrameTypes
<1>8. ~w.begun => Grown(meant', meant, w.meaning)
  BY <1>3, <1>7, Appended, Zenon
<1>9. FrameTypes'
  <2>1. Sequence(meant')
    BY <1>3, <1>7, <1>8, Zenon DEF Grown
  <2> QED BY <1>2, <1>3, <1>5, <2>1, Zenon DEF FrameTypes
<1>10. IdTypes'
  BY <1>3, <1>5, Zenon DEF IdTypes
<1>11. sending'[thread] = Idle \/ (Writing(sending'[thread]) /\ sending'[thread].begun)
  BY <1>2, Zenon DEF Rest
<1>12. FrameWriters'
  BY <1>2, <1>4, <1>5, <1>11, Zenon DEF FrameWriters
<1>13. waits(thread)' = 0 /\ (~w.begun => waits(thread) = 1) /\ (w.begun => waits(thread) = 0)
  BY <1>2, <1>3, <1>4, <1>11, Zenon DEF waits
<1>14. \A u : u # thread => waits(u)' = waits(u)
  BY <1>2, <1>4, Zenon DEF waits
<1>15. waiting' + waits(thread) = waiting /\ waiting \in Nat /\ waiting' \in Nat
  <2>1. PICK a \in 0 .. 1, b \in 0 .. 1, c \in 0 .. 1 :
          a = waits("input") /\ b = waits("receiver") /\ c = waits("loop")
    BY WaitsNat, Zenon
  <2>2. PICK d \in 0 .. 1, e \in 0 .. 1, f \in 0 .. 1 :
          d = waits("input")' /\ e = waits("receiver")' /\ f = waits("loop")'
    BY WaitsNat, Zenon
  <2>3. PICK z \in 0 .. 1 : z = waits(thread)
    BY WaitsNat, Zenon
  <2>4. (d + (e + f)) + z = a + (b + c)
    <3>1. CASE thread = "input"
      <4>1. z = a /\ d = 0 /\ e = b /\ f = c
        BY <1>13, <1>14, <2>1, <2>2, <2>3, <3>1
      <4> QED BY ONLY <4>1, a \in 0 .. 1, b \in 0 .. 1, c \in 0 .. 1
    <3>2. CASE thread = "receiver"
      <4>1. z = b /\ d = a /\ e = 0 /\ f = c
        BY <1>13, <1>14, <2>1, <2>2, <2>3, <3>2
      <4> QED BY ONLY <4>1, a \in 0 .. 1, b \in 0 .. 1, c \in 0 .. 1
    <3>3. CASE thread = "loop"
      <4>1. z = c /\ d = a /\ e = b /\ f = 0
        BY <1>13, <1>14, <2>1, <2>2, <2>3, <3>3
      <4> QED BY ONLY <4>1, a \in 0 .. 1, b \in 0 .. 1, c \in 0 .. 1
    <3> QED BY <3>1, <3>2, <3>3, ThreadNames, Zenon
  <2>5. waiting = a + (b + c) /\ waiting' = d + (e + f)
    BY <2>1, <2>2, Zenon DEF waiting
  <2> QED BY <2>3, <2>4, <2>5, Sums, Zenon
<1>16. FrameCount'
  <2>1. PICK n \in Nat, k \in Nat, x \in Nat, y \in Nat :
          /\ n = Len(meant) /\ k = frames /\ x = waiting /\ y = waiting'
          /\ n + x <= k /\ k <= MaxFrames
    <3>1. Len(meant) \in Nat
      BY <1>7, SeqFacts, Zenon DEF Sequence
    <3> QED BY <1>5, <1>15, <3>1, Zenon DEF FrameCount
  <2>2. CASE w.begun
    <3>1. y + 0 = x
      BY <1>13, <1>15, <2>1, <2>2, Zenon
    <3>2. n + y <= k
      <4>1. n + x <= k
        BY <2>1, Zenon
      <4> QED BY ONLY <4>1, <3>1, n \in Nat, k \in Nat, x \in Nat, y \in Nat
    <3> QED BY <1>3, <2>1, <2>2, <3>2, Zenon DEF FrameCount
  <2>3. CASE ~w.begun
    <3>1. y + 1 = x /\ Len(meant') = n + 1
      BY <1>8, <1>13, <1>15, <2>1, <2>3, Zenon DEF Grown
    <3>2. (n + 1) + y <= k
      <4>1. n + x <= k
        BY <2>1, Zenon
      <4> QED BY ONLY <4>1, <3>1, n \in Nat, k \in Nat, x \in Nat, y \in Nat
    <3> QED BY <1>3, <2>1, <3>1, <3>2, Zenon DEF FrameCount
  <2> QED BY <2>2, <2>3, Zenon
<1> QED BY <1>6, <1>9, <1>10, <1>12, <1>16, Zenon DEF FramingInv

(* A step that leaves the frames, what was meant by them and what was read   *)
(* as they are.                                                              *)
LEMMA WriterGone ==
  ASSUME FramingInv,
         UNCHANGED <<end, room, frames, wire, reading, received, history>>,
         connection' \in {"closed", "lost"},
         connection = "lost" => connection' = "lost",
         IdTypes', FrameWriters', waiting' \in Nat, waiting \in Nat, waiting' <= waiting
  PROVE  FramingInv'
<1>1. /\ end' = end /\ room' = room /\ frames' = frames /\ wire' = wire
      /\ reading' = reading /\ received' = received
      /\ meant' = meant /\ torn' = torn /\ too_long' = too_long
  BY Zenon DEF history
<1>2. FrameTypes /\ FrameCount /\ Transported
  BY Zenon DEF FramingInv
<1>3. FrameTypes'
  BY <1>1, <1>2, Zenon DEF FrameTypes
<1>4. FrameCount'
  <2>1. PICK n \in Nat, k \in Nat, x \in Nat, y \in Nat :
          n = Len(meant) /\ k = frames /\ x = waiting /\ y = waiting'
    <3>1. Len(meant) \in Nat
      BY <1>2, SeqFacts, Zenon DEF FrameTypes, Sequence
    <3> QED BY <1>2, <3>1, Zenon DEF FrameCount
  <2>2. n + x <= k /\ y <= x
    BY <1>2, <2>1, Zenon DEF FrameCount
  <2>3. n + y <= k
    BY ONLY <2>2, n \in Nat, k \in Nat, x \in Nat, y \in Nat
  <2> QED BY <1>1, <1>2, <2>1, <2>3, Zenon DEF FrameCount
<1>5. Transported'
  <2>1. OnItsWay => OnItsWay'
    <3>1. connection' # "up"
      OBVIOUS
    <3> QED BY <1>1, <3>1, Zenon DEF OnItsWay
  <2>2. InOrder => InOrder'
    BY <1>1, Zenon DEF InOrder
  <2> QED BY <1>1, <1>2, <2>1, <2>2, Zenon DEF Transported
<1> QED BY <1>3, <1>4, <1>5, Zenon DEF FramingInv

(* The writer ends, or is found to be gone.                                  *)
LEMMA EndsKeep ==
  ASSUME FramingInv, hang_up \/ read_fails \/ \E thread \in Threads : write_fails(thread)
  PROVE  FramingInv'
<1>1. /\ UNCHANGED <<end, room, frames, wire, reading, received, history>>
      /\ banned_ids_' = banned_ids_ /\ key_offered_to_' \subseteq key_offered_to_
  BY Zenon DEF hang_up, read_fails, write_fails, writers
<1>2. Threads' = Threads
  BY <1>1, Zenon DEF Threads
<1>3. IdTypes /\ FrameWriters
  BY Zenon DEF FramingInv
<1>4. IdTypes'
  BY <1>1, <1>3, Zenon DEF IdTypes
<1>5. waiting \in Nat /\ waiting' \in Nat
  BY WaitsNat, Sums, Zenon DEF waiting
<1>6. ASSUME \A u \in Threads : sending'[u] = Idle \/ sending'[u] = sending[u],
             sending' = [u \in Threads |-> sending'[u]]
      PROVE  FrameWriters' /\ waiting' <= waiting
  <2>1. FrameWriters'
    BY <1>2, <1>3, <1>6, Zenon DEF FrameWriters
  <2>2. PICK a \in 0 .. 1, b \in 0 .. 1, c \in 0 .. 1 :
          a = waits("input") /\ b = waits("receiver") /\ c = waits("loop")
    BY WaitsNat, Zenon
  <2>3. PICK d \in 0 .. 1, e \in 0 .. 1, f \in 0 .. 1 :
          d = waits("input")' /\ e = waits("receiver")' /\ f = waits("loop")'
    BY WaitsNat, Zenon
  <2>4. \A u : waits(u)' = waits(u) \/ waits(u)' = 0
    BY <1>2, <1>6, Zenon DEF waits
  <2>5. (d = a \/ d = 0) /\ (e = b \/ e = 0) /\ (f = c \/ f = 0)
    BY <2>2, <2>3, <2>4, Zenon
  <2>6. d + (e + f) <= a + (b + c)
    BY ONLY <2>5, a \in 0 .. 1, b \in 0 .. 1, c \in 0 .. 1
  <2>7. waiting = a + (b + c) /\ waiting' = d + (e + f)
    BY <2>2, <2>3, Zenon DEF waiting
  <2> QED BY <2>1, <2>6, <2>7, Zenon
<1>7. sending = [u \in Threads |-> sending[u]]
  BY <1>3, Zenon DEF FrameWriters
<1>8. CASE hang_up
  <2>1. connection = "up" /\ connection' = "closed" /\ sending' = [u \in Threads |-> Idle]
    BY <1>8, Zenon DEF hang_up, process_ends
  <2>2. \A u \in Threads : sending'[u] = Idle
    BY <2>1, Zenon
  <2>3. sending' = [u \in Threads |-> sending'[u]]
    BY <2>1, <2>2, Zenon
  <2>4. FrameWriters' /\ waiting' <= waiting
    BY <1>6, <2>2, <2>3, Zenon
  <2>5. connection # "lost"
    BY <2>1
  <2> QED BY <1>1, <1>4, <1>5, <2>1, <2>4, <2>5, WriterGone, Zenon
<1>9. CASE read_fails
  <2>1. connection' = "lost" /\ sending' = sending
    BY <1>9, Zenon DEF read_fails, writers
  <2>2. FrameWriters' /\ waiting' <= waiting
    BY <1>6, <1>7, <2>1, Zenon
  <2> QED BY <1>1, <1>4, <1>5, <2>1, <2>2, WriterGone, Zenon
<1>10. CASE \E thread \in Threads : write_fails(thread)
  <2>1. PICK thread \in Threads : write_fails(thread)
    BY <1>10, Zenon
  <2>2. /\ connection = "lost" /\ connection' = connection
        /\ sending' = [sending EXCEPT ![thread] = Idle]
    BY <2>1, Zenon DEF write_fails
  <2>3. sending' = [u \in Threads |-> IF u = thread THEN Idle ELSE sending[u]]
    BY ONLY <1>7, <2>2
  <2>4. \A u \in Threads : sending'[u] = Idle \/ sending'[u] = sending[u]
    BY <2>3, Zenon
  <2>5. sending' = [u \in Threads |-> sending'[u]]
    BY ONLY <2>3
  <2>6. FrameWriters' /\ waiting' <= waiting
    BY <1>6, <2>4, <2>5, Zenon
  <2> QED BY <1>1, <1>4, <1>5, <2>2, <2>6, WriterGone, Zenon
<1> QED BY <1>8, <1>9, <1>10, Zenon

-------------------------------------------------------------------------------
(* read_frame, as seen from the bytes.                                       *)
ReadStep(head, bytes) ==
  /\ head \in Seq(Nat) /\ head # <<>> /\ Missing(reading, Len(head))
  /\ wire = head \o wire' /\ wire' \in Seq(Nat) /\ Len(wire') <= room
  /\ bytes = reading \o head /\ bytes \in Seq(Nat) /\ Len(bytes) <= size(bytes)
  /\ connection # "lost"
  /\ reading' = IF Len(bytes) = size(bytes) THEN <<>> ELSE bytes
  /\ received' = IF Len(bytes) = size(bytes) /\ Len(bytes) # kMbapHeaderSize
                 THEN Append(received, decode_app_message(from(bytes, kMbapHeaderSize)))
                 ELSE received
  /\ connection' = IF Len(bytes) = size(bytes) /\ Len(bytes) = kMbapHeaderSize
                   THEN "lost" ELSE connection
  /\ UNCHANGED <<end, room, writers, history>>

(* read_exact takes bytes that are there, and none it did not ask for.       *)
LEMMA ReadIsStep ==
  ASSUME FramingInv, read_frame
  PROVE  \E head, bytes : ReadStep(head, bytes)
<1>1. /\ room \in Nat /\ wire \in Seq(Nat) /\ Len(wire) <= room
      /\ reading \in Seq(Nat) /\ Len(reading) < size(reading)
  BY Zenon DEF FramingInv, FrameTypes
<1>2. PICK n : n = take(size(reading) - Len(reading))
  BY Zenon
<1>3. PICK bytes : bytes = reading \o SubSeq(wire, 1, n)
  BY Zenon
<1>4. connection # "lost" /\ wire # <<>> /\ wire' = from(wire, n)
  BY <1>2, Zenon DEF read_frame
<1>5. PICK a \in Nat, x \in Nat, s \in Nat, k \in Nat :
        a = Len(wire) /\ x = Len(reading) /\ s = size(reading) /\ k = room
  BY <1>1, SeqFacts, SizeNat, Zenon
<1>6. a # 0
  BY <1>1, <1>4, <1>5, SeqEmpty, Zenon
<1>7. n = IF a < s - x THEN a ELSE s - x
  BY <1>2, <1>5, Zenon DEF take
<1>8. x < s /\ a <= k
  BY <1>1, <1>5, Zenon
<1>9. n \in Nat /\ n <= a /\ n <= s - x /\ n # 0 /\ a - n <= k
  BY ONLY <1>6, <1>7, <1>8, a \in Nat, x \in Nat, s \in Nat, k \in Nat
<1>10. PICK head : head = SubSeq(wire, 1, n)
  BY Zenon
<1>11. Cut(wire, n, head, wire')
  BY <1>1, <1>4, <1>5, <1>9, <1>10, CutAt, Zenon
<1>12. /\ head \in Seq(Nat) /\ wire' \in Seq(Nat) /\ Len(head) = n /\ Len(wire') = a - n
       /\ wire = head \o wire'
  BY <1>5, <1>11, Zenon DEF Cut
<1>13. head # <<>> /\ Len(wire') <= room /\ Missing(reading, Len(head))
  BY <1>5, <1>9, <1>12, SeqEmpty, Zenon DEF Missing
<1>14. bytes = reading \o head /\ Len(bytes) <= size(bytes)
  BY <1>1, <1>3, <1>10, <1>12, <1>13, SizeKept, Zenon
<1>15. bytes \in Seq(Nat)
  BY <1>1, <1>12, <1>14, SeqConcat, Zenon
<1>16. /\ reading' = IF Len(bytes) = size(bytes) THEN <<>> ELSE bytes
       /\ received' = IF Len(bytes) = size(bytes) /\ Len(bytes) # kMbapHeaderSize
                      THEN Append(received, decode_app_message(from(bytes, kMbapHeaderSize)))
                      ELSE received
       /\ connection' = IF Len(bytes) = size(bytes) /\ Len(bytes) = kMbapHeaderSize
                        THEN "lost" ELSE connection
       /\ UNCHANGED <<end, room, writers, history>>
  BY <1>2, <1>3, Zenon DEF read_frame
<1>17. ReadStep(head, bytes)
  BY <1>4, <1>12, <1>13, <1>14, <1>15, <1>16, Zenon DEF ReadStep
<1> QED BY <1>17, Zenon

(* What arrives is read as it was meant.                                     *)
LEMMA ReadTransports ==
  ASSUME FramingInv, NEW head, NEW bytes, ReadStep(head, bytes)
  PROVE  Transported'
<1>1. /\ head \in Seq(Nat) /\ head # <<>> /\ Missing(reading, Len(head))
      /\ wire = head \o wire' /\ wire' \in Seq(Nat)
      /\ bytes = reading \o head /\ connection # "lost"
      /\ reading' = IF Len(bytes) = size(bytes) THEN <<>> ELSE bytes
      /\ received' = IF Len(bytes) = size(bytes) /\ Len(bytes) # kMbapHeaderSize
                     THEN Append(received, decode_app_message(from(bytes, kMbapHeaderSize)))
                     ELSE received
      /\ connection' = IF Len(bytes) = size(bytes) /\ Len(bytes) = kMbapHeaderSize
                       THEN "lost" ELSE connection
      /\ end' = end /\ sending' = sending
      /\ meant' = meant /\ torn' = torn /\ too_long' = too_long
  BY Zenon DEF ReadStep, writers, history
<1>2. Sequence(received) /\ Transported
  BY Zenon DEF FramingInv, FrameTypes
<1>3. SUFFICES ASSUME ~torn, ~too_long
               PROVE  /\ InOrder' /\ Len(reading') < kMbapHeaderSize + U16
                      /\ (connection' # "lost" => OnItsWay')
  BY <1>1, Zenon DEF Transported
<1>4. InOrder /\ OnItsWay
  BY <1>1, <1>2, <1>3, Zenon DEF Transported
<1>5. PICK F, P, tail :
        /\ tail \in Seq(Nat) /\ (connection = "up" => Unsent(tail))
        /\ Pending(F, P, meant, Len(meant), Len(received), reading, wire \o tail)
  BY <1>4, Zenon DEF OnItsWay
<1>6. PICK rest : rest = wire' \o tail
  BY Zenon
<1>7. wire \o tail = head \o rest /\ rest \in Seq(Nat)
  <2>1. Grouped(head, wire', tail)
    BY <1>1, <1>5, Regroup, Zenon
  <2>2. wire \o tail = head \o rest
    BY <1>1, <1>6, <2>1, Zenon DEF Grouped
  <2>3. wire' \o tail \in Seq(Nat)
    BY <1>1, <1>5, SeqConcat, Zenon
  <2> QED BY <1>6, <2>2, <2>3, Zenon
<1>8. Pending(F, P, meant, Len(meant), Len(received), reading, head \o rest)
  BY <1>5, <1>7, Zenon
<1>9. Advanced(F, P, meant, Len(meant), Len(received), bytes, rest)
  BY <1>1, <1>7, <1>8, PendingRead, Zenon
<1>10. ASSUME connection' = connection,
              Pending(F, P, meant, Len(meant), Len(received'), reading', rest)
       PROVE  /\ Len(reading') < kMbapHeaderSize + U16 /\ OnItsWay'
  <2>1. Len(reading') < kMbapHeaderSize + U16
    BY <1>10, PendingShort, Zenon
  <2>2. Threads' = Threads
    BY <1>1, Zenon DEF Threads
  <2>3. Unsent(tail) => Unsent(tail)'
    BY <1>1, <2>2, Zenon DEF Unsent
  <2>4. OnItsWay'
    BY <1>1, <1>5, <1>6, <1>10, <2>3, Zenon DEF OnItsWay
  <2> QED BY <2>1, <2>4, Zenon
<1>11. CASE Len(bytes) = size(bytes)
  <2>1. PICK m : m = decode_app_message(from(bytes, kMbapHeaderSize))
    BY Zenon
  <2>2. /\ Len(bytes) # kMbapHeaderSize /\ Len(received) + 1 \in 1 .. Len(meant)
        /\ understood(m) = meant[Len(received) + 1]
        /\ Pending(F, P, meant, Len(meant), Len(received) + 1, <<>>, rest)
    BY <1>9, <1>11, <2>1, Zenon DEF Advanced
  <2>3. reading' = <<>> /\ received' = Append(received, m) /\ connection' = connection
    BY <1>1, <1>11, <2>1, <2>2, Zenon
  <2>4. Grown(received', received, m)
    BY <1>2, <2>3, Appended, Zenon
  <2>5. PICK r \in Nat : /\ r = Len(received) /\ Len(received') = r + 1
                         /\ received'[r + 1] = m
                         /\ \A i \in 1 .. r : received'[i] = received[i]
    BY <2>4, Zenon DEF Grown, Longer
  <2>6. Len(reading') < kMbapHeaderSize + U16 /\ OnItsWay'
    BY <1>10, <2>2, <2>3, <2>5, Zenon
  <2>7. \A k \in 1 .. r + 1 : k \in 1 .. r \/ k = r + 1
    BY ONLY r \in Nat
  <2>8. \A k \in 1 .. r + 1 : understood(received'[k]) = meant[k]
    BY <1>4, <2>2, <2>5, <2>7, Zenon DEF InOrder
  <2>9. r + 1 <= Len(meant)
    <3>1. r + 1 \in 1 .. Len(meant)
      BY <2>2, <2>5, Zenon
    <3>2. Len(meant) \in Nat
      BY SeqFacts, Zenon DEF FramingInv, FrameTypes, Sequence
    <3> QED BY ONLY <3>1, <3>2
  <2>10. InOrder'
    BY <1>1, <2>5, <2>8, <2>9, Zenon DEF InOrder
  <2> QED BY <2>6, <2>10, Zenon
<1>12. CASE Len(bytes) # size(bytes)
  <2>1. Pending(F, P, meant, Len(meant), Len(received), bytes, rest)
    BY <1>9, <1>12, Zenon DEF Advanced
  <2>2. reading' = bytes /\ received' = received /\ connection' = connection
    BY <1>1, <1>12, Zenon
  <2>3. Len(reading') < kMbapHeaderSize + U16 /\ OnItsWay'
    BY <1>10, <2>1, <2>2, Zenon
  <2>4. InOrder'
    BY <1>1, <1>4, <2>2, Zenon DEF InOrder
  <2> QED BY <2>3, <2>4, Zenon
<1> QED BY <1>11, <1>12, Zenon

(* Bytes are read.                                                           *)
LEMMA ReadKeeps ==
  ASSUME FramingInv, read_frame
  PROVE  FramingInv'
<1>1. PICK head, bytes : ReadStep(head, bytes)
  BY ReadIsStep, Zenon
<1>2. /\ wire' \in Seq(Nat) /\ Len(wire') <= room
      /\ bytes \in Seq(Nat) /\ Len(bytes) <= size(bytes)
      /\ reading' = IF Len(bytes) = size(bytes) THEN <<>> ELSE bytes
      /\ \/ received' = received
         \/ received' = Append(received, decode_app_message(from(bytes, kMbapHeaderSize)))
      /\ connection' \in {"lost", connection}
      /\ end' = end /\ room' = room /\ sending' = sending /\ frames' = frames
      /\ key_offered_to_' = key_offered_to_ /\ banned_ids_' = banned_ids_
      /\ meant' = meant
  BY <1>1, Zenon DEF ReadStep, writers, history
<1>3. Threads' = Threads
  BY <1>2, Zenon DEF Threads
<1>4. FrameTypes /\ IdTypes /\ FrameWriters /\ FrameCount
  BY Zenon DEF FramingInv
<1>5. Transported'
  BY <1>1, ReadTransports, Zenon
<1>6. IdTypes' /\ FrameWriters'
  BY <1>2, <1>3, <1>4, Zenon DEF IdTypes, FrameWriters
<1>7. FrameCount'
  <2>1. \A u : waits(u)' = waits(u)
    BY <1>2, <1>3, Zenon DEF waits
  <2> QED BY <1>2, <1>4, <2>1, Zenon DEF FrameCount, waiting
<1>8. Sequence(received')
  <2>1. Sequence(received)
    BY <1>4, Zenon DEF FrameTypes
  <2> QED BY <1>2, <2>1, Appended, Zenon DEF Grown
<1>9. reading' \in Seq(Nat) /\ Len(reading') < size(reading')
  <2>1. CASE Len(bytes) = size(bytes)
    <3>1. reading' = <<>>
      BY <1>2, <2>1, Zenon
    <3>2. <<>> \in Seq(Nat) /\ Len(<<>>) = 0 /\ size(<<>>) \in Nat /\ size(<<>>) >= 6
      BY SeqEmpty, SizeNat, Zenon
    <3>3. 0 < size(<<>>)
      BY ONLY <3>2
    <3> QED BY <3>1, <3>2, <3>3, Zenon
  <2>2. CASE Len(bytes) # size(bytes)
    <3>1. PICK b \in Nat, s \in Nat : b = Len(bytes) /\ s = size(bytes)
      BY <1>2, SeqFacts, SizeNat, Zenon
    <3>2. b <= s /\ b # s
      BY <1>2, <2>2, <3>1, Zenon
    <3>3. b < s
      BY ONLY <3>2, b \in Nat, s \in Nat
    <3> QED BY <1>2, <2>2, <3>1, <3>3, Zenon
  <2> QED BY <2>1, <2>2, Zenon
<1>10. FrameTypes'
  BY <1>2, <1>4, <1>8, <1>9, Zenon DEF FrameTypes
<1> QED BY <1>5, <1>6, <1>7, <1>10, Zenon DEF FramingInv

(* What write_frame starts with: the whole frame of the message.             *)
LEMMA ReadyWritten ==
  ASSUME NEW m, NEW asked, Ready(m, asked), NEW thread, write_frame(thread, m, asked),
         connection' = connection
  PROVE  \E w : Started(thread, w)
<1>1. PICK f, meaning, fit : /\ f = encode(m) /\ fit = fits(m)
                             /\ meaning = IF asked = NoId THEN understood(m) ELSE asked
  BY Zenon
<1>2. meaning = understood(m)
  BY <1>1, Zenon DEF Ready
<1>3. Frame(f, m) /\ (fit => Sized(f))
  BY <1>1, MessageRoundTrip, Zenon DEF Ready
<1>4. f \in Seq(Nat) /\ Len(f) >= 9 /\ decode_app_message(from(f, kMbapHeaderSize)) = m
  BY <1>3, Zenon DEF Frame
<1>5. fit => Framed(f, meaning)
  BY <1>2, <1>3, <1>4, Zenon DEF Framed
<1>6. f # <<>>
  BY <1>4
<1>7. PICK w : w = [left |-> f, begun |-> FALSE, fits |-> fit, meaning |-> meaning]
  BY Zenon
<1>8. w.left = f /\ w.begun = FALSE /\ w.fits = fit /\ w.meaning = meaning
  BY ONLY <1>7
<1>9. Writing(w) /\ ~w.begun
  BY <1>4, <1>5, <1>6, <1>7, <1>8, Zenon DEF Writing
<1>10. sending' = [sending EXCEPT ![thread] = w]
  BY <1>1, <1>7, Zenon DEF write_frame
<1> QED BY <1>9, <1>10, Zenon DEF Started

(* The ids keys were offered to are ids.                                     *)
OfferedIds == key_offered_to_ \subseteq 1 .. U32 - 1

(* A message is sent, or it cannot be encoded and the process ends.          *)
LEMMA SendEffect ==
  ASSUME NEW thread, NEW m, NEW asked, send(thread, m, asked),
         encode(m) # Throws => Ready(m, asked)
  PROVE  Effect(thread)
<1>1. CASE encode(m) = Throws
  BY <1>1, Zenon DEF send, Effect
<1>2. CASE encode(m) # Throws
  <2>1. write_frame(thread, m, asked) /\ connection' = connection
    BY <1>2, Zenon DEF send
  <2> QED BY <1>2, <2>1, ReadyWritten, Zenon DEF Effect
<1> QED BY <1>1, <1>2, Zenon

(* A key is offered to an id other than 0, with the client's own key.        *)
LEMMA OfferEffect ==
  ASSUME NEW thread, NEW id \in Ids, NEW asked, send_key_offer(thread, id, asked),
         asked = NoId \/ asked = ToPeer("KeyOffer", id, <<MyId>>), OfferedIds
  PROVE  Effect(thread) /\ OfferedIds'
<1>1. <<MyId>> \in Strings
  <2>1. MyId \in 0 .. U32 - 1
    BY FramingConstants, Zenon DEF Ids
  <2>2. MyId \in Nat
    BY <2>1, Sizes
  <2>3. <<MyId>> \in Seq(Nat) /\ Len(<<MyId>>) = 1
    BY <2>2
  <2>4. 1 <= U16 - 1
    BY RadixAssumption DEF U16
  <2> QED BY <2>3, <2>4, Zenon DEF Strings, kMaxU16Count
<1>2. CASE offer_due(id)
  <2>1. /\ key_offered_to_' = key_offered_to_ \union {id} /\ connection' = connection
        /\ write_frame(thread, build_by_id("KeyOffer", MyId, id, <<MyId>>), asked)
        /\ id # 0
    BY <1>2, Zenon DEF send_key_offer, offer_due
  <2>2. Ready(build_by_id("KeyOffer", MyId, id, <<MyId>>), asked)
    <3>1. "KeyOffer" \in {"Chat", "KeyOffer"}
      OBVIOUS
    <3>2. Ready(build_by_id("KeyOffer", MyId, id, <<MyId>>), ToPeer("KeyOffer", id, <<MyId>>))
      BY <1>1, <3>1, BuiltById, Zenon
    <3> QED BY <3>2, Zenon DEF Ready
  <2>3. id \in 1 .. U32 - 1
    <3>1. id \in 0 .. U32 - 1 /\ id # 0
      BY <2>1, Zenon DEF Ids
    <3> QED BY <3>1, Sizes
  <2>4. OfferedIds'
    BY <2>1, <2>3, Zenon DEF OfferedIds
  <2> QED BY <2>1, <2>2, <2>4, ReadyWritten, Zenon DEF Effect
<1>3. CASE ~offer_due(id)
  BY <1>3, Zenon DEF send_key_offer, nothing_sent, Effect, OfferedIds
<1> QED BY <1>2, <1>3, Zenon

(* A text is sent to an id.                                                  *)
LEMMA ChatEffect ==
  ASSUME NEW id, NEW text \in Seq(Nat), NEW asked,
         send_encrypted_chat_by_id(id, text, asked),
         asked = NoId \/ asked = ToPeer("Chat", id, text), OfferedIds
  PROVE  Effect("input") /\ OfferedIds'
<1>1. CASE id \in Peers
  <2>1. id \in Ids
    BY <1>1, FramingConstants, Zenon
  <2>2. PICK m : m = build_by_id("Chat", MyId, id, text)
    BY Zenon
  <2>3. send("input", m, asked) /\ key_offered_to_' = key_offered_to_
    BY <1>1, <2>2, Zenon DEF send_encrypted_chat_by_id, send_input
  <2>4. ASSUME encode(m) # Throws PROVE Ready(m, asked)
    <3>1. "Chat" \in ChatTypes /\ "Chat" \in {"Chat", "KeyOffer"}
      BY DEF ChatTypes
    <3>2. text \in Strings
      BY <2>2, <2>4, <3>1, LongTextThrows, Zenon DEF build_by_id
    <3>3. Ready(m, ToPeer("Chat", id, text))
      BY <2>1, <2>2, <3>1, <3>2, BuiltById, Zenon
    <3> QED BY <3>3, Zenon DEF Ready
  <2>5. Effect("input")
    BY <2>3, <2>4, SendEffect, Zenon
  <2> QED BY <2>3, <2>5, Zenon DEF OfferedIds
<1>2. CASE id \notin Peers
  BY <1>2, Zenon DEF send_encrypted_chat_by_id, nothing_sent, Effect, OfferedIds
<1> QED BY <1>1, <1>2, Zenon

(* A text is sent to everyone.                                               *)
LEMMA BroadcastEffect ==
  ASSUME NEW text \in Seq(Nat), NEW asked, send_encrypted_broadcast(text, asked),
         asked = [type |-> "Chat", from_id |-> MyId, text |-> text, to |-> <<"all">>],
         OfferedIds
  PROVE  Effect("input") /\ OfferedIds'
<1>1. CASE send_input(build_chat_broadcast(MyId, text), asked)
  <2>1. PICK m : m = build_chat_broadcast(MyId, text)
    BY Zenon
  <2>2. send("input", m, asked) /\ key_offered_to_' = key_offered_to_
    BY <1>1, <2>1, Zenon DEF send_input
  <2>3. ASSUME encode(m) # Throws PROVE Ready(m, asked)
    <3>1. "Chat" \in ChatTypes
      BY DEF ChatTypes
    <3>2. text \in Strings
      BY <2>1, <2>3, <3>1, LongTextThrows, Zenon DEF build_chat_broadcast
    <3> QED BY <2>1, <3>2, BuiltBroadcast, Zenon
  <2>4. Effect("input")
    BY <2>2, <2>3, SendEffect, Zenon
  <2> QED BY <2>2, <2>4, Zenon DEF OfferedIds
<1>2. CASE nothing_sent
  BY <1>2, Zenon DEF nothing_sent, Effect, OfferedIds
<1> QED BY <1>1, <1>2, Zenon DEF send_encrypted_broadcast

-------------------------------------------------------------------------------
(* A command of a type, which is no exception.                               *)
Told(command, type) == command # Throws /\ command.type = type

(* A command a parser returned, told by its type.                            *)
LEMMA Telling ==
  ASSUME NEW command \in Commands, NEW type, command.type = type
  PROVE  Told(command, type)
BY CommandsAssumption, Zenon DEF Told

(* "/users"                                                                  *)
LEMMA UsersLine ==
  ASSUME NEW line, line.form = "/users", handle_input_command(parse_input_line(line), line),
         OfferedIds
  PROVE  Effect("input") /\ OfferedIds'
<1>1. PICK m : m = [type |-> "ListUsers"]
  BY Zenon
<1>2. m.type = "ListUsers"
  BY ONLY <1>1
<1>3. parse_input_line(line) = m /\ Asked(line) = m
  BY <1>1, Zenon DEF parse_input_line, Asked
<1>4. m \in Commands
  BY <1>1 DEF Commands
<1>5. Told(m, "ListUsers")
  BY <1>2, <1>4, Telling, Zenon
<1>6. send("input", m, m) /\ key_offered_to_' = key_offered_to_
  <2>1. "ListUsers" \notin {"Exit", "Invalid", "KeyOffer", "ChatById", "ChatByNickname",
                            "ChatBroadcast"}
    OBVIOUS
  <2> QED BY <1>1, <1>3, <1>5, <2>1, Zenon DEF handle_input_command, Told, send_input
<1>7. m \in AppMessages
  BY <1>1, Zenon DEF AppMessages, PlainMessages
<1>8. understood(m) = m
  <2>1. "ListUsers" \notin ChatTypes /\ "ListUsers" # "BannedIds"
    BY DEF ChatTypes
  <2> QED BY <1>2, <1>5, <2>1, Zenon DEF understood, Told
<1>9. Effect("input")
  BY <1>6, <1>7, <1>8, SendEffect, Zenon DEF Ready
<1> QED BY <1>6, <1>9, Zenon DEF OfferedIds

(* What is no command sends nothing.                                         *)
LEMMA NoCommand ==
  ASSUME NEW line, handle_input_command(Invalid, line), OfferedIds
  PROVE  Effect("input") /\ OfferedIds'
<1>1. PICK command : command = Invalid
  BY Zenon
<1>2. command \in Commands /\ command.type = "Invalid"
  BY <1>1 DEF Invalid, Commands
<1>3. Told(command, "Invalid")
  BY <1>2, Telling, Zenon
<1>4. "Invalid" \notin {"Exit", "ListUsers", "KeyOffer", "ChatById", "ChatByNickname",
                        "ChatBroadcast"}
  OBVIOUS
<1>5. nothing_sent
  BY <1>1, <1>3, <1>4, Zenon DEF handle_input_command, Told
<1> QED BY <1>5, Zenon DEF nothing_sent, Effect, OfferedIds

(* "/exit", which ends the process, and an empty line, which is no command.  *)
LEMMA OtherLine ==
  ASSUME NEW line, line.form = "/exit" \/ line.form = "",
         handle_input_command(parse_input_line(line), line), OfferedIds
  PROVE  Effect("input") /\ OfferedIds'
<1>1. CASE line.form = "/exit"
  <2>1. PICK command : command = [type |-> "Exit"]
    BY Zenon
  <2>2. command.type = "Exit"
    BY ONLY <2>1
  <2>3. parse_input_line(line) = command
    <3>1. "/exit" \notin {"/users", "/key", "message"}
      BY Zenon
    <3> QED BY <1>1, <2>1, <3>1, Zenon DEF parse_input_line
  <2>4. process_ends /\ key_offered_to_' = key_offered_to_
    BY <2>2, <2>3, Zenon DEF handle_input_command
  <2> QED BY <2>4, Zenon DEF Effect, OfferedIds
<1>2. CASE line.form = ""
  <2>1. parse_input_line(line) = Invalid
    <3>1. "" \notin {"/users", "/exit", "/key", "message"}
      BY Zenon
    <3> QED BY <1>2, <3>1, Zenon DEF parse_input_line
  <2> QED BY <2>1, NoCommand, Zenon
<1> QED BY <1>1, <1>2, Zenon

(* "/key <id>"                                                               *)
LEMMA KeyLine ==
  ASSUME NEW line, line.form = "/key", line.argument \in Tokens,
         handle_input_command(parse_input_line(line), line), OfferedIds
  PROVE  Effect("input") /\ OfferedIds'
<1>1. PICK token \in Tokens : token = line.argument
  BY Zenon
<1>2. PICK command : command = parse_key(token)
  BY Zenon
<1>3. parse_input_line(line) = command /\ Asked(line) = ToNumber("KeyOffer", token, <<MyId>>)
  <2>1. "/key" # "/users" /\ "/key" # "/exit"
    OBVIOUS
  <2> QED BY <1>1, <1>2, <2>1, Zenon DEF parse_input_line, Asked
<1>4. CASE command = Invalid
  BY <1>3, <1>4, NoCommand, Zenon
<1>5. CASE command # Invalid
  <2>1. stoul(token) # Throws /\ command = [type |-> "KeyOffer", id |-> stoul(token) % U32]
    BY <1>2, <1>5, Zenon DEF parse_key
  <2>2. PICK id \in Ids : id = stoul(token) % U32
    BY <2>1, Parsed, Zenon
  <2>3. command.type = "KeyOffer" /\ command.id = id
    BY <2>1, <2>2
  <2>4. command \in Commands
    BY <2>1, <2>2, Zenon DEF Commands
  <2>5. Told(command, "KeyOffer")
    BY <2>3, <2>4, Telling, Zenon
  <2>6. send_key_offer("input", id, Asked(line))
    <3>1. "KeyOffer" \notin {"Exit", "Invalid", "ListUsers", "ChatById",
                             "ChatByNickname", "ChatBroadcast"}
      OBVIOUS
    <3> QED BY <1>3, <2>3, <2>5, <3>1, Zenon DEF handle_input_command, Told
  <2>7. Asked(line) = NoId \/ Asked(line) = ToPeer("KeyOffer", id, <<MyId>>)
    BY <1>3, <2>1, <2>2, NumberMeans, Zenon
  <2> QED BY <2>6, <2>7, OfferEffect, Zenon
<1> QED BY <1>4, <1>5, Zenon

(* "<id>:<text>"                                                             *)
LEMMA NumberLine ==
  ASSUME NEW line, line.form = "message", line.recipient \in Tokens, line.text \in Seq(Nat),
         line.recipient.kind = "number",
         handle_input_command(parse_input_line(line), line), OfferedIds
  PROVE  Effect("input") /\ OfferedIds'
<1>1. PICK token \in Tokens, text \in Seq(Nat) : token = line.recipient /\ text = line.text
  BY Zenon
<1>2. PICK command : command = parse_id_message(line)
  BY Zenon
<1>3. parse_input_line(line) = command /\ Asked(line) = ToNumber("Chat", token, text)
  <2>1. "message" \notin {"/users", "/exit", "/key", "ban:"} /\ "number" # "name"
    OBVIOUS
  <2>2. token # all
    BY <1>1 DEF all
  <2> QED BY <1>1, <1>2, <2>1, <2>2, Zenon DEF parse_input_line, is_numeric_recipient, Asked
<1>4. CASE stoul(token) = Throws
  <2>1. command = Throws
    BY <1>1, <1>2, <1>4, Zenon DEF parse_id_message
  <2>2. process_ends /\ key_offered_to_' = key_offered_to_
    BY <1>3, <2>1, Zenon DEF handle_input_command
  <2> QED BY <2>2, Zenon DEF Effect, OfferedIds
<1>5. CASE stoul(token) # Throws
  <2>1. PICK id \in Ids : id = stoul(token) % U32
    BY <1>5, Parsed, Zenon
  <2>2. command = [type |-> "ChatById", id |-> id, text |-> text]
    BY <1>1, <1>2, <1>5, <2>1, Zenon DEF parse_id_message
  <2>3. command.type = "ChatById" /\ command.id = id /\ command.text = text
    BY <2>2
  <2>4. command \in Commands
    BY <2>2, Zenon DEF Commands
  <2>5. Told(command, "ChatById")
    BY <2>3, <2>4, Telling, Zenon
  <2>6. send_encrypted_chat_by_id(id, text, Asked(line))
    <3>1. "ChatById" \notin {"Exit", "Invalid", "ListUsers", "KeyOffer",
                             "ChatByNickname", "ChatBroadcast"}
      OBVIOUS
    <3> QED BY <1>3, <2>3, <2>5, <3>1, Zenon DEF handle_input_command, Told
  <2>7. Asked(line) = NoId \/ Asked(line) = ToPeer("Chat", id, text)
    BY <1>3, <1>5, <2>1, NumberMeans, Zenon
  <2> QED BY <2>6, <2>7, ChatEffect, Zenon
<1> QED BY <1>4, <1>5, Zenon

(* "<nickname>:<text>"                                                       *)
LEMMA NameLine ==
  ASSUME NEW line, line.form = "message", line.recipient \in Tokens, line.text \in Seq(Nat),
         line.recipient.kind = "name",
         handle_input_command(parse_input_line(line), line), OfferedIds
  PROVE  Effect("input") /\ OfferedIds'
<1>1. PICK token \in Tokens, text \in Seq(Nat) : token = line.recipient /\ text = line.text
  BY Zenon
<1>2. PICK nickname : nickname = token.name
  BY Zenon
<1>3. nickname \in Seq(Nat) /\ token # all
  <2>1. token \in [kind : {"name"}, name : Seq(Nat)]
    BY <1>1 DEF Tokens, all, nothing
  <2>2. token # all
    BY <1>1 DEF all
  <2> QED BY <1>2, <2>1, <2>2
<1>4. PICK command :
        command = [type |-> "ChatByNickname", nickname |-> nickname, text |-> text]
  BY Zenon
<1>5. /\ parse_input_line(line) = command
      /\ Asked(line) = ToPeer("Chat", id_by_nickname_[nickname], text)
  <2>1. "message" \notin {"/users", "/exit", "/key", "ban:"} /\ "name" # "number"
    OBVIOUS
  <2> QED BY <1>1, <1>2, <1>3, <1>4, <2>1, Zenon
          DEF parse_input_line, is_numeric_recipient, parse_nickname_message, Asked
<1>6. /\ command.type = "ChatByNickname" /\ command.nickname = nickname
      /\ command.text = text
  BY ONLY <1>4
<1>7. command \in Commands
  BY <1>3, <1>4, Zenon DEF Commands
<1>8. Told(command, "ChatByNickname")
    BY <1>6, <1>7, Telling, Zenon
<1>9. send_encrypted_chat_by_nickname(nickname, text, Asked(line))
  <2>1. "ChatByNickname" \notin {"Exit", "Invalid", "ListUsers", "KeyOffer",
                                 "ChatById", "ChatBroadcast"}
    OBVIOUS
  <2> QED BY <1>5, <1>6, <1>8, <2>1, Zenon DEF handle_input_command, Told
<1>10. CASE nickname \in DOMAIN id_by_nickname_
  <2>1. send_encrypted_chat_by_id(id_by_nickname_[nickname], text, Asked(line))
    BY <1>9, <1>10, Zenon DEF send_encrypted_chat_by_nickname
  <2> QED BY <1>5, <2>1, ChatEffect, Zenon
<1>11. CASE nickname \notin DOMAIN id_by_nickname_
  <2>1. nothing_sent
    BY <1>9, <1>11, Zenon DEF send_encrypted_chat_by_nickname
  <2> QED BY <2>1, Zenon DEF nothing_sent, Effect, OfferedIds
<1> QED BY <1>10, <1>11, Zenon

(* "all:<text>"                                                              *)
LEMMA AllLine ==
  ASSUME NEW line, line.form = "message", line.recipient \in Tokens, line.text \in Seq(Nat),
         line.recipient.kind = "all",
         handle_input_command(parse_input_line(line), line), OfferedIds
  PROVE  Effect("input") /\ OfferedIds'
<1>1. PICK text \in Seq(Nat) : text = line.text
  BY Zenon
<1>2. line.recipient = all
  BY DEF Tokens, all, nothing
<1>3. PICK command : command = [type |-> "ChatBroadcast", text |-> text]
  BY Zenon
<1>4. /\ parse_input_line(line) = command
      /\ Asked(line) = [type |-> "Chat", from_id |-> MyId, text |-> text, to |-> <<"all">>]
  <2>1. "message" \notin {"/users", "/exit", "/key", "ban:"} /\ "all" # "number"
    OBVIOUS
  <2> QED BY <1>1, <1>2, <1>3, <2>1, Zenon
          DEF parse_input_line, is_numeric_recipient, parse_nickname_message, Asked
<1>5. command.type = "ChatBroadcast" /\ command.text = text
  BY ONLY <1>3
<1>6. command \in Commands
  BY <1>3, Zenon DEF Commands
<1>7. Told(command, "ChatBroadcast")
    BY <1>5, <1>6, Telling, Zenon
<1>8. send_encrypted_broadcast(text, Asked(line))
  <2>1. "ChatBroadcast" \notin {"Exit", "Invalid", "ListUsers", "KeyOffer",
                                "ChatById", "ChatByNickname"}
    OBVIOUS
  <2> QED BY <1>4, <1>5, <1>7, <2>1, Zenon DEF handle_input_command, Told
<1> QED BY <1>4, <1>8, BroadcastEffect, Zenon

(* handle_input_command, of any line.                                        *)
LEMMA LineEffect ==
  ASSUME NEW line \in Lines, handle_input_command(parse_input_line(line), line), OfferedIds
  PROVE  Effect("input") /\ OfferedIds'
<1>1. CASE line.form = "/users"
  BY <1>1, UsersLine, Zenon
<1>2. CASE line.form = "/exit" \/ line.form = ""
  BY <1>2, OtherLine, Zenon
<1>3. CASE line.form = "/key"
  BY <1>3, LineKinds, KeyLine, Zenon
<1>4. CASE line.form = "message"
  <2>1. /\ line.recipient \in Tokens /\ line.text \in Seq(Nat)
        /\ line.recipient.kind \in {"number", "name", "all"}
    BY <1>4, LineKinds, Zenon
  <2>2. CASE line.recipient.kind = "number"
    BY <1>4, <2>1, <2>2, NumberLine, Zenon
  <2>3. CASE line.recipient.kind = "name"
    BY <1>4, <2>1, <2>3, NameLine, Zenon
  <2>4. CASE line.recipient.kind = "all"
    BY <1>4, <2>1, <2>4, AllLine, Zenon
  <2> QED BY <2>1, <2>2, <2>3, <2>4, Zenon
<1> QED BY <1>1, <1>2, <1>3, <1>4, LineKinds, Zenon

(* A thread begins, with a line or an event, and has something to send.      *)
LEMMA BegunStep ==
  ASSUME NEW thread, begins(thread), Effect(thread), IdTypes'
  PROVE  SendStep(thread)
BY Zenon DEF begins, SendStep

(* type_line keeps the invariant.                                            *)
LEMMA LineKeeps ==
  ASSUME FramingInv, NEW line \in InputLines, type_line(line)
  PROVE  FramingInv'
<1>1. line \in Lines
  BY FramingConstants, Zenon
<1>2. /\ begins("input") /\ handle_input_command(parse_input_line(line), line)
      /\ banned_ids_' = banned_ids_
  BY Zenon DEF type_line
<1>3. OfferedIds
  BY Zenon DEF FramingInv, IdTypes, OfferedIds
<1>4. Effect("input") /\ OfferedIds'
  BY <1>1, <1>2, <1>3, LineEffect, Zenon
<1>5. IdTypes'
  BY <1>2, <1>4, Zenon DEF FramingInv, IdTypes, OfferedIds
<1> QED BY <1>2, <1>4, <1>5, BegunStep, SendStepKeeps, Zenon

(* A key offered by a handler of the client keeps the invariant.             *)
LEMMA OfferKeeps ==
  ASSUME FramingInv, NEW peer_id \in Peers, send_offer_from_handler(peer_id)
  PROVE  FramingInv'
<1>1. peer_id \in Ids
  BY FramingConstants, Zenon
<1>2. /\ begins("receiver") /\ banned_ids_' = banned_ids_
      /\ send_key_offer("receiver", peer_id, ToPeer("KeyOffer", peer_id, <<MyId>>))
  BY Zenon DEF send_offer_from_handler
<1>3. OfferedIds
  BY Zenon DEF FramingInv, IdTypes, OfferedIds
<1>4. Effect("receiver") /\ OfferedIds'
  BY <1>1, <1>2, <1>3, OfferEffect, Zenon
<1>5. IdTypes'
  BY <1>2, <1>4, Zenon DEF FramingInv, IdTypes, OfferedIds
<1> QED BY <1>2, <1>4, <1>5, BegunStep, SendStepKeeps, Zenon

(* What a handler sends, on the server or a client, keeps the invariant.     *)
LEMMA HandlerKeeps ==
  ASSUME FramingInv, NEW thread, NEW m \in Messages[end], send_from_handler(thread, m)
  PROVE  FramingInv'
<1>1. m \in AppMessages
  <2>1. end \in Ends
    BY Zenon DEF FramingInv, FrameTypes
  <2> QED BY <2>1, FramingConstants, Zenon
<1>2. /\ begins(thread) /\ write_frame(thread, m, understood(m)) /\ connection' = connection
      /\ key_offered_to_' = key_offered_to_ /\ banned_ids_' = banned_ids_
  BY Zenon DEF send_from_handler
<1>3. Ready(m, understood(m))
  BY <1>1, Zenon DEF Ready
<1>4. Effect(thread)
  BY <1>2, <1>3, ReadyWritten, Zenon DEF Effect
<1>5. IdTypes'
  BY <1>2, Zenon DEF FramingInv, IdTypes
<1> QED BY <1>2, <1>4, <1>5, BegunStep, SendStepKeeps, Zenon

(* ban_ids and the list that broadcast_banned_ids sends keep the invariant.  *)
LEMMA BanKeeps ==
  ASSUME FramingInv, NEW line \in AdminLines, ban_ids(line)
  PROVE  FramingInv'
<1>1. line \in AdministratorLines
  BY FramingConstants, Zenon
<1>2. PICK p, ids : p = parse_admin_command(line) /\ ids = newly_banned(p)
  BY Zenon
<1>3. Parses(line, p)
  BY <1>1, <1>2, AdminParsed, Zenon
<1>4. p \in Seq(Ids) /\ Range(p) \subseteq 1 .. U32 - 1
  BY <1>3, Zenon DEF Parses
<1>5. ids \in Seq(Ids) /\ Range(ids) = Range(p) \ banned_ids_
  BY <1>2, <1>4, NewlyBanned, Zenon
<1>6. /\ begins("loop") /\ banned_ids_' = banned_ids_ \union Range(ids)
      /\ key_offered_to_' = key_offered_to_
      /\ IF ids = <<>> THEN UNCHANGED <<connection, sending>>
         ELSE send("loop", [type |-> "BannedIds", ids |-> ids], Asked(line))
  BY <1>2, Zenon DEF ban_ids
<1>7. IdTypes'
  BY <1>4, <1>5, <1>6, Zenon DEF FramingInv, IdTypes
<1>8. CASE ids = <<>>
  <2>1. Effect("loop")
    BY <1>6, <1>8, Zenon DEF Effect
  <2> QED BY <1>6, <1>7, <2>1, BegunStep, SendStepKeeps, Zenon
<1>9. CASE ids # <<>>
  <2>1. p # <<>>
    <3>1. ASSUME p = <<>> PROVE FALSE
      <4>1. DOMAIN <<>> = {} /\ ids[1] \in Range(ids)
        <5>1. DOMAIN <<>> = {}
          OBVIOUS
        <5>2. 1 \in DOMAIN ids
          BY <1>5, <1>9
        <5> QED BY <5>1, <5>2, Zenon DEF Range
      <4> QED BY <1>5, <3>1, <4>1, Zenon DEF Range
    <3> QED BY <3>1, Zenon
  <2>2. Asked(line) = NoId \/ Asked(line) = [type |-> "BannedIds", ids |-> Range(ids)]
    BY <1>3, <1>5, <2>1, Zenon DEF Parses
  <2>3. PICK m : m = [type |-> "BannedIds", ids |-> ids]
    BY Zenon
  <2>4. ASSUME encode(m) # Throws PROVE Ready(m, Asked(line))
    <3>1. Ready(m, [type |-> "BannedIds", ids |-> Range(ids)])
      BY <1>5, <2>3, <2>4, BuiltBanned, Zenon
    <3> QED BY <2>2, <3>1, Zenon DEF Ready
  <2>5. send("loop", m, Asked(line))
    BY <1>6, <1>9, <2>3, Zenon
  <2>6. Effect("loop")
    BY <2>4, <2>5, SendEffect, Zenon
  <2> QED BY <1>6, <1>7, <2>6, BegunStep, SendStepKeeps, Zenon
<1> QED BY <1>8, <1>9, Zenon

-------------------------------------------------------------------------------
(* The invariant holds when the connection is made: nothing was begun.       *)
LEMMA InitFraming ==
  ASSUME FramingInit
  PROVE  FramingInv
<1>1. /\ end \in Ends /\ room \in Rooms /\ connection = "up"
      /\ sending = [thread \in Threads |-> Idle] /\ frames = 0
      /\ key_offered_to_ = {} /\ banned_ids_ = {}
      /\ wire = <<>> /\ reading = <<>> /\ received = <<>>
      /\ meant = <<>> /\ torn = FALSE /\ too_long = FALSE
  BY Zenon DEF FramingInit
<1>2. <<>> \in Seq(Nat) /\ Len(<<>>) = 0
  OBVIOUS
<1>3. FrameTypes
  <2>1. room \in Nat /\ Len(wire) <= room
    <3>1. room \in Nat
      BY <1>1, FramingConstants, Zenon
    <3> QED BY <1>1, <1>2, <3>1
  <2>2. Len(<<>>) < size(<<>>)
    <3>1. size(<<>>) \in Nat /\ size(<<>>) >= 6
      BY <1>2, SizeNat, Zenon
    <3> QED BY <1>2, <3>1
  <2>3. Sequence(<<>>)
    BY DEF Sequence
  <2> QED BY <1>1, <1>2, <2>1, <2>2, <2>3, Zenon DEF FrameTypes
<1>4. IdTypes
  BY <1>1, Zenon DEF IdTypes
<1>5. \A thread \in Threads : sending[thread] = Idle
  BY <1>1, Zenon
<1>6. FrameWriters
  BY <1>1, <1>5, Zenon DEF FrameWriters
<1>7. FrameCount
  <2>1. waits("input") = 0 /\ waits("receiver") = 0 /\ waits("loop") = 0
    BY <1>5, Zenon DEF waits
  <2>2. waiting = 0
    BY <2>1 DEF waiting
  <2>3. MaxFrames \in Nat
    BY FramingConstants, Zenon
  <2>4. Len(meant) = 0 /\ frames = 0
    BY <1>1, <1>2, Zenon
  <2> QED BY <2>2, <2>3, <2>4 DEF FrameCount
<1>8. InOrder
  <2>1. Len(received) = 0 /\ Len(meant) = 0 /\ 1 .. 0 = {} /\ 0 <= 0
    BY <1>1, <1>2
  <2> QED BY <2>1, Zenon DEF InOrder
<1>9. Len(reading) < kMbapHeaderSize + U16
  BY <1>1, <1>2, Sizes DEF kMbapHeaderSize
<1>10. OnItsWay
  <2>1. PICK P : P = [i \in {0} |-> <<>>]
    BY Zenon
  <2>2. P[0] = <<>> /\ 0 .. 0 = {0} /\ 0 .. 0 - 1 = {}
    BY <2>1
  <2>3. Stream(<<>>, P, meant, 0)
    BY <1>2, <2>2, Zenon DEF Stream
  <2>4. Pending(<<>>, P, meant, 0, 0, <<>>, <<>>)
    <3>1. 0 \in 0 .. 0 /\ <<>> \o <<>> = <<>> /\ ~(0 < 0)
      OBVIOUS
    <3> QED BY <1>2, <2>2, <2>3, <3>1, Zenon DEF Pending
  <2>5. wire \o <<>> = <<>> /\ Len(meant) = 0 /\ Len(received) = 0
    BY <1>1, <1>2
  <2>6. Pending(<<>>, P, meant, Len(meant), Len(received), reading, wire \o <<>>)
    BY <1>1, <2>4, <2>5, Zenon
  <2>7. Unsent(<<>>)
    BY <1>5, IdleFacts, Zenon DEF Unsent
  <2> QED BY <1>2, <2>6, <2>7, Zenon DEF OnItsWay
<1> QED BY <1>3, <1>4, <1>6, <1>7, <1>8, <1>9, <1>10, Zenon DEF FramingInv, Transported

(* Every step keeps the invariant: a console line, a ban, what handlers      *)
(* send, write_exact and its failure, the end of the writer, read_frame and  *)
(* its failure.                                                              *)
LEMMA NextFraming ==
  ASSUME FramingInv, FramingNext
  PROVE  FramingInv'
<1>1. CASE \E line \in InputLines : type_line(line)
  BY <1>1, LineKeeps, Zenon
<1>2. CASE \E line \in AdminLines : ban_ids(line)
  BY <1>2, BanKeeps, Zenon
<1>3. CASE \E peer_id \in Peers : send_offer_from_handler(peer_id)
  BY <1>3, OfferKeeps, Zenon
<1>4. CASE \E thread \in Threads : \E m \in Messages[end] : send_from_handler(thread, m)
  BY <1>4, HandlerKeeps, Zenon
<1>5. CASE \E thread \in Threads : write_exact(thread)
  BY <1>5, WriteKeeps, Zenon
<1>6. CASE \E thread \in Threads : write_fails(thread)
  BY <1>6, EndsKeep, Zenon
<1>7. CASE hang_up \/ read_fails
  BY <1>7, EndsKeep, Zenon
<1>8. CASE read_frame
  BY <1>8, ReadKeeps, Zenon
<1> QED BY <1>1, <1>2, <1>3, <1>4, <1>5, <1>6, <1>7, <1>8, Zenon DEF FramingNext

(* The invariant is about the variables of the specification only.           *)
LEMMA StutterFraming ==
  ASSUME FramingInv, UNCHANGED framing_vars
  PROVE  FramingInv'
<1>1. /\ end' = end /\ room' = room /\ connection' = connection /\ sending' = sending
      /\ frames' = frames /\ key_offered_to_' = key_offered_to_ /\ banned_ids_' = banned_ids_
      /\ wire' = wire /\ reading' = reading /\ received' = received
      /\ meant' = meant /\ torn' = torn /\ too_long' = too_long
  BY Zenon DEF framing_vars, writers, history
<1>2. Threads' = Threads
  BY <1>1, Zenon DEF Threads
<1>3. FrameTypes' /\ IdTypes'
  BY <1>1, Zenon DEF FramingInv, FrameTypes, IdTypes, size, Sequence
<1>4. FrameWriters'
  BY <1>1, <1>2, Zenon DEF FramingInv, FrameWriters, Writing, Framed
<1>5. /\ waits("input")' = waits("input") /\ waits("receiver")' = waits("receiver")
      /\ waits("loop")' = waits("loop")
  BY <1>1, <1>2, Zenon DEF waits
<1>6. FrameCount'
  BY <1>1, <1>5, Zenon DEF FramingInv, FrameCount, waiting
<1>7. \A tail : Unsent(tail)' <=> Unsent(tail)
  BY <1>1, <1>2, Zenon DEF Unsent
<1>8. InOrder' <=> InOrder
  BY <1>1, Zenon DEF InOrder, understood
<1>9. OnItsWay' <=> OnItsWay
  BY <1>1, <1>7, Zenon DEF OnItsWay
<1>10. Transported'
  BY <1>1, <1>8, <1>9, Zenon DEF FramingInv, Transported
<1> QED BY <1>3, <1>4, <1>6, <1>10, Zenon DEF FramingInv

(* The invariant holds always.                                               *)
LEMMA InductiveFraming == FramingSpec => []FramingInv
<1>1. FramingInit => FramingInv
  BY InitFraming, Zenon
<1>2. FramingInv /\ [FramingNext]_framing_vars => FramingInv'
  BY NextFraming, StutterFraming, Zenon
<1> QED BY <1>1, <1>2, PTL DEF FramingSpec

(* The buffer between write_exact and read_exact is never overfilled, a      *)
(* thread that writes has bytes left, no more frames are meant than were     *)
(* made, the reader holds at most one frame, and key_offered_to_ and         *)
(* banned_ids_ hold ids other than 0, for every set of lines, messages,      *)
(* rooms and bounds.                                                         *)
THEOREM FramingTypes == FramingSpec => []FramingTypeOK
<1>1. FramingInv => FramingTypeOK
  <2> SUFFICES ASSUME FramingInv PROVE FramingTypeOK
    BY Zenon
  <2>1. Len(meant) <= frames /\ frames <= MaxFrames
    <3>1. waits("input") \in 0 .. 1 /\ waits("receiver") \in 0 .. 1 /\ waits("loop") \in 0 .. 1
      BY WaitsNat, Zenon
    <3>2. waiting \in Nat
      BY <3>1, Sums, Zenon DEF waiting
    <3>3. frames \in Nat /\ frames <= MaxFrames /\ Len(meant) + waiting <= frames
      BY Zenon DEF FramingInv, FrameCount
    <3>4. Len(meant) \in Nat
      <4>1. Sequence(meant)
        BY Zenon DEF FramingInv, FrameTypes
      <4> QED BY <4>1, SeqFacts, Zenon DEF Sequence
    <3> QED BY ONLY <3>2, <3>3, <3>4
  <2>2. \A thread \in Threads : sending[thread] # Idle => sending[thread].left # <<>>
    BY Zenon DEF FramingInv, FrameWriters, Writing
  <2>3. ~torn /\ ~too_long => Len(reading) < kMbapHeaderSize + U16
    BY Zenon DEF FramingInv, Transported
  <2> QED BY <2>1, <2>2, <2>3, Zenon DEF FramingInv, FrameTypes, IdTypes, FramingTypeOK
<1> QED BY <1>1, InductiveFraming, PTL

(* What read_frame and decode_app_message return is, in order, what the      *)
(* lines and handlers asked for, however write_exact cut the frames and      *)
(* read_exact put them together, as long as no two threads wrote into each   *)
(* other's frames and no frame was longer than its length field: for every   *)
(* line the parsers accept, every message with an encoding, every size of    *)
(* the buffer and every number of frames.                                    *)
THEOREM FramesArrive == FramingSpec => []ReceivedAsMeant
<1>1. FramingInv => ReceivedAsMeant
  BY Zenon DEF FramingInv, Transported, InOrder, ReceivedAsMeant
<1> QED BY <1>1, InductiveFraming, PTL
===============================================================================
