----------------------------- MODULE DeviceProofs -----------------------------
(***************************************************************************)
(* What is proved of the drivers, for every value of the constants.  Both  *)
(* block drivers: what is reported as done has been done, and nothing      *)
(* else.  Both keyboards: the events that the VirtIO keyboard stores are   *)
(* each handled once and in order, and the USB keyboard that is reported   *)
(* ready is the device the driver speaks to.                               *)
(***************************************************************************)
EXTENDS VirtioBlk, SdCard, VirtioKeyboard, UsbKeyboard, Integers, FunctionTheorems,
        FiniteSetTheorems, SequenceTheorems, TLAPS

(***************************************************************************)
(* The VirtIO block driver and its device, then the SD card.               *)
(***************************************************************************)

\* The 16-bit indices of the rings.
Indices == 0..(IndexModulus - 1)

\* A request as the device reads it: the header and the descriptors.
Requests == [type : {"read", "write"}, sector : Nat, slot : Nat,
             direction : {"read", "write"}]

\* How far the device is with a request.
Progress == {"fetched", "ok", "error", "status"}

\* A function on a set, whatever its values.
On(domain, f) == f = [x \in domain |-> f[x]]

\* The types of the variables.
BlkTypeOK ==
    /\ On(Sectors, disk) /\ On(Sectors, diskBefore)
    /\ On(Slots, memory) /\ On(Slots, memoryBefore)
    /\ call \in BlkCalls \union {[op |-> "none"]}
    /\ done \in Nat /\ timeouts \in 0..MaxTimeouts
    /\ avail \in Indices /\ used \in Indices /\ before \in Indices /\ fetched \in Indices
    /\ request \in Requests
    /\ inFlight \in Seq([what : Requests, progress : Progress])
    /\ driver \in {"idle", "header", "descriptors", "publish", "wait"}
    /\ clean \in BOOLEAN
    /\ driver # "idle" => call \in BlkCalls /\ done < call.count /\ answer = "none"
    /\ call.op = "none" => answer # "ok"

\* How far index j is ahead of index i.
Ahead(i, j) == IF i <= j THEN j - i ELSE j - i + IndexModulus

\* The indices follow each other: used, fetched, avail. The driver never waits
\* with more requests out than it has given up, and one.
RingKept ==
    /\ Ahead(used, fetched) = Len(inFlight)
    /\ Ahead(used, fetched) + Ahead(fetched, avail) = Ahead(used, avail)
    /\ driver # "wait" => Ahead(used, avail) <= timeouts
    /\ driver = "publish" => Ahead(before, used) + Ahead(used, avail) <= timeouts
    /\ driver = "wait" => Ahead(before, used) + Ahead(used, avail) <= timeouts + 1

\* A request for the sector that the call has come to.
IsWanted(r) ==
    /\ r.type = call.op /\ r.direction = call.op
    /\ r.sector = call.sector + done /\ r.slot = call.slot + done

\* Sector i of the call is where it should be.
SectorMoved(i) ==
    IF call.op = "read" THEN memory[call.slot + i] = diskBefore[call.sector + i]
                        ELSE disk[call.sector + i] = memoryBefore[call.slot + i]

\* While no request was given up in this call, at most one is out, and it is
\* the one the driver wants.
InStep ==
    /\ Ahead(used, avail) <= 1
    /\ driver \in {"header", "descriptors", "publish"} => avail = used
    /\ driver = "descriptors" => request.type = call.op /\ request.sector = call.sector + done
    /\ driver \in {"publish", "wait"} => IsWanted(request)
    /\ driver = "publish" => before = used

\* A request that the device reports as done has moved its sector.
NewestDone ==
    /\ driver = "wait" /\ used # before =>
          avail = used /\ (statusByte = "ok" => SectorMoved(done))
    /\ avail # used =>
          /\ done < call.count /\ IsWanted(request)
          /\ \A i \in DOMAIN inFlight :
                /\ IsWanted(inFlight[i].what)
                /\ inFlight[i].progress = "ok" => SectorMoved(done)
                /\ inFlight[i].progress = "status" /\ statusByte = "ok" => SectorMoved(done)

\* The sectors before it have been moved.
EarlierDone ==
    /\ \A i \in 0..(done - 1) : SectorMoved(i)
    /\ answer = "ok" => done = call.count

\* The progress of a call in which no request was given up.
InOrder == InStep /\ NewestDone /\ EarlierDone

\* The inductive invariant.
BlkInv ==
    /\ BlkTypeOK
    /\ RingKept
    /\ clean /\ call.op # "none" => InOrder
    /\ OthersUntouched

-----------------------------------------------------------------------------
\* The successor modulo m.
LEMMA Modulo ==
    ASSUME NEW m \in Nat \ {0, 1}, NEW i \in 0..(m - 1)
    PROVE  (i + 1) % m = IF i = m - 1 THEN 0 ELSE i + 1
<1>1. CASE i = m - 1
  <2>1. m % m = 0
    OBVIOUS
  <2> QED BY <1>1, <2>1
<1>2. CASE i # m - 1
  <2>1. i + 1 \in 0..(m - 1)
    BY <1>2
  <2>2. ASSUME NEW j \in 0..(m - 1)
        PROVE  j % m = j
    OBVIOUS
  <2> QED BY <1>2, <2>1, <2>2
<1> QED BY <1>1, <1>2

\* The successor of an index.
LEMMA Incremented ==
    ASSUME NEW i \in Indices
    PROVE  /\ Increment(i) \in Indices
           /\ Increment(i) = IF i = IndexModulus - 1 THEN 0 ELSE i + 1
BY BlkConstants, Modulo DEF Indices, Increment

\* Distances on the ring when one of its ends moves.
LEMMA AheadMoves ==
    ASSUME NEW i \in Indices, NEW j \in Indices
    PROVE  /\ Ahead(i, j) \in Nat
           /\ Ahead(i, j) = 0 <=> i = j
           /\ i # j => Ahead(i, j) > 0
           /\ i # j => Ahead(Increment(i), j) = Ahead(i, j) - 1
           /\ Ahead(i, j) < IndexModulus - 1 => Ahead(i, Increment(j)) = Ahead(i, j) + 1
<1>1. IndexModulus \in Nat /\ IndexModulus >= 2
  BY BlkConstants
<1>2. /\ Increment(i) = IF i = IndexModulus - 1 THEN 0 ELSE i + 1
      /\ Increment(j) = IF j = IndexModulus - 1 THEN 0 ELSE j + 1
  BY Incremented
<1> QED BY <1>1, <1>2 DEF Indices, Ahead

-----------------------------------------------------------------------------
\* The fields of a call.
LEMMA CallFacts ==
    ASSUME NEW c \in BlkCalls
    PROVE  /\ c.op \in {"read", "write"} /\ c.op # "none"
           /\ c.sector \in Nat /\ c.slot \in Nat /\ c.count \in Nat \ {0}
           /\ c.sector + c.count <= SectorCount /\ c.slot + c.count <= SlotCount
BY BlkConstants DEF BlkCalls, Sectors, Slots

\* What the device works on.
Entries == [what : Requests, progress : Progress]

\* The driver's steps keep the types.
LEMMA DriverTypes ==
    ASSUME BlkTypeOK,
           \/ NoDevice \/ SetHeader \/ SetDescriptors \/ Publish \/ FinishSector \/ GiveUp
    PROVE  BlkTypeOK'
<1> USE DEF blkDriverVars, blkDeviceVars, blkCallVars, On
<1>1. CASE NoDevice
  BY <1>1 DEF BlkTypeOK, NoDevice
<1>2. CASE SetHeader
  <2>1. call.sector + done \in Nat /\ call.op \in {"read", "write"}
    BY <1>2, CallFacts DEF BlkTypeOK, SetHeader
  <2>2. request' \in Requests
    BY <1>2, <2>1 DEF BlkTypeOK, SetHeader, Requests
  <2> QED BY <1>2, <2>2 DEF BlkTypeOK, SetHeader
<1>3. CASE SetDescriptors
  <2>1. call.slot + done \in Nat /\ call.op \in {"read", "write"}
    BY <1>3, CallFacts DEF BlkTypeOK, SetDescriptors
  <2>2. request' \in Requests
    BY <1>3, <2>1 DEF BlkTypeOK, SetDescriptors, Requests
  <2> QED BY <1>3, <2>2 DEF BlkTypeOK, SetDescriptors
<1>4. CASE Publish
  BY <1>4, Incremented DEF BlkTypeOK, Publish
<1>5. CASE FinishSector
  <2>1. call \in BlkCalls /\ done < call.count /\ done \in Nat /\ call.count \in Nat
    BY <1>5, CallFacts DEF BlkTypeOK, FinishSector
  <2>2. done' \in Nat /\ (driver' = "idle" \/ (driver' = "header" /\ done' < call.count /\ answer' = answer))
    BY <1>5, <2>1 DEF FinishSector, Answer
  <2>3. call' = call /\ call.op # "none"
    BY <1>5, <2>1, CallFacts DEF FinishSector, Answer
  <2> QED BY <1>5, <2>1, <2>2, <2>3 DEF BlkTypeOK, FinishSector, Answer
<1>6. CASE GiveUp
  <2>1. timeouts' \in 0..MaxTimeouts
    BY <1>6, BlkConstants DEF BlkTypeOK, GiveUp
  <2> QED BY <1>6, <2>1 DEF BlkTypeOK, GiveUp, Answer
<1> QED BY <1>1, <1>2, <1>3, <1>4, <1>5, <1>6

\* So do the caller's.
LEMMA CallerTypes ==
    ASSUME BlkTypeOK,
           \/ \E slot \in Slots, value \in BlkValues : FillSlot(slot, value)
           \/ \E c \in BlkCalls : StartCall(c)
    PROVE  BlkTypeOK'
<1> USE DEF blkDriverVars, blkDeviceVars, blkCallVars, On
<1>1. CASE \E slot \in Slots, value \in BlkValues : FillSlot(slot, value)
  <2>1. PICK slot \in Slots, value \in BlkValues : FillSlot(slot, value)
    BY <1>1
  <2>2. On(Slots, memory') /\ On(Slots, memoryBefore') /\ On(Sectors, diskBefore')
    BY <2>1 DEF BlkTypeOK, FillSlot
  <2> QED BY <2>1, <2>2 DEF BlkTypeOK, FillSlot
<1>2. CASE \E c \in BlkCalls : StartCall(c)
  <2>1. PICK c \in BlkCalls : StartCall(c)
    BY <1>2
  <2>2. 0 < c.count
    BY CallFacts
  <2> QED BY <2>1, <2>2 DEF BlkTypeOK, StartCall, Outstanding
<1> QED BY <1>1, <1>2

\* What a step does to a request that the device is working on.
LEMMA ProgressMade ==
    ASSUME BlkTypeOK, NEW i \in DOMAIN inFlight, NEW p \in Progress, Goes(i, p)
    PROVE  /\ inFlight' \in Seq(Entries) /\ Len(inFlight') = Len(inFlight)
           /\ DOMAIN inFlight' = DOMAIN inFlight
           /\ \A j \in DOMAIN inFlight : j # i => inFlight'[j] = inFlight[j]
           /\ inFlight'[i].what = inFlight[i].what /\ inFlight'[i].progress = p
<1>1. inFlight \in Seq(Entries)
  BY DEF BlkTypeOK, Entries
<1>2. inFlight[i] \in Entries
  BY <1>1
<1> DEFINE e == [inFlight[i] EXCEPT !.progress = p]
<1>3. e \in Entries /\ e.what = inFlight[i].what /\ e.progress = p
  BY <1>2 DEF Entries
<1>4. inFlight' = [inFlight EXCEPT ![i] = e]
  BY DEF Goes
<1> HIDE DEF e
<1> QED BY <1>1, <1>3, <1>4

\* A sequence without one of its elements.
LEMMA OneRemoved ==
    ASSUME NEW S, NEW s \in Seq(S), NEW i \in 1..Len(s)
    PROVE  /\ RemoveAt(s, i) \in Seq(S) /\ Len(RemoveAt(s, i)) = Len(s) - 1
<1> DEFINE n == Len(s)
           a == SubSeq(s, 1, i - 1)
           b == SubSeq(s, i + 1, n)
<1>1. n \in Nat /\ i \in Nat /\ i >= 1 /\ i <= n
  OBVIOUS
<1>2. a \in Seq(S) /\ Len(a) = i - 1
  <2>1. \A j \in 1..(i - 1) : s[j] \in S
    BY <1>1
  <2>2. Len(a) = IF 1 <= i - 1 THEN i - 1 - 1 + 1 ELSE 0
    BY <1>1, <2>1, SubSeqProperties
  <2> QED BY <1>1, <2>1, <2>2, SubSeqProperties
<1>3. b \in Seq(S) /\ Len(b) = n - i
  <2>1. \A j \in (i + 1)..n : s[j] \in S
    BY <1>1
  <2>2. Len(b) = IF i + 1 <= n THEN n - (i + 1) + 1 ELSE 0
    BY <1>1, <2>1, SubSeqProperties
  <2> QED BY <1>1, <2>1, <2>2, SubSeqProperties
<1>4. RemoveAt(s, i) = a \o b
  BY DEF RemoveAt
<1> HIDE DEF a, b
<1>5. a \o b \in Seq(S) /\ Len(a \o b) = Len(a) + Len(b)
  BY <1>2, <1>3, ConcatProperties
<1> QED BY <1>1, <1>2, <1>3, <1>4, <1>5

\* The device's steps keep the types.
LEMMA DeviceTypes ==
    ASSUME BlkTypeOK,
           \/ Fetch
           \/ \E i \in 1..(MaxTimeouts + 1) :
                 Transfer(i) \/ FailTransfer(i) \/ WriteStatus(i) \/ PushUsed(i)
    PROVE  BlkTypeOK'
<1> USE DEF blkDriverVars, blkDeviceVars, blkCallVars, On
<1>1. CASE Fetch
  <2>1. [what |-> request, progress |-> "fetched"] \in Entries
    BY DEF BlkTypeOK, Entries, Progress
  <2>2. inFlight' \in Seq(Entries) /\ fetched' \in Indices
    BY <1>1, <2>1, Incremented DEF BlkTypeOK, Fetch, Entries
  <2> QED BY <1>1, <2>2 DEF BlkTypeOK, Fetch, Entries
<1>2. CASE \E i \in 1..(MaxTimeouts + 1) : Transfer(i)
  <2>1. PICK i : Transfer(i)
    BY <1>2
  <2>2. inFlight' \in Seq(Entries)
    BY <2>1, ProgressMade DEF Transfer, InStage, Progress
  <2>3. On(Slots, memory') /\ On(Sectors, disk')
    BY <2>1 DEF BlkTypeOK, Transfer
  <2> QED BY <2>1, <2>2, <2>3 DEF BlkTypeOK, Transfer, Entries
<1>3. CASE \E i \in 1..(MaxTimeouts + 1) : FailTransfer(i) \/ WriteStatus(i)
  <2>1. PICK i : FailTransfer(i) \/ WriteStatus(i)
    BY <1>3
  <2>2. inFlight' \in Seq(Entries)
    BY <2>1, ProgressMade DEF FailTransfer, WriteStatus, InStage, Progress
  <2> QED BY <2>1, <2>2 DEF BlkTypeOK, FailTransfer, WriteStatus, Entries
<1>4. CASE \E i \in 1..(MaxTimeouts + 1) : PushUsed(i)
  <2>1. PICK i : PushUsed(i)
    BY <1>4
  <2>2. i \in 1..Len(inFlight) /\ inFlight \in Seq(Entries)
    BY <2>1 DEF BlkTypeOK, Entries, PushUsed, InStage
  <2>3. inFlight' \in Seq(Entries)
    BY <2>1, <2>2, OneRemoved DEF PushUsed
  <2>4. used' \in Indices
    BY <2>1, Incremented DEF BlkTypeOK, PushUsed
  <2> QED BY <2>1, <2>3, <2>4 DEF BlkTypeOK, PushUsed, Entries
<1> QED BY <1>1, <1>2, <1>3, <1>4

-----------------------------------------------------------------------------
\* The driver's and the caller's steps keep the order of the indices.
LEMMA DriverKeepsRing ==
    ASSUME BlkTypeOK, RingKept, MaxTimeouts + 1 < IndexModulus,
           \/ \E slot \in Slots, value \in BlkValues : FillSlot(slot, value)
           \/ \E c \in BlkCalls : StartCall(c)
           \/ NoDevice \/ SetHeader \/ SetDescriptors \/ Publish \/ FinishSector \/ GiveUp
    PROVE  RingKept'
<1> USE DEF blkDriverVars, blkDeviceVars, blkCallVars
<1> DEFINE a == Ahead(used, avail)
           b == Ahead(before, used)
<1>1. /\ avail \in Indices /\ used \in Indices /\ before \in Indices /\ fetched \in Indices
      /\ timeouts \in Nat /\ timeouts <= MaxTimeouts /\ MaxTimeouts \in Nat /\ IndexModulus \in Nat
  BY BlkConstants DEF BlkTypeOK
<1>2. /\ a \in Nat /\ b \in Nat /\ Ahead(fetched, avail) \in Nat
      /\ Ahead(used, fetched) \in Nat
      /\ Ahead(used, used) = 0 /\ (used # before => b > 0)
  BY <1>1, AheadMoves
<1>3. CASE \/ \E slot \in Slots, value \in BlkValues : FillSlot(slot, value)
           \/ \E c \in BlkCalls : StartCall(c)
           \/ NoDevice \/ SetHeader
  <2>1. /\ UNCHANGED <<avail, used, before, fetched, inFlight, timeouts>>
        /\ driver # "wait" /\ driver' \notin {"wait", "publish"}
    BY <1>3 DEF FillSlot, StartCall, NoDevice, SetHeader
  <2> QED BY <2>1 DEF RingKept, Ahead
<1>4. CASE SetDescriptors
  <2>1. UNCHANGED <<avail, used, fetched, inFlight, timeouts>> /\ before' = used
        /\ driver = "descriptors" /\ driver' = "publish"
    BY <1>4 DEF SetDescriptors
  <2>2. Ahead(before, used)' = 0
    BY <1>2, <2>1 DEF Ahead
  <2>3. a <= timeouts
    BY <2>1 DEF RingKept
  <2>4. Ahead(used, avail)' = a /\ timeouts' = timeouts
    BY <2>1 DEF Ahead
  <2>5. Ahead(before, used)' + Ahead(used, avail)' <= timeouts'
    BY <1>1, <1>2, <2>2, <2>3, <2>4
  <2> QED BY <1>1, <1>2, <2>1, <2>3, <2>4, <2>5 DEF RingKept, Ahead
<1>5. CASE Publish
  <2>1. UNCHANGED <<used, fetched, before, inFlight, timeouts>> /\ avail' = Increment(avail)
        /\ driver = "publish" /\ driver' = "wait"
    BY <1>5 DEF Publish
  <2>2. b + a <= timeouts /\ Ahead(used, fetched) + Ahead(fetched, avail) = a
        /\ Ahead(used, fetched) = Len(inFlight)
    BY <2>1 DEF RingKept
  <2>3. a < IndexModulus - 1 /\ Ahead(fetched, avail) < IndexModulus - 1
    BY <1>1, <1>2, <2>2
  <2>4. Ahead(used, avail)' = a + 1 /\ Ahead(fetched, avail)' = Ahead(fetched, avail) + 1
    <3>1. /\ Ahead(used, Increment(avail)) = a + 1
          /\ Ahead(fetched, Increment(avail)) = Ahead(fetched, avail) + 1
      BY <1>1, <2>3, AheadMoves
    <3> QED BY <2>1, <3>1 DEF Ahead
  <2>5. Ahead(before, used)' = b /\ Ahead(used, fetched)' = Ahead(used, fetched)
    BY <2>1 DEF Ahead
  <2> HIDE DEF a, b
  <2>6. Ahead(before, used)' + Ahead(used, avail)' <= timeouts' + 1
    BY <1>1, <1>2, <2>1, <2>2, <2>4, <2>5
  <2>7. Ahead(used, fetched)' + Ahead(fetched, avail)' = Ahead(used, avail)'
    BY <1>1, <1>2, <2>2, <2>4, <2>5
  <2> QED BY <2>1, <2>2, <2>5, <2>6, <2>7 DEF RingKept
<1>6. CASE FinishSector \/ GiveUp
  <2>1. UNCHANGED <<avail, used, fetched, before, inFlight>> /\ driver = "wait"
        /\ driver' \in {"idle", "header"}
        /\ \/ used # before /\ timeouts' = timeouts
           \/ timeouts' = timeouts + 1
    BY <1>6 DEF FinishSector, GiveUp, Answer
  <2>2. b + a <= timeouts + 1
    BY <2>1 DEF RingKept
  <2>3. a <= timeouts'
    BY <1>1, <1>2, <2>1, <2>2
  <2>4. /\ Ahead(used, avail)' = a /\ Ahead(used, fetched)' = Ahead(used, fetched)
        /\ Ahead(fetched, avail)' = Ahead(fetched, avail)
    BY <2>1 DEF Ahead
  <2> HIDE DEF a, b
  <2> QED BY <2>1, <2>3, <2>4 DEF RingKept, a
<1> QED BY <1>3, <1>4, <1>5, <1>6

\* So do the device's.
LEMMA DeviceKeepsRing ==
    ASSUME BlkTypeOK, RingKept, MaxTimeouts + 1 < IndexModulus,
           \/ Fetch
           \/ \E i \in 1..(MaxTimeouts + 1) :
                 Transfer(i) \/ FailTransfer(i) \/ WriteStatus(i) \/ PushUsed(i)
    PROVE  RingKept'
<1> USE DEF blkDriverVars, blkDeviceVars, blkCallVars
<1> DEFINE a == Ahead(used, avail)
           b == Ahead(before, used)
           f == Ahead(used, fetched)
           g == Ahead(fetched, avail)
<1>1. /\ avail \in Indices /\ used \in Indices /\ before \in Indices /\ fetched \in Indices
      /\ timeouts \in Nat /\ timeouts <= MaxTimeouts /\ MaxTimeouts \in Nat /\ IndexModulus \in Nat
      /\ inFlight \in Seq(Entries)
  BY BlkConstants DEF BlkTypeOK, Entries
<1>2. a \in Nat /\ b \in Nat /\ f \in Nat /\ g \in Nat
  BY <1>1, AheadMoves
<1>3. f = Len(inFlight) /\ f + g = a
      /\ (driver # "wait" => a <= timeouts)
      /\ (driver = "publish" => b + a <= timeouts)
      /\ (driver = "wait" => b + a <= timeouts + 1)
  BY DEF RingKept
<1>4. a <= timeouts + 1 /\ (driver \in {"publish", "wait"} => b + a < IndexModulus)
  BY <1>1, <1>2, <1>3
<1>5. CASE Fetch
  <2>1. UNCHANGED <<avail, used, before, timeouts, driver>> /\ fetched # avail
        /\ fetched' = Increment(fetched) /\ Len(inFlight') = Len(inFlight) + 1
    BY <1>1, <1>5 DEF Fetch
  <2>2. f < IndexModulus - 1
    <3>1. g > 0
      BY <1>1, <1>2, <2>1, AheadMoves
    <3> HIDE DEF a, b, f, g
    <3> QED BY <1>1, <1>2, <1>3, <1>4, <3>1
  <2>3. Ahead(used, Increment(fetched)) = f + 1 /\ Ahead(Increment(fetched), avail) = g - 1
    BY <1>1, <2>1, <2>2, AheadMoves
  <2>4. /\ Ahead(used, fetched)' = f + 1 /\ Ahead(fetched, avail)' = g - 1
        /\ Ahead(used, avail)' = a /\ Ahead(before, used)' = b
    BY <2>1, <2>3 DEF Ahead
  <2>5. Ahead(used, fetched)' + Ahead(fetched, avail)' = Ahead(used, avail)'
    BY <1>2, <1>3, <2>4
  <2> HIDE DEF a, b, f, g
  <2> QED BY <1>3, <2>1, <2>4, <2>5 DEF RingKept
<1>6. CASE \E i \in 1..(MaxTimeouts + 1) : Transfer(i) \/ FailTransfer(i) \/ WriteStatus(i)
  <2>1. UNCHANGED <<avail, used, before, fetched, timeouts, driver>>
    BY <1>6 DEF Transfer, FailTransfer, WriteStatus
  <2>2. \E i \in DOMAIN inFlight, p \in Progress : Goes(i, p)
    BY <1>6 DEF Transfer, FailTransfer, WriteStatus, InStage, Progress
  <2>3. Len(inFlight') = Len(inFlight)
    BY <2>2, ProgressMade
  <2> QED BY <2>1, <2>3 DEF RingKept, Ahead
<1>7. CASE \E i \in 1..(MaxTimeouts + 1) : PushUsed(i)
  <2>1. PICK i : PushUsed(i)
    BY <1>7
  <2>2. UNCHANGED <<avail, fetched, before, timeouts, driver>> /\ used' = Increment(used)
        /\ i \in 1..Len(inFlight) /\ inFlight' = RemoveAt(inFlight, i)
    BY <1>1, <2>1 DEF PushUsed, InStage
  <2>3. Len(inFlight') = Len(inFlight) - 1
    BY <1>1, <2>2, OneRemoved
  <2>4. Len(inFlight) \in Nat /\ Len(inFlight) >= 1
    BY <1>1, <2>2
  <2>5. f > 0 /\ a > 0 /\ used # fetched /\ used # avail
    <3>1. f > 0 /\ a > 0
      BY <1>2, <1>3, <2>4
    <3> QED BY <1>1, <3>1, AheadMoves
  <2>6. Ahead(Increment(used), fetched) = f - 1 /\ Ahead(Increment(used), avail) = a - 1
    BY <1>1, <2>5, AheadMoves
  <2>7. driver \in {"publish", "wait"} => Ahead(before, Increment(used)) = b + 1
    <3>1. driver \in {"publish", "wait"} => b < IndexModulus - 1
      <4> HIDE DEF a, b, f, g
      <4> QED BY <1>1, <1>2, <1>4, <2>5
    <3> QED BY <1>1, <3>1, AheadMoves
  <2>8. /\ Ahead(used, fetched)' = f - 1 /\ Ahead(fetched, avail)' = g
        /\ Ahead(used, avail)' = a - 1
        /\ driver \in {"publish", "wait"} => Ahead(before, used)' = b + 1
    BY <2>2, <2>6, <2>7 DEF Ahead
  <2> HIDE DEF a, b, f, g
  <2>9. Ahead(used, fetched)' + Ahead(fetched, avail)' = Ahead(used, avail)'
    BY <1>2, <1>3, <2>8
  <2>10. /\ driver # "wait" => Ahead(used, avail)' <= timeouts
         /\ driver = "publish" => Ahead(before, used)' + Ahead(used, avail)' <= timeouts
         /\ driver = "wait" => Ahead(before, used)' + Ahead(used, avail)' <= timeouts + 1
    BY <1>1, <1>2, <1>3, <2>8
  <2> QED BY <1>3, <2>2, <2>3, <2>8, <2>9, <2>10 DEF RingKept
<1> QED BY <1>5, <1>6, <1>7

-----------------------------------------------------------------------------
\* What a step has to keep besides types and indices.
CallKept == (clean /\ call.op # "none" => InOrder) /\ OthersUntouched

\* A call begins with nothing moved, on a ring that may still hold requests of
\* earlier calls.
LEMMA CallBegins ==
    ASSUME BlkInv,
           \/ \E slot \in Slots, value \in BlkValues : FillSlot(slot, value)
           \/ \E c \in BlkCalls : StartCall(c)
    PROVE  CallKept'
<1> USE DEF blkDriverVars, blkDeviceVars
<1>1. CASE \E slot \in Slots, value \in BlkValues : FillSlot(slot, value)
  BY <1>1 DEF FillSlot, CallKept, OthersUntouched
<1>2. CASE \E c \in BlkCalls : StartCall(c)
  <2>1. PICK c \in BlkCalls : StartCall(c)
    BY <1>2
  <2>2. OthersUntouched'
    BY <2>1 DEF StartCall, OthersUntouched
  <2>3. ASSUME clean'
        PROVE  InOrder'
    <3>1. avail = used /\ UNCHANGED <<avail, used>> /\ driver' = "header" /\ done' = 0
          /\ answer' = "none"
      BY <2>1, <2>3 DEF StartCall, Outstanding
    <3>2. Ahead(used, avail)' = 0
      BY <3>1, AheadMoves DEF BlkInv, BlkTypeOK
    <3> QED BY <3>1, <3>2 DEF InOrder, InStep, NewestDone, EarlierDone
  <2> QED BY <2>2, <2>3 DEF CallKept
<1> QED BY <1>1, <1>2

\* Steps that move no data.
LEMMA SameSectors ==
    ASSUME UNCHANGED <<disk, memory, diskBefore, memoryBefore, call, clean>>
    PROVE  /\ \A i : SectorMoved(i)' <=> SectorMoved(i)
           /\ OthersUntouched' <=> OthersUntouched
BY DEF SectorMoved, OthersUntouched, Moved

\* The driver's steps on the call.
LEMMA DriverOnCall ==
    ASSUME BlkInv,
           NoDevice \/ SetHeader \/ SetDescriptors \/ Publish \/ FinishSector \/ GiveUp
    PROVE  CallKept'
<1> USE DEF blkDriverVars, blkDeviceVars, blkCallVars
<1>1. UNCHANGED <<disk, memory, diskBefore, memoryBefore, call, clean, statusByte>> \/ SetHeader
  BY DEF NoDevice, SetHeader, SetDescriptors, Publish, FinishSector, GiveUp, Answer
<1>2. UNCHANGED <<disk, memory, diskBefore, memoryBefore, call, clean, used, inFlight>>
  BY DEF NoDevice, SetHeader, SetDescriptors, Publish, FinishSector, GiveUp, Answer
<1>3. OthersUntouched'
  BY <1>2, SameSectors DEF BlkInv
<1> SUFFICES ASSUME clean, call.op # "none"
             PROVE  InOrder'
  BY <1>2, <1>3 DEF CallKept
<1>4. InStep /\ NewestDone /\ EarlierDone /\ BlkTypeOK /\ RingKept
  BY DEF BlkInv, InOrder
<1>5. \A i : SectorMoved(i)' <=> SectorMoved(i)
  BY <1>2, SameSectors
<1>6. CASE NoDevice
  <2>1. UNCHANGED <<avail, used, done>> /\ driver = "header" /\ driver' = "idle" /\ answer' = "error"
    BY <1>6 DEF NoDevice
  <2>2. avail = used /\ Ahead(used, avail)' <= 1
    BY <1>4, <2>1 DEF InStep, Ahead
  <2> QED BY <1>4, <1>5, <2>1, <2>2 DEF InOrder, InStep, NewestDone, EarlierDone
<1>7. CASE SetHeader
  <2>1. UNCHANGED <<avail, used, done, answer>> /\ driver = "header" /\ driver' = "descriptors"
        /\ request' = [request EXCEPT !.type = call.op, !.sector = call.sector + done]
    BY <1>7 DEF SetHeader
  <2>2. avail = used /\ Ahead(used, avail)' <= 1
    BY <1>4, <2>1 DEF InStep, Ahead
  <2>3. request'.type = call.op /\ request'.sector = call.sector + done
    BY <1>4, <2>1 DEF BlkTypeOK, Requests
  <2> QED BY <1>2, <1>4, <1>5, <2>1, <2>2, <2>3 DEF InOrder, InStep, NewestDone, EarlierDone
<1>8. CASE SetDescriptors
  <2>1. UNCHANGED <<avail, used, done, answer>> /\ driver = "descriptors" /\ driver' = "publish"
        /\ request' = [request EXCEPT !.slot = call.slot + done, !.direction = call.op]
        /\ before' = used
    BY <1>8 DEF SetDescriptors
  <2>2. avail = used /\ Ahead(used, avail)' <= 1
    BY <1>4, <2>1 DEF InStep, Ahead
  <2>3. IsWanted(request)'
    <3>1. request.type = call.op /\ request.sector = call.sector + done
      BY <1>4, <2>1 DEF InStep
    <3>2. /\ request'.type = request.type /\ request'.sector = request.sector
          /\ request'.slot = call.slot + done /\ request'.direction = call.op
      BY <1>4, <2>1 DEF BlkTypeOK, Requests
    <3> QED BY <1>2, <2>1, <3>1, <3>2 DEF IsWanted
  <2>4. InStep' /\ NewestDone'
    BY <1>2, <2>1, <2>2, <2>3 DEF InStep, NewestDone
  <2>5. EarlierDone'
    BY <1>2, <1>4, <1>5, <2>1 DEF EarlierDone
  <2> QED BY <2>4, <2>5 DEF InOrder
<1>9. CASE Publish
  <2>1. UNCHANGED <<used, done, answer, request, before, inFlight>>
        /\ driver = "publish" /\ driver' = "wait" /\ avail' = Increment(avail)
    BY <1>9 DEF Publish
  <2>2. avail = used /\ before = used /\ IsWanted(request) /\ done < call.count
    BY <1>4, <2>1 DEF InStep, BlkTypeOK
  <2>3. avail \in Indices /\ used \in Indices /\ fetched \in Indices
    BY <1>4 DEF BlkTypeOK
  <2>4. Ahead(used, avail)' = 1
    <3>1. IndexModulus \in Nat /\ IndexModulus >= 2 /\ Ahead(used, avail) = 0
      BY <2>2, <2>3, BlkConstants, AheadMoves
    <3>2. Ahead(used, Increment(avail)) = 1
      BY <2>3, <3>1, AheadMoves
    <3> QED BY <2>1, <3>2 DEF Ahead
  <2>5. DOMAIN inFlight = {}
    <3>1. Ahead(used, fetched) = 0
      <4>1. Ahead(used, avail) = 0 /\ Ahead(used, fetched) \in Nat /\ Ahead(fetched, avail) \in Nat
        BY <2>2, <2>3, AheadMoves
      <4>2. Ahead(used, fetched) + Ahead(fetched, avail) = Ahead(used, avail)
        BY <1>4 DEF RingKept
      <4> QED BY <4>1, <4>2
    <3>2. Len(inFlight) = 0
      BY <1>4, <3>1 DEF RingKept
    <3>3. DOMAIN inFlight = 1..Len(inFlight)
      BY <1>4 DEF BlkTypeOK
    <3> QED BY <3>2, <3>3
  <2>6. IsWanted(request)'
    BY <1>2, <2>1, <2>2 DEF IsWanted
  <2>7. InStep'
    BY <2>1, <2>4, <2>6 DEF InStep
  <2>8. NewestDone'
    BY <1>2, <2>1, <2>2, <2>5, <2>6 DEF NewestDone
  <2> QED BY <1>4, <1>5, <1>2, <2>1, <2>7, <2>8 DEF InOrder, EarlierDone
<1>10. CASE FinishSector
  <2>1. UNCHANGED <<avail, used>> /\ driver = "wait" /\ used # before
    BY <1>10 DEF FinishSector
  <2>2. avail = used /\ (statusByte = "ok" => SectorMoved(done)) /\ Ahead(used, avail)' <= 1
    BY <1>4, <2>1 DEF NewestDone, InStep, Ahead
  <2>3. driver' \in {"idle", "header"}
    BY <1>10 DEF FinishSector, Answer
  <2>4. InStep' /\ NewestDone'
    BY <2>1, <2>2, <2>3 DEF InStep, NewestDone
  <2>5. EarlierDone'
    <3>1. CASE statusByte # "ok"
      <4>1. done' = done /\ answer' = "error"
        BY <1>10, <3>1 DEF FinishSector, Answer
      <4> QED BY <1>4, <1>5, <4>1 DEF EarlierDone
    <3>2. CASE statusByte = "ok"
      <4>1. done' = done + 1 /\ done \in Nat
        BY <1>4, <1>10, <3>2 DEF FinishSector, BlkTypeOK
      <4>2. answer' = "ok" => done' = call.count
        BY <1>4, <1>10, <2>1, <3>2 DEF FinishSector, Answer, BlkTypeOK
      <4>3. \A i \in 0..(done' - 1) : i \in 0..(done - 1) \/ i = done
        BY <4>1
      <4> QED BY <1>2, <1>4, <1>5, <2>2, <3>2, <4>2, <4>3 DEF EarlierDone
    <3> QED BY <3>1, <3>2
  <2> QED BY <2>4, <2>5 DEF InOrder
<1>11. CASE GiveUp
  <2>1. UNCHANGED <<avail, used, done, request, inFlight, statusByte>>
        /\ driver' = "idle" /\ answer' = "error"
    BY <1>11 DEF GiveUp, Answer
  <2>2. \A r : IsWanted(r)' <=> IsWanted(r)
    BY <1>2, <2>1 DEF IsWanted
  <2>3. InStep'
    BY <1>4, <2>1 DEF InStep, Ahead
  <2>4. IsWanted(request)' <=> IsWanted(request)
    BY <1>2, <2>1 DEF IsWanted
  <2>5. \A i \in DOMAIN inFlight : IsWanted(inFlight[i].what)' <=> IsWanted(inFlight[i].what)
    BY <1>2, <2>1 DEF IsWanted
  <2>6. SectorMoved(done)' <=> SectorMoved(done)
    BY <1>2, <2>1 DEF SectorMoved
  <2>7. NewestDone'
    BY <1>2, <1>4, <2>1, <2>4, <2>5, <2>6 DEF NewestDone
  <2> QED BY <1>4, <1>5, <2>1, <2>3, <2>7 DEF InOrder, EarlierDone
<1> QED BY <1>6, <1>7, <1>8, <1>9, <1>10, <1>11

\* While a request of a call is out, it is the only one.
LEMMA OneRequest ==
    ASSUME BlkTypeOK, RingKept, InOrder, inFlight # <<>> \/ fetched # avail
    PROVE  /\ used # avail /\ Ahead(used, avail) = 1
           /\ \A i, j \in DOMAIN inFlight : i = j
           /\ done < call.count /\ IsWanted(request)
<1>1. /\ avail \in Indices /\ used \in Indices /\ fetched \in Indices
      /\ inFlight \in Seq(Entries)
  BY DEF BlkTypeOK, Entries
<1>2. /\ Ahead(used, fetched) \in Nat /\ Ahead(fetched, avail) \in Nat /\ Ahead(used, avail) \in Nat
      /\ fetched # avail => Ahead(fetched, avail) > 0
      /\ Ahead(used, avail) = 0 <=> used = avail
  BY <1>1, AheadMoves
<1>3. /\ Ahead(used, fetched) = Len(inFlight)
      /\ Ahead(used, fetched) + Ahead(fetched, avail) = Ahead(used, avail)
      /\ Ahead(used, avail) <= 1
  BY DEF RingKept, InOrder, InStep
<1>4. Len(inFlight) \in Nat /\ (inFlight # <<>> => Len(inFlight) > 0) /\ DOMAIN inFlight = 1..Len(inFlight)
  BY <1>1
<1>5. Ahead(used, avail) = 1 /\ used # avail /\ Len(inFlight) <= 1
  BY <1>2, <1>3, <1>4
<1>6. \A i, j \in DOMAIN inFlight : i = j
  BY <1>4, <1>5
<1> QED BY <1>5, <1>6 DEF InOrder, NewestDone

\* The device moves the data of a request.
LEMMA TransferOnCall ==
    ASSUME BlkInv, NEW i, Transfer(i)
    PROVE  CallKept'
<1> USE DEF blkDriverVars, blkDeviceVars, blkCallVars
<1>1. /\ UNCHANGED <<avail, used, fetched, before, request, driver, statusByte, call, done, answer,
                     clean, diskBefore, memoryBefore>>
      /\ i \in DOMAIN inFlight /\ Goes(i, "ok")
  BY DEF Transfer, InStage
<1> SUFFICES ASSUME clean, call.op # "none"
             PROVE  InOrder' /\ OthersUntouched'
  BY <1>1 DEF CallKept, OthersUntouched
<1>2. BlkTypeOK /\ RingKept /\ InOrder /\ InStep /\ NewestDone /\ EarlierDone /\ OthersUntouched
  BY DEF BlkInv, InOrder
<1>3. /\ used # avail /\ \A j, k \in DOMAIN inFlight : j = k
      /\ done < call.count /\ IsWanted(request)
  BY <1>1, <1>2, OneRequest
<1>4. /\ call \in BlkCalls /\ call.op \in {"read", "write"}
      /\ call.sector \in Nat /\ call.slot \in Nat /\ call.count \in Nat /\ done \in Nat
      /\ call.sector + call.count <= SectorCount /\ call.slot + call.count <= SlotCount
  BY <1>2, CallFacts DEF BlkTypeOK
<1> DEFINE s == call.sector + done
           b == call.slot + done
<1>5. s \in Sectors /\ b \in Slots /\ done \in Moved
  BY <1>3, <1>4, BlkConstants DEF Sectors, Slots, Moved
<1>6. IsWanted(inFlight[i].what)
  BY <1>1, <1>2, <1>3 DEF NewestDone
<1>7. /\ call.op = "read" => memory' = [memory EXCEPT ![b] = disk[s]] /\ disk' = disk
      /\ call.op = "write" => disk' = [disk EXCEPT ![s] = memory[b]] /\ memory' = memory
  BY <1>4, <1>6 DEF Transfer, IsWanted
<1>8. /\ call.op = "read" => disk[s] = diskBefore[s]
      /\ call.op = "write" => memory[b] = memoryBefore[b]
  BY <1>5, <1>2 DEF OthersUntouched
<1>9. DOMAIN memory = Slots /\ DOMAIN disk = Sectors
  BY <1>2 DEF BlkTypeOK, On
<1>10. SectorMoved(done)'
  BY <1>1, <1>4, <1>5, <1>7, <1>8, <1>9 DEF SectorMoved
<1>11. ASSUME NEW k \in 0..(done - 1)
       PROVE  SectorMoved(k)'
  <2>1. SectorMoved(k) /\ call.slot + k # b /\ call.sector + k # s
    BY <1>2, <1>4 DEF EarlierDone
  <2>2. call.slot + k \in Slots /\ call.sector + k \in Sectors
    BY <1>3, <1>4, BlkConstants DEF Sectors, Slots
  <2>3. /\ call.op = "read" => memory'[call.slot + k] = memory[call.slot + k]
        /\ call.op = "write" => disk'[call.sector + k] = disk[call.sector + k]
    BY <1>7, <1>9, <2>1, <2>2
  <2> QED BY <1>1, <1>4, <2>1, <2>3 DEF SectorMoved
<1>12. OthersUntouched'
  <2>1. Moved' = Moved
    BY <1>1 DEF Moved
  <2>2. ASSUME NEW t \in Sectors, disk'[t] # diskBefore[t]
        PROVE  call.op = "write" /\ t - call.sector \in Moved
    <3>1. CASE disk'[t] = disk[t]
      BY <1>2, <2>2, <3>1 DEF OthersUntouched
    <3>2. CASE disk'[t] # disk[t]
      <4>1. call.op = "write" /\ t = s
        BY <1>4, <1>7, <1>9, <2>2, <3>2
      <4>2. s - call.sector = done
        BY <1>4
      <4> QED BY <1>5, <4>1, <4>2
    <3> QED BY <3>1, <3>2
  <2>3. ASSUME NEW t \in Slots, memory'[t] # memoryBefore[t]
        PROVE  call.op = "read" /\ t - call.slot \in Moved
    <3>1. CASE memory'[t] = memory[t]
      BY <1>2, <2>3, <3>1 DEF OthersUntouched
    <3>2. CASE memory'[t] # memory[t]
      <4>1. call.op = "read" /\ t = b
        BY <1>4, <1>7, <1>9, <2>3, <3>2
      <4>2. b - call.slot = done
        BY <1>4
      <4> QED BY <1>5, <4>1, <4>2
    <3> QED BY <3>1, <3>2
  <2> HIDE DEF s, b
  <2> QED BY <1>1, <2>1, <2>2, <2>3 DEF OthersUntouched
<1>13. /\ DOMAIN inFlight' = DOMAIN inFlight
       /\ \A j \in DOMAIN inFlight : inFlight'[j].what = inFlight[j].what
  BY <1>1, <1>2, <1>3, ProgressMade DEF Progress
<1>14. NewestDone'
  <2>1. IsWanted(request)'
    BY <1>1, <1>3 DEF IsWanted
  <2>2. \A j \in DOMAIN inFlight' : IsWanted(inFlight[j].what)'
    BY <1>1, <1>3, <1>6, <1>13 DEF IsWanted
  <2> QED BY <1>1, <1>2, <1>3, <1>10, <2>1, <2>2 DEF NewestDone
<1>15. InStep' /\ EarlierDone'
  <2>1. InStep'
    BY <1>1, <1>2 DEF InStep, Ahead, IsWanted
  <2>2. EarlierDone'
    BY <1>1, <1>2, <1>11 DEF EarlierDone
  <2> QED BY <2>1, <2>2
<1> QED BY <1>12, <1>14, <1>15 DEF InOrder

\* The device's other steps.
LEMMA DeviceOnCall ==
    ASSUME BlkInv, \/ Fetch
                   \/ \E i \in 1..(MaxTimeouts + 1) : FailTransfer(i) \/ WriteStatus(i) \/ PushUsed(i)
    PROVE  CallKept'
<1> USE DEF blkDriverVars, blkDeviceVars, blkCallVars
<1>1. /\ UNCHANGED <<avail, before, request, driver, call, done, answer,
                     clean, diskBefore, memoryBefore, disk, memory>>
  BY DEF Fetch, FailTransfer, WriteStatus, PushUsed
<1>2. OthersUntouched'
  BY <1>1, SameSectors DEF BlkInv
<1> SUFFICES ASSUME clean, call.op # "none"
             PROVE  InOrder'
  BY <1>1, <1>2 DEF CallKept
<1>3. BlkTypeOK /\ RingKept /\ InOrder /\ InStep /\ NewestDone /\ EarlierDone
      /\ inFlight \in Seq(Entries)
  BY DEF BlkInv, InOrder, BlkTypeOK, Entries
<1>4. /\ \A i \in Nat : SectorMoved(i)' <=> SectorMoved(i)
      /\ SectorMoved(done)' <=> SectorMoved(done)
      /\ IsWanted(request)' <=> IsWanted(request)
      /\ \A r \in Requests : IsWanted(r)' <=> IsWanted(r)
  BY <1>1 DEF SectorMoved, IsWanted
<1>5. EarlierDone'
  <2>1. \A i \in 0..(done - 1) : i \in Nat
    BY <1>3 DEF BlkTypeOK
  <2> QED BY <1>1, <1>3, <1>4, <2>1 DEF EarlierDone
<1>6. CASE Fetch
  <2>1. fetched # avail /\ used' = used /\ statusByte' = statusByte
        /\ inFlight' = Append(inFlight, [what |-> request, progress |-> "fetched"])
    BY <1>6 DEF Fetch
  <2>2. used # avail /\ IsWanted(request) /\ done < call.count
    BY <1>3, <2>1, OneRequest
  <2>3. ASSUME NEW i \in DOMAIN inFlight'
        PROVE  /\ IsWanted(inFlight'[i].what)
               /\ inFlight'[i].progress = "ok" => SectorMoved(done)
               /\ inFlight'[i].progress = "status" /\ statusByte = "ok" => SectorMoved(done)
    <3>1. \/ i \in DOMAIN inFlight /\ inFlight'[i] = inFlight[i]
          \/ inFlight'[i].what = request /\ inFlight'[i].progress = "fetched"
      BY <1>3, <2>1, <2>3
    <3> QED BY <1>3, <2>2, <3>1 DEF NewestDone
  <2>4. \A i \in DOMAIN inFlight' : IsWanted(inFlight[i].what)' <=> IsWanted(inFlight'[i].what)
    BY <1>1 DEF IsWanted
  <2>5. NewestDone'
    BY <1>1, <1>3, <1>4, <2>1, <2>2, <2>3, <2>4 DEF NewestDone
  <2>6. InStep'
    BY <1>1, <1>3, <1>4, <2>1 DEF InStep, Ahead
  <2> QED BY <1>5, <2>5, <2>6 DEF InOrder
<1>7. ASSUME NEW i, FailTransfer(i) \/ WriteStatus(i)
      PROVE  InOrder'
  <2>1. used' = used /\ i \in DOMAIN inFlight
    BY <1>7 DEF FailTransfer, WriteStatus, InStage
  <2>2. used # avail /\ \A j, k \in DOMAIN inFlight : j = k
    BY <1>3, <2>1, OneRequest
  <2>3. /\ DOMAIN inFlight' = DOMAIN inFlight
        /\ \A j \in DOMAIN inFlight : j = i
        /\ inFlight'[i].what = inFlight[i].what
    <3>1. \E p \in Progress : Goes(i, p)
      BY <1>7 DEF FailTransfer, WriteStatus, Progress
    <3> QED BY <1>3, <2>1, <2>2, <3>1, ProgressMade
  <2>4. /\ inFlight'[i].progress # "ok"
        /\ inFlight'[i].progress = "status" /\ statusByte' = "ok" => SectorMoved(done)
    <3>1. CASE FailTransfer(i)
      <4>1. inFlight'[i].progress = "error"
        BY <1>3, <2>1, <3>1, ProgressMade DEF FailTransfer, Progress
      <4> QED BY <4>1
    <3>2. CASE WriteStatus(i)
      <4>1. inFlight'[i].progress = "status" /\ statusByte' = inFlight[i].progress
        BY <1>3, <2>1, <3>2, ProgressMade DEF WriteStatus, Progress
      <4> QED BY <1>3, <2>1, <2>2, <4>1 DEF NewestDone
    <3> QED BY <1>7, <3>1, <3>2
  <2>5. IsWanted(inFlight[i].what)'
    BY <1>1, <1>3, <2>1, <2>2, <2>3 DEF NewestDone, IsWanted
  <2>6. \A j \in DOMAIN inFlight' : IsWanted(inFlight[j].what)'
    BY <1>1, <1>3, <2>1, <2>2, <2>3 DEF NewestDone, IsWanted
  <2>7. NewestDone'
    BY <1>1, <1>3, <1>4, <2>1, <2>2, <2>3, <2>4, <2>6 DEF NewestDone
  <2>8. InStep'
    BY <1>1, <1>3, <1>4, <2>1 DEF InStep, Ahead
  <2> QED BY <1>5, <2>7, <2>8 DEF InOrder
<1>8. ASSUME NEW i, PushUsed(i)
      PROVE  InOrder'
  <2>1. used' = Increment(used) /\ statusByte' = statusByte /\ i \in DOMAIN inFlight
        /\ inFlight[i].progress = "status"
    BY <1>8 DEF PushUsed, InStage
  <2>2. used # avail /\ Ahead(used, avail) = 1
    BY <1>3, <2>1, OneRequest
  <2>3. used' = avail
    <3>1. used \in Indices /\ avail \in Indices /\ Increment(used) \in Indices
      BY <1>3, Incremented DEF BlkTypeOK
    <3>2. Ahead(Increment(used), avail) = 0
      BY <2>2, <3>1, AheadMoves
    <3> QED BY <2>1, <3>1, <3>2, AheadMoves
  <2>4. Ahead(used, avail)' = 0
    <3>1. avail \in Indices
      BY <1>3 DEF BlkTypeOK
    <3> QED BY <1>1, <2>3, <3>1, AheadMoves DEF Ahead
  <2>5. statusByte = "ok" => SectorMoved(done)
    BY <1>3, <2>1, <2>2 DEF NewestDone
  <2>6. driver \in {"idle", "wait"}
    BY <1>3, <2>2 DEF InStep, BlkTypeOK
  <2>7. NewestDone'
    BY <1>1, <1>4, <2>1, <2>3, <2>5 DEF NewestDone
  <2>8. InStep'
    BY <1>1, <1>3, <1>4, <2>4, <2>6 DEF InStep
  <2> QED BY <1>5, <2>7, <2>8 DEF InOrder
<1> QED BY <1>6, <1>7, <1>8

\* The driver after blk_init.
LEMMA BlkInitHolds == BlkInit => BlkInv
<1> SUFFICES ASSUME BlkInit
             PROVE  BlkInv
  OBVIOUS
<1>1. PICK sectors \in [Sectors -> BlkValues], slots \in [Slots -> BlkValues], devices \in Boards :
          BlkBegins(sectors, slots, devices)
  BY DEF BlkInit
<1>2. 0 \in Indices
  BY BlkConstants DEF Indices
<1>3. request \in Requests
  BY <1>1 DEF BlkBegins, NoRequest, Requests
<1>4. inFlight \in Seq([what : Requests, progress : Progress])
  BY <1>1, EmptySeq DEF BlkBegins
<1>5. On(Sectors, disk) /\ On(Sectors, diskBefore) /\ On(Slots, memory) /\ On(Slots, memoryBefore)
  BY <1>1 DEF BlkBegins, On
<1>6. timeouts \in 0..MaxTimeouts /\ done \in Nat
  BY <1>1, BlkConstants DEF BlkBegins
<1>7. BlkTypeOK
  BY <1>1, <1>2, <1>3, <1>4, <1>5, <1>6 DEF BlkBegins, BlkTypeOK
<1>8. RingKept
  <2>1. Ahead(0, 0) = 0
    BY <1>2, AheadMoves
  <2> QED BY <1>1, <2>1 DEF BlkBegins, RingKept
<1>9. call.op = "none"
  BY <1>1 DEF BlkBegins
<1> QED BY <1>7, <1>8, <1>9 DEF BlkInv, OthersUntouched

\* The invariant holds in every order of the driver's and the device's steps.
\* Fewer requests are given up than a ring index can count: after that many
\* timeouts the index of an old answer would look like a new one.
THEOREM BlkInvariant ==
    ASSUME MaxTimeouts + 1 < IndexModulus
    PROVE  BlkSpec => []BlkInv
<1>1. ASSUME BlkInv, [BlkNext]_blkVars
      PROVE  BlkInv'
  <2>1. BlkTypeOK /\ RingKept
    BY <1>1 DEF BlkInv
  <2>2. CASE UNCHANGED blkVars
    <3>1. UNCHANGED <<disk, memory, statusByte, timeouts, board, blkReady, request, avail, before,
                      driver, fetched, inFlight, used, call, done, answer, clean, diskBefore,
                      memoryBefore>>
      BY <2>2 DEF blkVars, blkDriverVars, blkDeviceVars, blkCallVars
    <3>2. BlkTypeOK' /\ RingKept'
      BY <2>1, <3>1 DEF BlkTypeOK, On, RingKept, Ahead
    <3>3. InOrder => InOrder'
      BY <3>1 DEF InOrder, InStep, NewestDone, EarlierDone, IsWanted, SectorMoved, Ahead
    <3>4. OthersUntouched'
      BY <1>1, <3>1, SameSectors DEF BlkInv
    <3> QED BY <1>1, <3>1, <3>2, <3>3, <3>4 DEF BlkInv
  <2>3. CASE \/ \E slot \in Slots, value \in BlkValues : FillSlot(slot, value)
             \/ \E c \in BlkCalls : StartCall(c)
    BY <1>1, <2>1, <2>3, CallerTypes, DriverKeepsRing, CallBegins DEF BlkInv, CallKept
  <2>4. CASE NoDevice \/ SetHeader \/ SetDescriptors \/ Publish \/ FinishSector \/ GiveUp
    BY <1>1, <2>1, <2>4, DriverTypes, DriverKeepsRing, DriverOnCall DEF BlkInv, CallKept
  <2>5. CASE Fetch \/ \E i \in 1..(MaxTimeouts + 1) :
                         Transfer(i) \/ FailTransfer(i) \/ WriteStatus(i) \/ PushUsed(i)
    <3>1. BlkTypeOK' /\ RingKept'
      BY <2>1, <2>5, DeviceTypes, DeviceKeepsRing
    <3>2. CallKept'
      BY <1>1, <2>5, TransferOnCall, DeviceOnCall
    <3> QED BY <3>1, <3>2 DEF BlkInv, CallKept
  <2> QED BY <1>1, <2>2, <2>3, <2>4, <2>5 DEF BlkNext
<1> QED BY <1>1, BlkInitHolds, PTL DEF BlkSpec

\* A call that reports success, and before which no request was given up, has
\* moved all its sectors; any call leaves the other sectors and the rest of
\* the memory alone (virtio_blk.c: the request, the rings and the wait;
\* block.c).
THEOREM BlkIsTrue ==
    ASSUME MaxTimeouts + 1 < IndexModulus
    PROVE  BlkSpec => []BlkTrue
<1>1. BlkInv => BlkTrue
  <2> SUFFICES ASSUME BlkInv
               PROVE  BlkTrue
    OBVIOUS
  <2>1. OthersUntouched
    BY DEF BlkInv
  <2>2. ASSUME answer = "ok", clean, call.op # "none"
        PROVE  \A i \in Moved : SectorMoved(i)
    BY <2>2 DEF BlkInv, InOrder, EarlierDone, Moved
  <2>3. answer = "ok" => call.op # "none"
    BY DEF BlkInv, BlkTypeOK
  <2> QED BY <2>1, <2>2, <2>3 DEF BlkTrue, OkMeansTransferred, SectorMoved
<1> QED BY <1>1, BlkInvariant, PTL

-----------------------------------------------------------------------------
(* The SD card. *)

\* The commands of sd_init.
InitSteps == {"CMD0", "CMD8", "CMD55", "ACMD41", "CMD2", "CMD3", "CMD9", "CMD7", "CMD16"}

\* The states a card goes through.
States == {"idle", "ready", "ident", "standby", "transfer", "data"}

\* A card.
Cards == [kind : {"high", "standard"}, state : States, address : Nat, blockBytes : Nat,
          defaultBytes : Nat, sectors : [CardSectorSet -> CardValues]]

\* The types of the variables.
SdTypeOK ==
    /\ card \in Cards
    /\ statics \in [ready : BOOLEAN, highCapacity : BOOLEAN, rca : Nat, capacity : Nat]
    /\ buffer \in [CardSlotSet -> CardValues]
    /\ sdCall \in SdCalls \union {[op |-> "init"], [op |-> "none"]}
    /\ sdStep \in InitSteps \union {"idle", "transfer", "data"}
    /\ sdDone \in Nat
    /\ sdBefore \in [sectors : [CardSectorSet -> CardValues], buffer : [CardSlotSet -> CardValues]]

\* What sd_init knows of the card when it has come to a command.
Walked ==
    /\ card.kind = "high" => card.blockBytes = BlockBytes /\ card.defaultBytes = BlockBytes
    /\ sdStep \in {"CMD2", "CMD3", "CMD9", "CMD7", "CMD16"} =>
          statics.highCapacity = (card.kind = "high")
    /\ sdStep \in {"CMD9", "CMD7", "CMD16"} => card.address = statics.rca
    /\ sdStep \in {"CMD7", "CMD16"} => statics.capacity = CardSectors
    /\ sdStep = "CMD16" => card.state = "transfer"
    /\ sdStep \in InitSteps => ~statics.ready
    /\ sdStep \in {"transfer", "data"} => statics.ready

\* What a transfer relies on.
Selected ==
    /\ card.state \in {"transfer", "data"} /\ card.address = statics.rca
    /\ statics.highCapacity = (card.kind = "high")
    /\ statics.capacity = CardSectors /\ card.blockBytes = BlockBytes

\* Sector i of the call is where it should be.
CardMoved(i) ==
    IF sdCall.op = "read" THEN buffer[sdCall.slot + i] = sdBefore.sectors[sdCall.sector + i]
    ELSE card.sectors[sdCall.sector + i] = sdBefore.buffer[sdCall.slot + i]

\* A call has moved the sectors before the one it is at, and only a call that
\* is done reports success.
Progressed ==
    /\ sdStep # "idle" => sdAnswer = "none" /\ sdCall.op # "none"
    /\ sdStep # "idle" /\ sdCall.op # "init" => sdDone < sdCall.count
    /\ sdStep \in {"transfer", "data"} => sdCall.op # "init"
    /\ sdCall.op \in {"read", "write"} => \A i \in 0..(sdDone - 1) : CardMoved(i)
    /\ sdAnswer = "ok" => sdCall.op = "init" \/ (sdCall.op # "none" /\ sdDone = sdCall.count)

\* Nothing else has changed since the call.
RestKept ==
    /\ \A s \in CardSectorSet : card.sectors[s] # sdBefore.sectors[s] =>
          sdCall.op = "write" /\ s - sdCall.sector \in SdMoved
    /\ \A b \in CardSlotSet : buffer[b] # sdBefore.buffer[b] =>
          sdCall.op = "read" /\ b - sdCall.slot \in SdMoved

\* The inductive invariant.
SdInv ==
    /\ SdTypeOK
    /\ Walked
    /\ statics.ready => Selected
    /\ Progressed
    /\ RestKept

-----------------------------------------------------------------------------
\* A multiple has no remainder.
LEMMA Multiple ==
    ASSUME NEW n \in Nat, NEW b \in Nat \ {0}
    PROVE  (n * b) % b = 0 /\ (n * b) \div b = n
<1>1. (n * b) % b = 0
  OBVIOUS
<1>2. (n * b) \div b = n
  OBVIOUS
<1> QED BY <1>1, <1>2

\* The fields of a call.
LEMMA SdCallFacts ==
    ASSUME NEW c \in SdCalls
    PROVE  /\ c.op \in {"read", "write"}
           /\ c.sector \in Nat /\ c.slot \in Nat /\ c.count \in Nat \ {0}
           /\ c.sector + c.count <= CardSectors /\ c.slot + c.count <= CardSlots
BY CardConstants DEF SdCalls, CardSectorSet, CardSlotSet

\* The card reads a sector argument as the driver wrote it, when both know the
\* kind of addressing.
LEMMA SectorIsFound ==
    ASSUME SdTypeOK, statics.highCapacity = (card.kind = "high"), NEW s \in Nat
    PROVE  SectorAt(SectorArgument(s)) = s
<1>1. BlockBytes \in Nat \ {0}
  BY CardConstants
<1>2. (s * BlockBytes) % BlockBytes = 0 /\ (s * BlockBytes) \div BlockBytes = s
  BY <1>1, Multiple
<1> QED BY <1>2 DEF SectorAt, SectorArgument

\* Whatever a command of sd_init does to the card, it is the same card.
LEMMA ReactionsOfCard ==
    ASSUME SdTypeOK, Walked, sdStep \in InitSteps,
           NEW reply \in Reactions(card, sdStep, Argument(sdStep))
    PROVE  /\ reply \in Cards /\ reply.kind = card.kind /\ reply.sectors = card.sectors
           /\ card.kind = "high" => reply.blockBytes = BlockBytes /\ reply.defaultBytes = BlockBytes
<1>1. card \in Cards /\ BlockBytes \in Nat /\ Addresses \subseteq Nat
  BY CardConstants DEF SdTypeOK
<1>2. card.kind = "high" => card.blockBytes = BlockBytes /\ card.defaultBytes = BlockBytes
  BY DEF Walked
<1>3. \A state \in States : LET k == [card EXCEPT !.state = state] IN
          k \in Cards /\ k.kind = card.kind /\ k.sectors = card.sectors
          /\ k.blockBytes = card.blockBytes /\ k.defaultBytes = card.defaultBytes
  BY <1>1 DEF Cards
<1>4. CASE sdStep = "CMD0"
  <2>1. reply = [card EXCEPT !.state = "idle", !.address = 0, !.blockBytes = card.defaultBytes]
    BY <1>4 DEF Reactions
  <2> QED BY <1>1, <1>2, <2>1 DEF Cards, States
<1>5. CASE sdStep = "CMD3"
  <2>1. \E a \in Addresses : reply = [card EXCEPT !.state = "standby", !.address = a]
    BY <1>5 DEF Reactions
  <2> QED BY <1>1, <1>2, <2>1 DEF Cards, States
<1>6. CASE sdStep = "CMD16"
  <2>1. reply = [card EXCEPT !.blockBytes = BlockBytes]
    BY <1>6 DEF Reactions, Argument
  <2> QED BY <1>1, <1>2, <2>1 DEF Cards
<1>7. CASE sdStep \in {"CMD8", "CMD55", "ACMD41", "CMD2", "CMD9", "CMD7"}
  <2>1. reply = card \/ \E state \in States : reply = [card EXCEPT !.state = state]
    BY <1>7 DEF Reactions, States
  <2> QED BY <1>1, <1>2, <1>3, <2>1
<1> QED BY <1>4, <1>5, <1>6, <1>7 DEF InitSteps

\* The state a command leaves the card in, where sd_init relies on it.
LEMMA ReplyOfCard ==
    ASSUME SdTypeOK, Walked, sdStep \in InitSteps,
           NEW reply \in Reactions(card, sdStep, Argument(sdStep))
    PROVE  /\ sdStep \in {"CMD9", "CMD7", "CMD16"} => reply.address = card.address
           /\ sdStep = "CMD7" => reply.state = "transfer"
           /\ sdStep = "CMD16" => reply.state = card.state /\ reply.blockBytes = BlockBytes
<1>1. card \in Cards
  BY DEF SdTypeOK
<1>2. CASE sdStep = "CMD9"
  <2>1. reply = card
    BY <1>2 DEF Reactions
  <2> QED BY <1>2, <2>1
<1>3. CASE sdStep = "CMD7"
  <2>1. reply = [card EXCEPT !.state = "transfer"]
    BY <1>3 DEF Reactions
  <2> QED BY <1>1, <1>3, <2>1 DEF Cards
<1>4. CASE sdStep = "CMD16"
  <2>1. reply = [card EXCEPT !.blockBytes = BlockBytes]
    BY <1>4 DEF Reactions, Argument
  <2> QED BY <1>1, <1>4, <2>1 DEF Cards
<1> QED BY <1>2, <1>3, <1>4

\* The static variables, when one of them changes.
LEMMA StaticsFields ==
    ASSUME SdTypeOK, NEW h \in BOOLEAN, NEW n \in Nat
    PROVE  /\ [statics EXCEPT !.highCapacity = h] \in
                  [ready : BOOLEAN, highCapacity : BOOLEAN, rca : Nat, capacity : Nat]
           /\ [statics EXCEPT !.rca = n] \in
                  [ready : BOOLEAN, highCapacity : BOOLEAN, rca : Nat, capacity : Nat]
           /\ [statics EXCEPT !.capacity = n] \in
                  [ready : BOOLEAN, highCapacity : BOOLEAN, rca : Nat, capacity : Nat]
           /\ [statics EXCEPT !.ready = TRUE] \in
                  [ready : BOOLEAN, highCapacity : BOOLEAN, rca : Nat, capacity : Nat]
BY DEF SdTypeOK

\* Steps that move no data.
LEMMA SameMoved ==
    ASSUME UNCHANGED <<buffer, sdCall, sdBefore>>, card'.sectors = card.sectors
    PROVE  /\ \A i : CardMoved(i)' <=> CardMoved(i)
           /\ RestKept' <=> RestKept
BY DEF CardMoved, RestKept, SdMoved

\* sd_init ends, or gives up, without a card.
LEMMA InitEnds ==
    ASSUME SdInv, sdStep \in InitSteps, SdFails, NEW reply,
           card' = reply, reply \in Cards, reply.kind = card.kind, reply.sectors = card.sectors,
           card.kind = "high" => reply.blockBytes = BlockBytes /\ reply.defaultBytes = BlockBytes,
           UNCHANGED <<buffer, sdCall, sdDone, sdBefore>>
    PROVE  SdInv'
<1>1. SdTypeOK /\ Walked /\ Progressed /\ RestKept
  BY DEF SdInv
<1>2. statics' = statics /\ sdStep' = "idle" /\ sdAnswer' = "error" /\ ~statics.ready
  BY <1>1 DEF SdFails, SdReply, Walked
<1>3. SdTypeOK'
  BY <1>1, <1>2 DEF SdTypeOK
<1>4. Walked'
  BY <1>1, <1>2 DEF Walked, InitSteps
<1>5. \A i : CardMoved(i)' <=> CardMoved(i)
  BY SameMoved
<1>6. Progressed'
  BY <1>1, <1>2, <1>5 DEF Progressed
<1>7. RestKept'
  BY <1>1, SameMoved
<1> QED BY <1>2, <1>3, <1>4, <1>6, <1>7 DEF SdInv

\* sd_init goes on, or has found the card ready for a transfer.
LEMMA InitGoesOn ==
    ASSUME SdInv, sdStep \in InitSteps,
           NEW reply \in Reactions(card, sdStep, Argument(sdStep)),
           card' = reply, AfterCommand(reply), UNCHANGED <<buffer, sdCall, sdDone, sdBefore>>
    PROVE  SdInv'
<1>1. SdTypeOK /\ Walked /\ Progressed /\ RestKept /\ ~statics.ready
  BY DEF SdInv, Walked
<1>2. /\ card' \in Cards /\ card'.kind = card.kind /\ card'.sectors = card.sectors
      /\ card.kind = "high" => card'.blockBytes = BlockBytes /\ card'.defaultBytes = BlockBytes
  BY <1>1, ReactionsOfCard
<1>3. /\ sdStep \in {"CMD9", "CMD7", "CMD16"} => card'.address = card.address
      /\ sdStep = "CMD7" => card'.state = "transfer"
      /\ sdStep = "CMD16" => card'.state = card.state /\ card'.blockBytes = BlockBytes
  BY <1>1, ReplyOfCard
<1> DEFINE Known == /\ statics' \in [ready : BOOLEAN, highCapacity : BOOLEAN, rca : Nat, capacity : Nat]
                    /\ Walked'
                    /\ statics'.ready => Selected'
           Answered == \/ sdStep' \in InitSteps /\ sdAnswer' = sdAnswer
                       \/ sdStep' = "transfer" /\ sdAnswer' = sdAnswer /\ sdCall.op # "init"
                       \/ sdStep' = "idle" /\ sdAnswer' = "ok" /\ sdCall.op = "init"
<1> SUFFICES Known /\ Answered
  <2> SUFFICES ASSUME Known, Answered
               PROVE  SdInv'
    OBVIOUS
  <2>1. sdStep' \in InitSteps \union {"idle", "transfer", "data"} /\ sdAnswer = "none"
        /\ sdStep # "idle"
    BY <1>1 DEF Progressed, InitSteps
  <2>2. SdTypeOK'
    BY <1>1, <1>2, <2>1 DEF SdTypeOK
  <2>3. \A i : CardMoved(i)' <=> CardMoved(i)
    BY <1>2, SameMoved
  <2>4. Progressed'
    <3>1. sdCall' = sdCall /\ sdDone' = sdDone
      OBVIOUS
    <3>2. /\ sdCall.op # "none" /\ (sdCall.op # "init" => sdDone < sdCall.count)
          /\ sdCall.op \in {"read", "write"} => \A i \in 0..(sdDone - 1) : CardMoved(i)
      BY <1>1, <2>1 DEF Progressed
    <3>3. CASE sdStep' \in InitSteps /\ sdAnswer' = sdAnswer
      BY <2>1, <2>3, <3>1, <3>2, <3>3 DEF Progressed, InitSteps
    <3>4. CASE sdStep' = "transfer" /\ sdAnswer' = sdAnswer /\ sdCall.op # "init"
      BY <2>1, <2>3, <3>1, <3>2, <3>4 DEF Progressed
    <3>5. CASE sdStep' = "idle" /\ sdAnswer' = "ok" /\ sdCall.op = "init"
      BY <2>3, <3>1, <3>5 DEF Progressed
    <3> QED BY <3>3, <3>4, <3>5
  <2>5. RestKept'
    BY <1>1, <1>2, SameMoved
  <2> QED BY <2>2, <2>4, <2>5 DEF SdInv
<1>4. statics \in [ready : BOOLEAN, highCapacity : BOOLEAN, rca : Nat, capacity : Nat]
  BY <1>1 DEF SdTypeOK
<1>5. CASE sdStep \in {"CMD0", "CMD8", "CMD55", "CMD2"}
  <2>1. statics' = statics /\ sdAnswer' = sdAnswer
        /\ \/ sdStep' \in {"CMD8", "CMD55", "ACMD41"}
           \/ sdStep = "CMD2" /\ sdStep' = "CMD3"
    BY <1>5 DEF AfterCommand
  <2> QED BY <1>1, <1>2, <1>4, <1>5, <2>1 DEF Walked, InitSteps
<1>6. CASE sdStep = "ACMD41"
  <2> DEFINE h == (reply.kind = "high")
  <2>1. /\ sdAnswer' = sdAnswer
        /\ \/ sdStep' = "CMD55" /\ statics' = statics
           \/ sdStep' = "CMD2" /\ statics' = [statics EXCEPT !.highCapacity = h]
    BY <1>6 DEF AfterCommand
  <2>2. CASE sdStep' = "CMD55" /\ statics' = statics
    BY <1>1, <1>2, <1>4, <1>6, <2>1, <2>2 DEF Walked, InitSteps
  <2>3. CASE sdStep' = "CMD2" /\ statics' = [statics EXCEPT !.highCapacity = h]
    <3>1. h \in BOOLEAN /\ h = (card'.kind = "high")
      OBVIOUS
    <3> HIDE DEF h
    <3>2. /\ statics' \in [ready : BOOLEAN, highCapacity : BOOLEAN, rca : Nat, capacity : Nat]
          /\ statics'.highCapacity = h /\ statics'.ready = statics.ready
      BY <1>1, <1>4, <2>3, <3>1, StaticsFields
    <3> QED BY <1>1, <1>2, <1>6, <2>1, <2>3, <3>1, <3>2 DEF Walked, InitSteps
  <2> QED BY <2>1, <2>2, <2>3
<1>7. CASE sdStep = "CMD3"
  <2>1. sdAnswer' = sdAnswer /\ sdStep' = "CMD9" /\ statics' = [statics EXCEPT !.rca = reply.address]
    BY <1>7 DEF AfterCommand
  <2>2. reply.address \in Nat /\ reply.address = card'.address
    BY <1>2 DEF Cards
  <2>3. /\ statics' \in [ready : BOOLEAN, highCapacity : BOOLEAN, rca : Nat, capacity : Nat]
        /\ statics'.highCapacity = statics.highCapacity /\ statics'.ready = statics.ready
        /\ statics'.rca = reply.address
    BY <1>1, <1>4, <2>1, <2>2, StaticsFields
  <2> QED BY <1>1, <1>2, <1>7, <2>1, <2>2, <2>3 DEF Walked, InitSteps
<1>8. CASE sdStep = "CMD9"
  <2>1. sdAnswer' = sdAnswer /\ sdStep' = "CMD7" /\ statics' = [statics EXCEPT !.capacity = CardSectors]
    BY <1>8 DEF AfterCommand
  <2>2. CardSectors \in Nat
    BY CardConstants
  <2>3. /\ statics' \in [ready : BOOLEAN, highCapacity : BOOLEAN, rca : Nat, capacity : Nat]
        /\ statics'.highCapacity = statics.highCapacity /\ statics'.ready = statics.ready
        /\ statics'.rca = statics.rca /\ statics'.capacity = CardSectors
    BY <1>1, <1>4, <2>1, <2>2, StaticsFields
  <2> QED BY <1>1, <1>2, <1>3, <1>8, <2>1, <2>3 DEF Walked, InitSteps
<1>9. ASSUME statics' = [statics EXCEPT !.ready = TRUE], sdStep \in {"CMD7", "CMD16"},
             card'.state = "transfer", card'.blockBytes = BlockBytes,
             IF sdCall.op = "init" THEN SdReply("ok") ELSE sdStep' = "transfer" /\ UNCHANGED sdAnswer
      PROVE  Known /\ Answered
  <2>1. Answered
    BY <1>9 DEF SdReply
  <2>2. /\ statics' \in [ready : BOOLEAN, highCapacity : BOOLEAN, rca : Nat, capacity : Nat]
        /\ statics'.highCapacity = statics.highCapacity /\ statics'.ready
        /\ statics'.rca = statics.rca /\ statics'.capacity = statics.capacity
    BY <1>1, <1>4, <1>9, StaticsFields
  <2>3. sdStep' \in {"idle", "transfer"}
    BY <1>9 DEF SdReply
  <2>4. Walked'
    BY <1>1, <1>2, <2>2, <2>3 DEF Walked, InitSteps
  <2>5. Selected'
    BY <1>1, <1>2, <1>3, <1>9, <2>2 DEF Walked, Selected
  <2> QED BY <2>1, <2>2, <2>4, <2>5
<1>10. CASE sdStep = "CMD7"
  <2>1. CASE statics.highCapacity
    <3>1. card'.blockBytes = BlockBytes
      BY <1>1, <1>2, <1>10, <2>1 DEF Walked
    <3> QED BY <1>3, <1>9, <1>10, <2>1, <3>1 DEF AfterCommand
  <2>2. CASE ~statics.highCapacity
    <3>1. sdStep' = "CMD16" /\ sdAnswer' = sdAnswer /\ statics' = statics
      BY <1>10, <2>2 DEF AfterCommand
    <3> QED BY <1>1, <1>2, <1>3, <1>4, <1>10, <3>1 DEF Walked, InitSteps
  <2> QED BY <2>1, <2>2
<1>11. CASE sdStep = "CMD16"
  <2>1. card'.state = "transfer"
    BY <1>1, <1>3, <1>11 DEF Walked
  <2> QED BY <1>3, <1>9, <1>11, <2>1 DEF AfterCommand
<1> QED BY <1>5, <1>6, <1>7, <1>8, <1>10, <1>11 DEF InitSteps

\* Every command of sd_init, answered or not.
LEMMA InitHolds ==
    ASSUME SdInv, InitCommand \/ SdGivesUp
    PROVE  SdInv'
<1>1. SdTypeOK /\ Walked
  BY DEF SdInv
<1>2. card \in Cards /\ (card.kind = "high" => card.blockBytes = BlockBytes /\ card.defaultBytes = BlockBytes)
  BY <1>1 DEF SdTypeOK, Walked
<1>3. CASE SdGivesUp
  BY <1>2, <1>3, InitEnds DEF SdGivesUp, InitSteps
<1>4. CASE InitCommand
  <2>1. sdStep \in InitSteps /\ UNCHANGED <<line, buffer, sdCall, sdDone, sdBefore>>
    BY <1>1, <1>4 DEF InitCommand, SdTypeOK
  <2>2. \/ \E reply \in Reactions(card, sdStep, Argument(sdStep)) : card' = reply /\ AfterCommand(reply)
        \/ SdFails /\ card' \in Reactions(card, sdStep, Argument(sdStep)) \union {card}
    BY <1>4 DEF InitCommand, AfterSilence
  <2>3. ASSUME NEW reply \in Reactions(card, sdStep, Argument(sdStep)), card' = reply, AfterCommand(reply)
        PROVE  SdInv'
    BY <2>1, <2>3, InitGoesOn
  <2>4. ASSUME SdFails, card' \in Reactions(card, sdStep, Argument(sdStep)) \union {card}
        PROVE  SdInv'
    <3>1. /\ card' \in Cards /\ card'.kind = card.kind /\ card'.sectors = card.sectors
          /\ card.kind = "high" => card'.blockBytes = BlockBytes /\ card'.defaultBytes = BlockBytes
      BY <1>1, <1>2, <2>1, <2>4, ReactionsOfCard
    <3> QED BY <2>1, <2>4, <3>1, InitEnds
  <2> QED BY <2>2, <2>3, <2>4
<1> QED BY <1>3, <1>4

-----------------------------------------------------------------------------
\* A call begins.
LEMMA StartsHold ==
    ASSUME SdInv,
           \/ \E slot \in CardSlotSet, value \in CardValues : SdFillSlot(slot, value)
           \/ \E c \in SdCalls \union {[op |-> "init"]} : SdStart(c)
    PROVE  SdInv'
<1>1. SdTypeOK /\ Walked /\ (statics.ready => Selected)
  BY DEF SdInv
<1>2. card.sectors \in [CardSectorSet -> CardValues]
  BY <1>1 DEF SdTypeOK, Cards
<1>3. CASE \E slot \in CardSlotSet, value \in CardValues : SdFillSlot(slot, value)
  <2>1. PICK slot \in CardSlotSet, value \in CardValues : SdFillSlot(slot, value)
    BY <1>3
  <2>2. /\ UNCHANGED <<card, statics, sdStep>> /\ sdStep = "idle"
        /\ buffer' \in [CardSlotSet -> CardValues]
        /\ sdBefore' = [sectors |-> card.sectors, buffer |-> buffer']
        /\ sdCall' = [op |-> "none"] /\ sdAnswer' = "none" /\ sdDone' = 0
    BY <1>1, <2>1 DEF SdFillSlot, SdTypeOK
  <2>3. SdTypeOK'
    BY <1>1, <1>2, <2>2 DEF SdTypeOK
  <2>4. Walked' /\ (statics.ready => Selected)'
    BY <1>1, <2>2 DEF Walked, Selected
  <2>5. Progressed' /\ RestKept'
    BY <2>2 DEF Progressed, RestKept
  <2> QED BY <2>3, <2>4, <2>5 DEF SdInv
<1>4. CASE \E c \in SdCalls \union {[op |-> "init"]} : SdStart(c)
  <2>1. PICK c \in SdCalls \union {[op |-> "init"]} : SdStart(c)
    BY <1>4
  <2>2. /\ UNCHANGED <<card, statics, buffer>> /\ sdStep = "idle"
        /\ sdBefore' = [sectors |-> card.sectors, buffer |-> buffer]
        /\ sdCall' = c /\ sdDone' = 0
        /\ \/ sdAnswer' = "ok" /\ sdStep' = "idle" /\ c.op = "init" /\ statics.ready
           \/ /\ sdAnswer' = "none" /\ (c.op = "init" => ~statics.ready)
              /\ sdStep' = IF statics.ready THEN "transfer" ELSE "CMD0"
    BY <2>1 DEF SdStart, FirstStep
  <2>3. c.op # "none" /\ (c.op # "init" => 0 < c.count)
    BY SdCallFacts
  <2>4. SdTypeOK'
    BY <1>1, <1>2, <2>2 DEF SdTypeOK, InitSteps
  <2>5. Walked' /\ (statics.ready => Selected)'
    BY <1>1, <2>2 DEF Walked, Selected, InitSteps
  <2>6. Progressed'
    BY <2>2, <2>3 DEF Progressed, InitSteps
  <2>7. RestKept'
    BY <2>2 DEF RestKept
  <2> QED BY <2>4, <2>5, <2>6, <2>7 DEF SdInv
<1> QED BY <1>3, <1>4

\* Where the driver and the card are in the transfer of a sector.
LEMMA InTransfer ==
    ASSUME SdInv, sdStep \in {"transfer", "data"}
    PROVE  /\ statics.ready /\ Selected
           /\ sdCall \in SdCalls /\ sdCall.op \in {"read", "write"}
           /\ sdCall.sector \in Nat /\ sdCall.slot \in Nat /\ sdCall.count \in Nat
           /\ sdDone \in Nat /\ sdDone < sdCall.count /\ sdDone \in SdMoved
           /\ sdCall.sector + sdDone \in CardSectorSet
           /\ sdCall.slot + sdDone \in CardSlotSet
           /\ SectorAt(SectorArgument(sdCall.sector + sdDone)) = sdCall.sector + sdDone
<1>1. statics.ready /\ Selected /\ SdTypeOK
  BY DEF SdInv, Walked
<1>2. sdCall \in SdCalls /\ sdDone < sdCall.count /\ sdDone \in Nat
  BY DEF SdInv, Progressed, SdTypeOK
<1>3. /\ sdCall.op \in {"read", "write"}
      /\ sdCall.sector \in Nat /\ sdCall.slot \in Nat /\ sdCall.count \in Nat
      /\ sdCall.sector + sdCall.count <= CardSectors /\ sdCall.slot + sdCall.count <= CardSlots
  BY <1>2, SdCallFacts
<1>4. /\ sdDone \in SdMoved /\ sdCall.sector + sdDone \in CardSectorSet
      /\ sdCall.slot + sdDone \in CardSlotSet
  BY <1>2, <1>3, CardConstants DEF SdMoved, CardSectorSet, CardSlotSet
<1>5. SectorAt(SectorArgument(sdCall.sector + sdDone)) = sdCall.sector + sdDone
  <2>1. sdCall.sector + sdDone \in Nat
    BY <1>2, <1>3
  <2> QED BY <1>1, <2>1, SectorIsFound DEF Selected
<1> QED BY <1>1, <1>2, <1>3, <1>4, <1>5

\* The fields of a card in another state.
LEMMA CardInState ==
    ASSUME card \in Cards, NEW state \in States
    PROVE  LET k == [card EXCEPT !.state = state] IN
           /\ k \in Cards /\ k.state = state /\ k.kind = card.kind /\ k.address = card.address
           /\ k.blockBytes = card.blockBytes /\ k.defaultBytes = card.defaultBytes
           /\ k.sectors = card.sectors
BY DEF Cards

\* In a transfer the card changes between the states of a selected card only.
LEMMA StateChanges ==
    ASSUME SdTypeOK, Walked, statics.ready => Selected,
           NEW state \in {"transfer", "data"}, card.state \in {"transfer", "data"},
           card' = card \/ card' = [card EXCEPT !.state = state], statics' = statics,
           sdStep' = sdStep \/ (sdStep' \in {"idle", "transfer", "data"} /\ statics.ready),
           sdStep # "CMD16" \/ state = "transfer"
    PROVE  /\ card' \in Cards /\ card'.sectors = card.sectors
           /\ Walked' /\ (statics.ready => Selected)'
<1>1. card \in Cards /\ state \in States
  BY DEF SdTypeOK, States
<1>2. /\ card' \in Cards /\ card'.kind = card.kind /\ card'.address = card.address
      /\ card'.blockBytes = card.blockBytes /\ card'.defaultBytes = card.defaultBytes
      /\ card'.sectors = card.sectors /\ card'.state \in {state, card.state}
  BY <1>1, CardInState
<1>3. (statics.ready => Selected)'
  BY <1>2 DEF Selected
<1>4. Walked'
  <2>1. CASE sdStep' = sdStep
    BY <1>2, <2>1 DEF Walked
  <2>2. CASE sdStep' \in {"idle", "transfer", "data"} /\ statics.ready
    BY <1>2, <2>2 DEF Walked, InitSteps
  <2> QED BY <2>1, <2>2
<1> QED BY <1>2, <1>3, <1>4

\* CMD17 and CMD24.
LEMMA DataCommandHolds ==
    ASSUME SdInv, DataCommand
    PROVE  SdInv'
<1>1. SdTypeOK /\ Walked /\ Progressed /\ RestKept /\ sdStep = "transfer"
  BY DEF SdInv, DataCommand
<1>2. statics.ready /\ Selected /\ sdCall.op \in {"read", "write"}
  BY <1>1, InTransfer
<1>3. /\ UNCHANGED <<statics, buffer, sdCall, sdDone, sdBefore>>
      /\ card' = card \/ card' = [card EXCEPT !.state = "data"]
      /\ \/ sdStep' = "data" /\ sdAnswer' = sdAnswer
         \/ sdStep' = "idle" /\ sdAnswer' = "error"
  BY DEF DataCommand, SdReply
<1>4. /\ card' \in Cards /\ card'.sectors = card.sectors
      /\ Walked' /\ (statics.ready => Selected)'
  BY <1>1, <1>2, <1>3, StateChanges DEF Selected
<1>5. SdTypeOK'
  BY <1>1, <1>3, <1>4 DEF SdTypeOK
<1>6. \A i : CardMoved(i)' <=> CardMoved(i)
  BY <1>3, <1>4, SameMoved
<1>7. Progressed'
  BY <1>1, <1>2, <1>3, <1>6 DEF Progressed
<1>8. RestKept'
  BY <1>1, <1>3, <1>4, SameMoved
<1> QED BY <1>4, <1>5, <1>7, <1>8 DEF SdInv

\* The card or the data line gets over a failed transfer.
LEMMA RecoverHolds ==
    ASSUME SdInv, CardRecovers \/ LineRecovers
    PROVE  SdInv'
<1>1. SdTypeOK /\ Walked /\ Progressed /\ RestKept /\ (statics.ready => Selected)
  BY DEF SdInv
<1>2. /\ UNCHANGED <<statics, buffer, sdCall, sdStep, sdDone, sdAnswer, sdBefore>>
      /\ card' = card \/ (card.state = "data" /\ card' = [card EXCEPT !.state = "transfer"])
  BY DEF CardRecovers, LineRecovers
<1>3. card' \in Cards /\ card'.sectors = card.sectors /\ Walked' /\ (statics.ready => Selected)'
  <2>1. CASE card' = card
    BY <1>1, <1>2, <2>1 DEF SdTypeOK, Walked, Selected
  <2>2. CASE card.state = "data" /\ card' = [card EXCEPT !.state = "transfer"]
    BY <1>1, <1>2, <2>2, StateChanges
  <2> QED BY <1>2, <2>1, <2>2
<1>4. SdTypeOK'
  BY <1>1, <1>2, <1>3 DEF SdTypeOK
<1>5. \A i : CardMoved(i)' <=> CardMoved(i)
  BY <1>2, <1>3, SameMoved
<1>6. Progressed'
  BY <1>1, <1>2, <1>5 DEF Progressed
<1>7. RestKept'
  BY <1>1, <1>2, <1>3, SameMoved
<1> QED BY <1>3, <1>4, <1>6, <1>7 DEF SdInv

\* One sector of the call, or its place in memory, is written.
LEMMA OneWritten ==
    ASSUME SdInv, sdStep = "data", UNCHANGED <<sdCall, sdBefore>>, NEW value \in CardValues,
           card'.sectors \in [CardSectorSet -> CardValues],
           IF sdCall.op = "read"
           THEN /\ buffer' = [buffer EXCEPT ![sdCall.slot + sdDone] = value]
                /\ card'.sectors = card.sectors
           ELSE /\ card'.sectors = [card.sectors EXCEPT ![sdCall.sector + sdDone] = value]
                /\ buffer' = buffer
    PROVE  /\ RestKept'
           /\ \A i \in 0..(sdDone - 1) : CardMoved(i)'
           /\ value = (IF sdCall.op = "read" THEN card.sectors[sdCall.sector + sdDone]
                       ELSE buffer[sdCall.slot + sdDone]) =>
                  \A i \in Nat : i = sdDone => CardMoved(i)'
           /\ buffer' \in [CardSlotSet -> CardValues]
<1> DEFINE s == sdCall.sector + sdDone
           b == sdCall.slot + sdDone
<1>1. /\ sdCall \in SdCalls /\ sdCall.op \in {"read", "write"}
      /\ sdCall.sector \in Nat /\ sdCall.slot \in Nat /\ sdCall.count \in Nat
      /\ sdDone \in Nat /\ sdDone < sdCall.count /\ sdDone \in SdMoved
      /\ s \in CardSectorSet /\ b \in CardSlotSet
  BY InTransfer
<1>2. /\ card.sectors \in [CardSectorSet -> CardValues] /\ buffer \in [CardSlotSet -> CardValues]
      /\ RestKept /\ \A i \in 0..(sdDone - 1) : CardMoved(i)
  BY <1>1 DEF SdInv, SdTypeOK, Cards, Progressed
<1>3. /\ sdCall.op = "read" => buffer' = [buffer EXCEPT ![b] = value] /\ card'.sectors = card.sectors
      /\ sdCall.op = "write" =>
            card'.sectors = [card.sectors EXCEPT ![s] = value] /\ buffer' = buffer
  OBVIOUS
<1>4. s - sdCall.sector = sdDone /\ b - sdCall.slot = sdDone
  BY <1>1
<1> HIDE DEF s, b
<1>5. /\ \A t \in CardSectorSet : card'.sectors[t] # card.sectors[t] => sdCall.op = "write" /\ t = s
      /\ \A t \in CardSlotSet : buffer'[t] # buffer[t] => sdCall.op = "read" /\ t = b
  BY <1>1, <1>2, <1>3
<1>6. RestKept'
  <2>1. SdMoved' = SdMoved
    BY DEF SdMoved
  <2>2. \A t \in CardSectorSet : card'.sectors[t] # sdBefore.sectors[t] =>
            sdCall.op = "write" /\ t - sdCall.sector \in SdMoved
    BY <1>1, <1>2, <1>4, <1>5 DEF RestKept
  <2>3. \A t \in CardSlotSet : buffer'[t] # sdBefore.buffer[t] =>
            sdCall.op = "read" /\ t - sdCall.slot \in SdMoved
    BY <1>1, <1>2, <1>4, <1>5 DEF RestKept
  <2> QED BY <2>1, <2>2, <2>3 DEF RestKept
<1>7. ASSUME NEW i \in 0..(sdDone - 1)
      PROVE  CardMoved(i)'
  <2>1. sdCall.slot + i # b /\ sdCall.sector + i # s
    BY <1>1 DEF s, b
  <2>2. sdCall.slot + i \in CardSlotSet /\ sdCall.sector + i \in CardSectorSet
    BY <1>1, CardConstants DEF CardSlotSet, CardSectorSet, s, b
  <2>3. CardMoved(i)
    BY <1>2
  <2>4. /\ buffer'[sdCall.slot + i] = buffer[sdCall.slot + i]
        /\ card'.sectors[sdCall.sector + i] = card.sectors[sdCall.sector + i]
    BY <1>5, <2>1, <2>2
  <2> QED BY <2>3, <2>4 DEF CardMoved
<1>8. ASSUME value = (IF sdCall.op = "read" THEN card.sectors[s] ELSE buffer[b]),
             NEW i \in Nat, i = sdDone
      PROVE  CardMoved(i)'
  <2>1. CASE sdCall.op = "read"
    <3>1. buffer'[b] = card.sectors[s]
      BY <1>1, <1>2, <1>3, <1>8, <2>1
    <3>2. card.sectors[s] = sdBefore.sectors[s]
      BY <1>1, <1>2, <2>1 DEF RestKept
    <3> QED BY <1>8, <2>1, <3>1, <3>2 DEF CardMoved, s, b
  <2>2. CASE sdCall.op = "write"
    <3>1. card'.sectors[s] = buffer[b]
      BY <1>1, <1>2, <1>3, <1>8, <2>2
    <3>2. buffer[b] = sdBefore.buffer[b]
      BY <1>1, <1>2, <2>2 DEF RestKept
    <3> QED BY <1>8, <2>2, <3>1, <3>2 DEF CardMoved, s, b
  <2> QED BY <1>1, <2>1, <2>2
<1>9. buffer' \in [CardSlotSet -> CardValues]
  BY <1>1, <1>2, <1>3
<1> QED BY <1>6, <1>7, <1>8, <1>9 DEF s, b

\* The fields of a card one sector of which has been written, in a new state.
LEMMA CardWritten ==
    ASSUME card \in Cards, NEW state \in States, NEW sector \in CardSectorSet, NEW value \in CardValues,
           card' = [card EXCEPT !.state = state, !.sectors[sector] = value]
    PROVE  /\ card' \in Cards /\ card'.state = state /\ card'.kind = card.kind
           /\ card'.address = card.address
           /\ card'.blockBytes = card.blockBytes /\ card'.defaultBytes = card.defaultBytes
           /\ card'.sectors = [card.sectors EXCEPT ![sector] = value]
<1>1. [card.sectors EXCEPT ![sector] = value] \in [CardSectorSet -> CardValues]
  BY DEF Cards
<1> QED BY <1>1 DEF Cards

\* The same when the transfer fails and the state stays.
LEMMA CardSpoiled ==
    ASSUME card \in Cards, NEW sector \in CardSectorSet, NEW value \in CardValues,
           card' = [card EXCEPT !.sectors[sector] = value]
    PROVE  /\ card' \in Cards /\ card'.state = card.state /\ card'.kind = card.kind
           /\ card'.address = card.address
           /\ card'.blockBytes = card.blockBytes /\ card'.defaultBytes = card.defaultBytes
           /\ card'.sectors = [card.sectors EXCEPT ![sector] = value]
<1>1. [card.sectors EXCEPT ![sector] = value] \in [CardSectorSet -> CardValues]
  BY DEF Cards
<1> QED BY <1>1 DEF Cards

\* A transfer ends, well or not.
LEMMA DataHolds ==
    ASSUME SdInv, DataDone \/ DataFails
    PROVE  SdInv'
<1> DEFINE s == sdCall.sector + sdDone
           b == sdCall.slot + sdDone
<1>1. SdTypeOK /\ Walked /\ Progressed /\ RestKept /\ sdStep = "data"
  BY DEF SdInv, DataDone, DataFails
<1>2. /\ statics.ready /\ Selected /\ sdCall \in SdCalls /\ sdCall.op \in {"read", "write"}
      /\ sdCall.count \in Nat
      /\ sdDone \in Nat /\ sdDone < sdCall.count /\ s \in CardSectorSet /\ b \in CardSlotSet
      /\ SectorAt(SectorArgument(s)) = s
  BY <1>1, InTransfer
<1>3. card \in Cards /\ card.sectors \in [CardSectorSet -> CardValues]
      /\ buffer \in [CardSlotSet -> CardValues]
  BY <1>1 DEF SdTypeOK, Cards
<1>4. UNCHANGED <<statics, sdCall, sdBefore>>
  BY DEF DataDone, DataFails
<1>5. \E value \in CardValues, state \in {"transfer", "data"} :
        /\ IF sdCall.op = "read"
           THEN /\ buffer' = [buffer EXCEPT ![b] = value]
                /\ (card' = card \/ card' = [card EXCEPT !.state = state])
           ELSE /\ \/ card' = [card EXCEPT !.state = state, !.sectors[s] = value]
                   \/ card' = [card EXCEPT !.sectors[s] = value]
                /\ buffer' = buffer
        /\ DataDone => value = IF sdCall.op = "read" THEN card.sectors[s] ELSE buffer[b]
  <2>1. CASE DataDone
    <3>1. card.sectors[s] \in CardValues /\ buffer[b] \in CardValues
      BY <1>2, <1>3
    <3>2. IF sdCall.op = "read"
          THEN /\ buffer' = [buffer EXCEPT ![b] = card.sectors[s]]
               /\ card' = [card EXCEPT !.state = "transfer"]
          ELSE /\ card' = [card EXCEPT !.state = "transfer", !.sectors[s] = buffer[b]]
               /\ UNCHANGED buffer
      BY <1>2, <2>1 DEF DataDone
    <3> HIDE DEF s, b
    <3> QED BY <3>1, <3>2
  <2>2. CASE DataFails
    <3>1. IF sdCall.op = "read"
          THEN /\ \E value \in CardValues : buffer' = [buffer EXCEPT ![b] = value]
               /\ UNCHANGED card
          ELSE /\ \E value \in CardValues : card' = [card EXCEPT !.sectors[s] = value]
               /\ UNCHANGED buffer
      BY <1>2, <2>2 DEF DataFails
    <3>2. ~DataDone
      BY <1>2, <2>2 DEF DataFails, DataDone, SdReply
    <3> HIDE DEF s, b
    <3> QED BY <3>1, <3>2
  <2> QED BY <2>1, <2>2
<1> HIDE DEF s, b
<1>6. PICK value \in CardValues, state \in {"transfer", "data"} :
        /\ IF sdCall.op = "read"
           THEN /\ buffer' = [buffer EXCEPT ![b] = value]
                /\ (card' = card \/ card' = [card EXCEPT !.state = state])
           ELSE /\ \/ card' = [card EXCEPT !.state = state, !.sectors[s] = value]
                   \/ card' = [card EXCEPT !.sectors[s] = value]
                /\ buffer' = buffer
        /\ DataDone => value = IF sdCall.op = "read" THEN card.sectors[s] ELSE buffer[b]
  BY <1>5
<1>7. state \in States
  BY DEF States
<1>8. /\ card' \in Cards /\ card'.kind = card.kind /\ card'.address = card.address
      /\ card'.blockBytes = card.blockBytes /\ card'.defaultBytes = card.defaultBytes
      /\ card'.state \in {card.state, state}
      /\ IF sdCall.op = "read"
         THEN card'.sectors = card.sectors ELSE card'.sectors = [card.sectors EXCEPT ![s] = value]
  <2>1. CASE sdCall.op = "read"
    BY <1>3, <1>6, <1>7, <2>1, CardInState
  <2>2. CASE sdCall.op # "read"
    <3>1. \/ card' = [card EXCEPT !.state = state, !.sectors[s] = value]
          \/ card' = [card EXCEPT !.sectors[s] = value]
      BY <1>6, <2>2
    <3>2. CASE card' = [card EXCEPT !.state = state, !.sectors[s] = value]
      BY <1>2, <1>3, <1>6, <1>7, <2>2, <3>2, CardWritten
    <3>3. CASE card' = [card EXCEPT !.sectors[s] = value]
      BY <1>2, <1>3, <1>6, <2>2, <3>3, CardSpoiled
    <3> QED BY <3>1, <3>2, <3>3
  <2> QED BY <2>1, <2>2
<1>9. card'.sectors \in [CardSectorSet -> CardValues]
  BY <1>8 DEF Cards
<1>10. /\ RestKept'
       /\ \A i \in 0..(sdDone - 1) : CardMoved(i)'
       /\ DataDone => \A i \in Nat : i = sdDone => CardMoved(i)'
       /\ buffer' \in [CardSlotSet -> CardValues]
  BY <1>1, <1>4, <1>6, <1>8, <1>9, OneWritten DEF s, b
<1>11. sdDone' \in Nat /\ sdStep' \in {"idle", "transfer"}
  BY <1>1, <1>2 DEF DataDone, DataFails, SdReply, FirstStep
<1>12. Walked' /\ Selected'
  BY <1>1, <1>2, <1>4, <1>8, <1>11 DEF Walked, Selected, InitSteps
<1>13. SdTypeOK'
  BY <1>1, <1>4, <1>8, <1>10, <1>11 DEF SdTypeOK
<1>14. Progressed'
  <2>1. CASE DataDone
    <3>1. sdDone' = sdDone + 1 /\ \A i \in 0..(sdDone' - 1) : i \in 0..(sdDone - 1) \/ (i \in Nat /\ i = sdDone)
      BY <1>2, <2>1 DEF DataDone
    <3>2. \A i \in 0..(sdDone' - 1) : CardMoved(i)'
      BY <1>10, <2>1, <3>1
    <3>3. \/ sdDone' = sdCall.count /\ sdStep' = "idle"
          \/ sdDone' # sdCall.count /\ sdStep' = "transfer" /\ sdAnswer' = sdAnswer
      BY <1>2, <2>1 DEF DataDone, SdReply, FirstStep
    <3>4. sdDone' < sdCall.count \/ sdDone' = sdCall.count
      BY <1>2, <3>1
    <3> QED BY <1>1, <1>2, <1>4, <3>2, <3>3, <3>4 DEF Progressed
  <2>2. CASE DataFails
    <3>1. sdDone' = sdDone /\ sdStep' = "idle" /\ sdAnswer' = "error"
      BY <2>2 DEF DataFails, SdReply
    <3> QED BY <1>10, <3>1 DEF Progressed
  <2> QED BY <2>1, <2>2
<1> QED BY <1>10, <1>12, <1>13, <1>14 DEF SdInv

\* The driver before its first command.
LEMMA SdInitHolds == SdInit => SdInv
<1> SUFFICES ASSUME SdInit
             PROVE  SdInv
  OBVIOUS
<1>1. PICK form \in {<<"high", BlockBytes>>} \union ({"standard"} \X {BlockBytes, 2 * BlockBytes}),
           sectors \in [CardSectorSet -> CardValues], slots \in [CardSlotSet -> CardValues] :
          SdBegins(form[1], form[2], sectors, slots)
  BY DEF SdInit
<1>2. /\ form[1] \in {"high", "standard"} /\ form[2] \in Nat
      /\ form[1] = "high" => form[2] = BlockBytes
  BY CardConstants
<1>3. card \in Cards
  BY <1>1, <1>2 DEF SdBegins, Cards, States
<1>4. SdTypeOK
  BY <1>1, <1>3 DEF SdBegins, SdTypeOK
<1>5. Walked
  BY <1>1, <1>2 DEF SdBegins, Walked, InitSteps
<1>6. ~statics.ready /\ Progressed /\ RestKept
  BY <1>1 DEF SdBegins, Progressed, RestKept
<1> QED BY <1>4, <1>5, <1>6 DEF SdInv

\* The invariant holds through every order of failed and repeated starts and
\* transfers.
THEOREM SdInvariant == SdSpec => []SdInv
<1>1. ASSUME SdInv, [SdNext]_sdVars
      PROVE  SdInv'
  <2>1. CASE UNCHANGED sdVars
    <3>1. UNCHANGED <<card, line, statics, buffer, sdCall, sdStep, sdDone, sdAnswer, cardFaults, sdBefore>>
      BY <2>1 DEF sdVars
    <3>2. SdTypeOK' /\ Walked' /\ (statics.ready => Selected)'
      BY <1>1, <3>1 DEF SdInv, SdTypeOK, Walked, Selected
    <3>3. Progressed' /\ RestKept'
      BY <1>1, <3>1 DEF SdInv, Progressed, CardMoved, RestKept, SdMoved
    <3> QED BY <3>2, <3>3 DEF SdInv
  <2> QED BY <1>1, <2>1, StartsHold, InitHolds, DataCommandHolds, DataHolds, RecoverHolds DEF SdNext
<1> QED BY <1>1, SdInitHolds, PTL DEF SdSpec

\* A card that is reported ready is selected under the address the driver
\* holds, with addressing, capacity and block length known; a call that
\* succeeds has moved all its sectors; and any call leaves the rest of the
\* card and the memory alone (sd.c: sd_init, sd_read_block, sd_write_block;
\* block.c).
THEOREM SdIsTrue == SdSpec => []SdTrue
<1>1. SdInv => SdTrue
  <2> SUFFICES ASSUME SdInv
               PROVE  SdTrue
    OBVIOUS
  <2>1. RestKept /\ (statics.ready => Selected)
    BY DEF SdInv
  <2>2. ASSUME sdAnswer = "ok", sdCall.op # "init", NEW i \in SdMoved
        PROVE  CardMoved(i)
    <3>1. sdCall.op # "none" /\ sdDone = sdCall.count
      BY <2>2 DEF SdInv, Progressed
    <3>2. sdCall \in SdCalls
      BY <2>2, <3>1 DEF SdInv, SdTypeOK
    <3>3. sdCall.op \in {"read", "write"}
      BY <3>2, SdCallFacts
    <3> QED BY <2>2, <3>1, <3>3 DEF SdInv, Progressed, SdMoved
  <2> QED BY <2>1, <2>2 DEF SdTrue, RestKept, Selected, CardMoved
<1> QED BY <1>1, SdInvariant, PTL

-----------------------------------------------------------------------------
(***************************************************************************)
(* The VirtIO keyboard, then the USB keyboard.                             *)
(***************************************************************************)

\* The modifier keys, and the events the driver pushes.
Codes == DOMAIN ModifierOf
KeyEvents == [code : STRING, mods : SUBSET {"shift", "ctrl", "alt"}, second : BOOLEAN]

\* The rings when h events have been handled: every event the device stored
\* after them is in the buffer that the used ring names, and both indices are
\* the counts modulo RingModulus.
Rings(h) ==
    /\ h \in Nat /\ h <= Len(emitted) /\ Len(emitted) <= h + BufferCount
    /\ emitted \in Seq(DeviceEvents)
    /\ turn \in {"look", "handle", "lend"}
    /\ keyboard # "ready" => Len(emitted) = 0
    /\ turn # "look" => h < Len(emitted)
    /\ usedIndex = Len(emitted) % RingModulus /\ seen = usedIndex
    /\ lastUsed = h % RingModulus
    /\ keyboard = "ready" =>
          /\ availRing = [i \in Buffers |-> i]
          /\ availIndex = (h + BufferCount) % RingModulus
    /\ buffers = [i \in Buffers |-> buffers[i]]
    /\ usedRing = [i \in Buffers |-> usedRing[i]]
    /\ \A p \in Nat : h <= p /\ p < Len(emitted) =>
          /\ buffers[p % BufferCount] = emitted[p + 1]
          /\ usedRing[p % BufferCount] = p % BufferCount

\* What the n-th event types, and the events that type something.
KeyOf(n) == [code |-> emitted[n].code, mods |-> ModsAfter(n),
             second |-> Second(emitted[n].code, ModsAfter(n), CapsAfter(n))]
TypedBy(n) == {m \in 1..n : Types(m)}

\* The driver knows what the first n events mean.
Meaning(n) ==
    /\ n \in 0..Len(emitted)
    /\ held = {code \in Codes : DownAfter(code, n)}
    /\ capsLock \in BOOLEAN /\ capsLock = CapsAfter(n)
    /\ keysPushed \in Seq(KeyEvents)
    /\ Len(keysPushed) = Cardinality(TypedBy(n))
    /\ \A m \in TypedBy(n) : keysPushed[Cardinality(TypedBy(m))] = KeyOf(m)
    /\ closeWanted => \E m \in 1..n : Closes(m)

\* The inductive invariant: the rings hold h events handled, the driver knows
\* of the one that is handled but not lent again.
Turned(h) == h + (IF turn = "lend" THEN 1 ELSE 0)
KeyboardInv == \E h \in Nat : Rings(h) /\ Meaning(Turned(h))

-----------------------------------------------------------------------------
\* Division with remainder.
LEMMA Division ==
    ASSUME NEW m \in Nat \ {0}, NEW x \in Nat
    PROVE  /\ x \div m \in Nat /\ x % m \in 0..(m - 1)
           /\ x = m * (x \div m) + (x % m)
OBVIOUS

\* The remainder of a sum that is written out.
LEMMA RemainderIs ==
    ASSUME NEW m \in Nat \ {0}, NEW q \in Nat, NEW r \in 0..(m - 1)
    PROVE  (m * q + r) % m = r
OBVIOUS

\* A smaller quotient is smaller by the divisor at least.
LEMMA Factor ==
    ASSUME NEW m \in Nat \ {0}, NEW q \in Nat, NEW s \in Nat, q < s
    PROVE  m * q + m <= m * s
<1>1. PICK d \in Nat : s = q + 1 + d
  <2>1. s - q - 1 \in Nat /\ s = q + 1 + (s - q - 1)
    OBVIOUS
  <2> QED BY <2>1
<1>2. m * s = m * q + m + m * d
  BY <1>1
<1>3. m * d \in Nat /\ m * q \in Nat
  OBVIOUS
<1> QED BY <1>2, <1>3

\* Numbers less than the modulus apart that have the same remainder are the
\* same.
LEMMA Same ==
    ASSUME NEW m \in Nat \ {0}, NEW x \in Nat, NEW y \in Nat,
           x <= y, y - x < m, x % m = y % m
    PROVE  x = y
<1> DEFINE a == x \div m
           b == y \div m
           r == x % m
<1>1. a \in Nat /\ b \in Nat /\ r \in 0..(m - 1) /\ x = m * a + r /\ y = m * b + r
  BY Division
<1> HIDE DEF a, b, r
<1>2. CASE a < b
  <2>1. m * a + m <= m * b
    BY <1>1, <1>2, Factor
  <2>2. m * a \in Nat /\ m * b \in Nat
    BY <1>1
  <2> QED BY <1>1, <2>1, <2>2
<1>3. CASE b < a
  <2>1. m * b + m <= m * a
    BY <1>1, <1>3, Factor
  <2>2. m * a \in Nat /\ m * b \in Nat
    BY <1>1
  <2> QED BY <1>1, <2>1, <2>2
<1> QED BY <1>1, <1>2, <1>3

\* Its contrapositive.
LEMMA Differ ==
    ASSUME NEW m \in Nat \ {0}, NEW x \in Nat, NEW y \in Nat, x < y, y - x < m
    PROVE  x % m # y % m
<1>1. x <= y /\ x # y
  OBVIOUS
<1> QED BY <1>1, Same

\* An index that is stepped modulo m is the count modulo m.
LEMMA SuccessorIs ==
    ASSUME NEW m \in Nat \ {0}, NEW x \in Nat
    PROVE  ((x % m) + 1) % m = (x + 1) % m
<1> DEFINE q == x \div m
           r == x % m
<1>1. q \in Nat /\ r \in 0..(m - 1) /\ x = m * q + r
  BY Division
<1> HIDE DEF q, r
<1>2. CASE r = m - 1
  <2>1. x + 1 = m * (q + 1) + 0 /\ r + 1 = m * 1 + 0 /\ 0 \in 0..(m - 1) /\ q + 1 \in Nat
    BY <1>1, <1>2
  <2>2. (m * (q + 1) + 0) % m = 0 /\ (m * 1 + 0) % m = 0
    BY <2>1, RemainderIs
  <2> QED BY <2>1, <2>2 DEF r
<1>3. CASE r # m - 1
  <2>1. x + 1 = m * q + (r + 1) /\ r + 1 = m * 0 + (r + 1) /\ r + 1 \in 0..(m - 1)
    BY <1>1, <1>3
  <2>2. (m * q + (r + 1)) % m = r + 1 /\ (m * 0 + (r + 1)) % m = r + 1
    BY <1>1, <2>1, RemainderIs
  <2> QED BY <2>1, <2>2 DEF r
<1> QED BY <1>2, <1>3

\* An index modulo RingModulus picks the ring entry that the count picks.
LEMMA Nested ==
    ASSUME NEW x \in Nat
    PROVE  (x % RingModulus) % BufferCount = x % BufferCount
<1> DEFINE m == RingModulus
           c == BufferCount
           k == m \div c
           q == x \div m
           r == x % m
           a == r \div c
           s == r % c
<1>1. m \in Nat \ {0} /\ c \in Nat \ {0} /\ m % c = 0
  BY KeyboardConstants
<1>2. k \in Nat /\ m = c * k
  BY <1>1, Division
<1>3. q \in Nat /\ r \in 0..(m - 1) /\ x = m * q + r
  BY <1>1, Division
<1>4. a \in Nat /\ s \in 0..(c - 1) /\ r = c * a + s
  <2>1. r \in Nat
    BY <1>1, <1>3
  <2> HIDE DEF m, c, r
  <2> QED BY <1>1, <2>1, Division
<1> HIDE DEF m, c, k, q, r, a, s
<1>5. x = c * (k * q + a) + s
  <2>1. m * q = c * (k * q)
    BY <1>1, <1>2, <1>3
  <2>2. k * q \in Nat
    BY <1>2, <1>3
  <2>3. c * (k * q + a) = c * (k * q) + c * a
    BY <1>1, <1>4, <2>2
  <2> QED BY <1>1, <1>3, <1>4, <2>1, <2>2, <2>3
<1>6. k * q + a \in Nat
  BY <1>2, <1>3, <1>4
<1>7. (c * (k * q + a) + s) % c = s
  BY <1>1, <1>4, <1>6, RemainderIs
<1> QED BY <1>5, <1>7 DEF s, r, m, c

\* One round of the ring further is the same entry.
LEMMA Around ==
    ASSUME NEW x \in Nat
    PROVE  (x + BufferCount) % BufferCount = x % BufferCount
<1> DEFINE c == BufferCount
           q == x \div c
           r == x % c
<1>1. c \in Nat \ {0}
  BY KeyboardConstants
<1>2. q \in Nat /\ r \in 0..(c - 1) /\ x = c * q + r
  BY <1>1, Division
<1> HIDE DEF c, q, r
<1>3. x + c = c * (q + 1) + r /\ q + 1 \in Nat
  BY <1>1, <1>2
<1>4. (c * (q + 1) + r) % c = r
  BY <1>1, <1>2, <1>3, RemainderIs
<1> QED BY <1>3, <1>4 DEF r, c

-----------------------------------------------------------------------------
\* All of this about the indices of the rings.
LEMMA OnRing ==
    ASSUME NEW x \in Nat
    PROVE  /\ x % BufferCount \in Buffers
           /\ x % RingModulus \in 0..(RingModulus - 1)
           /\ Step(x % RingModulus) = (x + 1) % RingModulus
           /\ (x % RingModulus) % BufferCount = x % BufferCount
BY Division, SuccessorIs, Nested, KeyboardConstants DEF Buffers, Step

\* The difference of the indices is the number of events that wait: they never
\* run a whole RingModulus apart.
LEMMA UnhandledIs ==
    ASSUME NEW h, Rings(h)
    PROVE  Unhandled = Len(emitted) - h
<1> DEFINE n == Len(emitted)
           m == RingModulus
           d == n - h
           a == n \div m
           b == h \div m
           r == n % m
           s == h % m
<1>1. m \in Nat \ {0} /\ n \in Nat /\ h \in Nat /\ d \in 0..(m - 1) /\ h <= n
  BY KeyboardConstants DEF Rings
<1>2. usedIndex = r /\ lastUsed = s
  BY DEF Rings
<1> HIDE DEF n, m
<1>3. /\ a \in Nat /\ r \in 0..(m - 1) /\ n = m * a + r
      /\ b \in Nat /\ s \in 0..(m - 1) /\ h = m * b + s
  BY <1>1, Division
<1>4. d = m * (a - b) + (r - s)
  BY <1>1, <1>3
<1> HIDE DEF a, b, r, s
<1>5. CASE r >= s
  <2>1. a = b
    <3>1. CASE a < b
      <4>1. m * a + m <= m * b
        BY <1>1, <1>3, <3>1, Factor
      <4>2. m * a \in Nat /\ m * b \in Nat
        BY <1>1, <1>3
      <4> QED BY <1>1, <1>3, <4>1, <4>2
    <3>2. CASE b < a
      <4>1. m * b + m <= m * a
        BY <1>1, <1>3, <3>2, Factor
      <4>2. m * a \in Nat /\ m * b \in Nat
        BY <1>1, <1>3
      <4> QED BY <1>1, <1>3, <1>5, <4>1, <4>2
    <3> QED BY <1>3, <3>1, <3>2
  <2>2. d = r - s
    BY <1>1, <1>3, <2>1
  <2>3. r + m - s = m * 1 + d /\ d \in 0..(m - 1)
    BY <1>1, <1>3, <2>2
  <2>4. (m * 1 + d) % m = d
    BY <1>1, <2>3, RemainderIs
  <2> HIDE DEF d
  <2> QED BY <1>2, <2>3, <2>4 DEF Unhandled, m, n, d
<1>6. CASE r < s
  <2>1. a = b + 1
    <3>1. CASE a <= b
      <4>1. m * a <= m * b
        <5>1. CASE a = b
          BY <1>1, <1>3, <5>1
        <5>2. CASE a < b
          <6>1. m * a + m <= m * b
            BY <1>1, <1>3, <5>2, Factor
          <6>2. m * a \in Nat /\ m * b \in Nat
            BY <1>1, <1>3
          <6> QED BY <1>1, <6>1, <6>2
        <5> QED BY <1>3, <3>1, <5>1, <5>2
      <4>2. m * a \in Nat /\ m * b \in Nat
        BY <1>1, <1>3
      <4> QED BY <1>1, <1>3, <1>6, <4>1, <4>2
    <3>2. CASE b + 1 < a
      <4>1. m * (b + 1) + m <= m * a
        BY <1>1, <1>3, <3>2, Factor
      <4>2. m * (b + 1) = m * b + m
        BY <1>1, <1>3
      <4>3. m * a \in Nat /\ m * b \in Nat
        BY <1>1, <1>3
      <4> QED BY <1>1, <1>3, <4>1, <4>2, <4>3
    <3> QED BY <1>3, <3>1, <3>2
  <2>2. d = m + r - s
    <3>1. m * a = m * b + m
      BY <1>1, <1>3, <2>1
    <3>2. m * a \in Nat /\ m * b \in Nat
      BY <1>1, <1>3
    <3> QED BY <1>1, <1>3, <3>1, <3>2
  <2>3. r + m - s = m * 0 + d /\ d \in 0..(m - 1)
    BY <1>1, <1>3, <2>2
  <2>4. (m * 0 + d) % m = d
    BY <1>1, <2>3, RemainderIs
  <2> HIDE DEF d
  <2> QED BY <1>2, <2>3, <2>4 DEF Unhandled, m, n, d
<1> QED BY <1>3, <1>5, <1>6

-----------------------------------------------------------------------------
\* The fields of an event.
LEMMA EventFields ==
    ASSUME NEW e \in DeviceEvents
    PROVE  /\ e.code \in STRING /\ e.value \in 0..2
           /\ \A c \in STRING, v \in 0..2 : e = [code |-> c, value |-> v] <=> e.code = c /\ e.value = v
<1>1. e \in [code : STRING, value : 0..2]
  BY KeyboardConstants
<1> QED BY <1>1

\* Counting the members of a set up to n + 1.
LEMMA CountNext ==
    ASSUME NEW n \in Nat, NEW S
    PROVE  /\ Cardinality(S \cap (1..n)) \in Nat
           /\ Cardinality(S \cap (1..(n + 1))) =
                 Cardinality(S \cap (1..n)) + (IF n + 1 \in S THEN 1 ELSE 0)
<1> DEFINE T == S \cap (1..n)
<1>1. IsFiniteSet(1..n)
  BY FS_Interval
<1>2. IsFiniteSet(T) /\ Cardinality(T) \in Nat
  BY <1>1, FS_Subset, FS_CardinalityType
<1>3. CASE n + 1 \in S
  <2>1. S \cap (1..(n + 1)) = T \union {n + 1} /\ n + 1 \notin T
    BY <1>3
  <2> HIDE DEF T
  <2>2. Cardinality(T \union {n + 1}) = Cardinality(T) + 1
    BY <1>2, <2>1, FS_AddElement
  <2> QED BY <1>2, <1>3, <2>1, <2>2 DEF T
<1>4. CASE n + 1 \notin S
  <2>1. S \cap (1..(n + 1)) = T
    BY <1>4
  <2> QED BY <1>2, <1>4, <2>1
<1> QED BY <1>3, <1>4

\* A key is down after an event of its own as the event says, and as before
\* after any other.
LEMMA DownNext ==
    ASSUME NEW n \in Nat, n < Len(emitted), emitted \in Seq(DeviceEvents), NEW c
    PROVE  DownAfter(c, n + 1) <=> IF emitted[n + 1].code = c THEN emitted[n + 1].value # 0
                                                              ELSE DownAfter(c, n)
<1>1. CASE emitted[n + 1].code = c
  <2>1. DownAfter(c, n + 1) => emitted[n + 1].value # 0
    <3>1. SUFFICES ASSUME NEW i \in 1..(n + 1), emitted[i].code = c, emitted[i].value # 0,
                          \A j \in (i + 1)..(n + 1) : emitted[j].code # c
                   PROVE  emitted[n + 1].value # 0
      BY DEF DownAfter
    <3>2. i = n + 1
      BY <1>1, <3>1
    <3> QED BY <3>1, <3>2
  <2>2. emitted[n + 1].value # 0 => DownAfter(c, n + 1)
    <3>1. n + 1 \in 1..(n + 1) /\ (n + 1 + 1)..(n + 1) = {}
      OBVIOUS
    <3> QED BY <1>1, <3>1 DEF DownAfter
  <2> QED BY <1>1, <2>1, <2>2
<1>2. CASE emitted[n + 1].code # c
  <2>1. ASSUME DownAfter(c, n + 1) PROVE DownAfter(c, n)
    <3>1. PICK i \in 1..(n + 1) : /\ emitted[i].code = c /\ emitted[i].value # 0
                                  /\ \A j \in (i + 1)..(n + 1) : emitted[j].code # c
      BY <2>1 DEF DownAfter
    <3>2. i \in 1..n /\ \A j \in (i + 1)..n : j \in (i + 1)..(n + 1)
      BY <1>2, <3>1
    <3> QED BY <3>1, <3>2 DEF DownAfter
  <2>2. ASSUME DownAfter(c, n) PROVE DownAfter(c, n + 1)
    <3>1. PICK i \in 1..n : /\ emitted[i].code = c /\ emitted[i].value # 0
                            /\ \A j \in (i + 1)..n : emitted[j].code # c
      BY <2>2 DEF DownAfter
    <3>2. i \in 1..(n + 1) /\ \A j \in (i + 1)..(n + 1) : j \in (i + 1)..n \/ j = n + 1
      OBVIOUS
    <3> QED BY <1>2, <3>1, <3>2 DEF DownAfter
  <2> QED BY <1>2, <2>1, <2>2
<1> QED BY <1>1, <1>2

\* Parity changes with each one that is added.
LEMMA Parity ==
    ASSUME NEW n \in Nat
    PROVE  (n + 1) % 2 = 1 <=> ~(n % 2 = 1)
OBVIOUS

\* Caps lock toggles with the presses of its key.
LEMMA CapsNext ==
    ASSUME NEW n \in Nat, n < Len(emitted), emitted \in Seq(DeviceEvents)
    PROVE  CapsAfter(n + 1) <=>
             IF emitted[n + 1].code = "caps" /\ emitted[n + 1].value = 1
             THEN ~CapsAfter(n) ELSE CapsAfter(n)
<1> DEFINE cap == [code |-> "caps", value |-> 1]
           S == {i \in 1..Len(emitted) : emitted[i] = cap}
<1>1. /\ {i \in 1..n : emitted[i] = cap} = S \cap (1..n)
      /\ {i \in 1..(n + 1) : emitted[i] = cap} = S \cap (1..(n + 1))
      /\ n + 1 \in S <=> emitted[n + 1] = cap
  <2>1. Len(emitted) \in Nat
    OBVIOUS
  <2> HIDE DEF cap
  <2> QED BY <2>1
<1>2. emitted[n + 1] = cap <=> emitted[n + 1].code = "caps" /\ emitted[n + 1].value = 1
  <2>1. emitted[n + 1] \in DeviceEvents
    OBVIOUS
  <2> QED BY <2>1, EventFields
<1> HIDE DEF S, cap
<1>3. /\ Cardinality(S \cap (1..n)) \in Nat
      /\ Cardinality(S \cap (1..(n + 1))) =
            Cardinality(S \cap (1..n)) + (IF n + 1 \in S THEN 1 ELSE 0)
  BY CountNext
<1>4. /\ CapsAfter(n) <=> Cardinality(S \cap (1..n)) % 2 = 1
      /\ CapsAfter(n + 1) <=> Cardinality(S \cap (1..(n + 1))) % 2 = 1
  BY <1>1 DEF CapsAfter, cap
<1>5. CASE n + 1 \in S
  BY <1>1, <1>2, <1>3, <1>4, <1>5, Parity
<1>6. CASE n + 1 \notin S
  BY <1>1, <1>2, <1>3, <1>4, <1>6
<1> QED BY <1>5, <1>6

\* What the first n events mean does not depend on one that comes later.
LEMMA Earlier ==
    ASSUME NEW e \in DeviceEvents, emitted \in Seq(DeviceEvents),
           emitted' = Append(emitted, e), NEW n \in 0..Len(emitted)
    PROVE  /\ \A c : DownAfter(c, n)' <=> DownAfter(c, n)
           /\ ModsAfter(n)' = ModsAfter(n)
           /\ CapsAfter(n)' = CapsAfter(n)
           /\ n # 0 => /\ Closes(n)' <=> Closes(n)
                       /\ Types(n)' <=> Types(n)
                       /\ KeyOf(n)' = KeyOf(n)
<1>1. \A i \in 1..n : emitted'[i] = emitted[i]
  OBVIOUS
<1>2. \A c : DownAfter(c, n)' <=> DownAfter(c, n)
  <2>1. SUFFICES ASSUME NEW c PROVE DownAfter(c, n)' <=> DownAfter(c, n)
    OBVIOUS
  <2>2. \A i \in 1..n : \A j \in (i + 1)..n : j \in 1..n
    OBVIOUS
  <2> QED BY <1>1, <2>2 DEF DownAfter
<1>3. ModsAfter(n)' = ModsAfter(n)
  BY <1>2 DEF ModsAfter
<1>4. CapsAfter(n)' = CapsAfter(n)
  <2>1. {i \in 1..n : emitted'[i] = [code |-> "caps", value |-> 1]} =
        {i \in 1..n : emitted[i] = [code |-> "caps", value |-> 1]}
    BY <1>1
  <2> QED BY <2>1 DEF CapsAfter
<1>5. n # 0 => emitted'[n] = emitted[n]
  BY <1>1
<1>6. n # 0 => (Closes(n)' <=> Closes(n))
  BY <1>3, <1>5 DEF Closes
<1>7. n # 0 => (Types(n)' <=> Types(n))
  BY <1>5, <1>6 DEF Types
<1>8. n # 0 => KeyOf(n)' = KeyOf(n)
  BY <1>3, <1>4, <1>5 DEF KeyOf
<1> QED BY <1>2, <1>3, <1>4, <1>6, <1>7, <1>8

\* One more event types one more key, or none.
LEMMA TypedNext ==
    ASSUME NEW n \in Nat
    PROVE  /\ IsFiniteSet(TypedBy(n)) /\ Cardinality(TypedBy(n)) \in Nat
           /\ TypedBy(n + 1) = TypedBy(n) \union (IF Types(n + 1) THEN {n + 1} ELSE {})
           /\ Cardinality(TypedBy(n + 1)) =
                 Cardinality(TypedBy(n)) + (IF Types(n + 1) THEN 1 ELSE 0)
           /\ \A m \in TypedBy(n) : Cardinality(TypedBy(m)) \in 1..Cardinality(TypedBy(n))
<1>1. \A m \in Nat : IsFiniteSet(1..m)
  BY FS_Interval
<1>2. \A m \in Nat : IsFiniteSet(TypedBy(m)) /\ Cardinality(TypedBy(m)) \in Nat
  <2> SUFFICES ASSUME NEW m \in Nat
               PROVE  IsFiniteSet(TypedBy(m)) /\ Cardinality(TypedBy(m)) \in Nat
    OBVIOUS
  <2>1. TypedBy(m) \subseteq 1..m
    BY DEF TypedBy
  <2> QED BY <1>1, <2>1, FS_Subset, FS_CardinalityType
<1>3. TypedBy(n + 1) = TypedBy(n) \union (IF Types(n + 1) THEN {n + 1} ELSE {})
      /\ n + 1 \notin TypedBy(n)
  BY DEF TypedBy
<1>4. Cardinality(TypedBy(n + 1)) = Cardinality(TypedBy(n)) + (IF Types(n + 1) THEN 1 ELSE 0)
  <2>1. Cardinality(TypedBy(n) \union {n + 1}) = Cardinality(TypedBy(n)) + 1
    BY <1>2, <1>3, FS_AddElement
  <2>2. CASE Types(n + 1)
    BY <1>3, <2>1, <2>2
  <2>3. CASE ~Types(n + 1)
    <3>1. TypedBy(n + 1) = TypedBy(n)
      BY <1>3, <2>3
    <3> QED BY <1>2, <2>3, <3>1
  <2> QED BY <2>2, <2>3
<1>5. ASSUME NEW m \in TypedBy(n) PROVE Cardinality(TypedBy(m)) \in 1..Cardinality(TypedBy(n))
  <2>1. m \in Nat /\ TypedBy(m) \subseteq TypedBy(n) /\ m \in TypedBy(m)
    BY DEF TypedBy
  <2>2. Cardinality(TypedBy(m)) <= Cardinality(TypedBy(n))
    BY <1>2, <2>1, FS_Subset
  <2>3. Cardinality(TypedBy(m)) # 0
    BY <1>2, <2>1, FS_EmptySet
  <2> QED BY <1>2, <2>1, <2>2, <2>3
<1> QED BY <1>2, <1>3, <1>4, <1>5

\* The driver knows what it knew when the device stores another event.
LEMMA StoreMeans ==
    ASSUME NEW n, Meaning(n), NEW e \in DeviceEvents, emitted \in Seq(DeviceEvents),
           emitted' = Append(emitted, e), UNCHANGED keyVars
    PROVE  Meaning(n)'
<1>1. n \in 0..Len(emitted) /\ n \in 0..Len(emitted')
  BY DEF Meaning
<1>2. UNCHANGED <<held, capsLock, closeWanted, keysPushed>>
  BY DEF keyVars
<1>3. \A m \in 1..n : m \in 0..Len(emitted) /\ m # 0
  BY <1>1
<1>4. \A m \in 1..n : /\ Closes(m)' <=> Closes(m)
                      /\ Types(m)' <=> Types(m)
                      /\ KeyOf(m)' = KeyOf(m)
  BY <1>3, Earlier
<1>5. TypedBy(n)' = TypedBy(n)
  BY <1>4 DEF TypedBy
<1>6. \A m \in TypedBy(n) : TypedBy(m)' = TypedBy(m) /\ m \in 1..n
  <2> SUFFICES ASSUME NEW m \in 1..n PROVE TypedBy(m)' = TypedBy(m)
    BY DEF TypedBy
  <2>1. \A l \in 1..m : l \in 1..n
    BY <1>1
  <2> QED BY <1>4, <2>1 DEF TypedBy
<1>7. held' = {code \in Codes : DownAfter(code, n)'}
  <2>1. \A c : DownAfter(c, n)' <=> DownAfter(c, n)
    BY <1>1, Earlier
  <2>2. held = {code \in Codes : DownAfter(code, n)}
    BY DEF Meaning
  <2> QED BY <1>2, <2>1, <2>2
<1>8. capsLock' = CapsAfter(n)'
  <2>1. CapsAfter(n)' = CapsAfter(n)
    BY <1>1, Earlier
  <2> QED BY <1>2, <2>1 DEF Meaning
<1>9. \A m \in TypedBy(n)' : keysPushed'[Cardinality(TypedBy(m)')] = KeyOf(m)'
  BY <1>2, <1>4, <1>5, <1>6 DEF Meaning
<1>10. closeWanted' => \E m \in 1..n : Closes(m)'
  BY <1>2, <1>4 DEF Meaning
<1>11. keysPushed' \in Seq(KeyEvents) /\ Len(keysPushed') = Cardinality(TypedBy(n)')
       /\ capsLock' \in BOOLEAN
  BY <1>2, <1>5 DEF Meaning
<1> QED BY <1>1, <1>7, <1>8, <1>9, <1>10, <1>11 DEF Meaning

\* What the first n events mean is read from them alone.
LEMMA SameHistory ==
    ASSUME UNCHANGED emitted, NEW n
    PROVE  /\ \A c : DownAfter(c, n)' = DownAfter(c, n)
           /\ CapsAfter(n)' = CapsAfter(n)
           /\ Closes(n)' = Closes(n)
           /\ TypedBy(n)' = TypedBy(n)
           /\ KeyOf(n)' = KeyOf(n)
BY DEF DownAfter, CapsAfter, ModsAfter, Closes, Types, TypedBy, KeyOf

\* A key of the tables is neither a modifier nor the caps lock.
LEMMA KeysOfTables ==
    ASSUME NEW code, InTables(code)
    PROVE  code \notin Codes /\ code # "caps"
<1>1. CASE code \in Letters
  BY <1>1 DEF Letters, Codes, ModifierOf
<1>2. CASE code \in Marks
  BY <1>2 DEF Marks, Codes, ModifierOf
<1>3. CASE code \in Blanks \union SpecialKeys
  BY <1>3 DEF Blanks, SpecialKeys, Codes, ModifierOf
<1> QED BY <1>1, <1>2, <1>3 DEF InTables

\* Handling the next event: the driver knows what it means.
LEMMA HandleMeans ==
    ASSUME NEW n, Meaning(n), n < Len(emitted), emitted \in Seq(DeviceEvents),
           LET event == emitted[n + 1]
           IN  IF IsModifier(event.code) THEN ModifierKey(event) ELSE OtherKey(event),
           UNCHANGED emitted
    PROVE  Meaning(n + 1)'
<1> DEFINE e == emitted[n + 1]
<1>1. /\ n \in Nat /\ n + 1 \in 0..Len(emitted) /\ e \in DeviceEvents
      /\ n + 1 \in 1..(n + 1)
  BY DEF Meaning
<1>2. /\ e.code \in STRING /\ e.value \in 0..2
      /\ \A c \in STRING, v \in 0..2 : e = [code |-> c, value |-> v] <=> e.code = c /\ e.value = v
  BY <1>1, EventFields
<1>3. \A c : DownAfter(c, n + 1) <=> IF e.code = c THEN e.value # 0 ELSE DownAfter(c, n)
  BY <1>1, DownNext
<1>4. CapsAfter(n + 1) <=> IF e.code = "caps" /\ e.value = 1 THEN ~CapsAfter(n) ELSE CapsAfter(n)
  BY <1>1, CapsNext
<1>5. held = {code \in Codes : DownAfter(code, n)}
  BY DEF Meaning
<1>6. \A m \in TypedBy(n) : /\ keysPushed[Cardinality(TypedBy(m))] = KeyOf(m)
                            /\ Cardinality(TypedBy(m)) \in 1..Cardinality(TypedBy(n))
  BY <1>1, TypedNext DEF Meaning
<1>7. /\ TypedBy(n + 1) = TypedBy(n) \union (IF Types(n + 1) THEN {n + 1} ELSE {})
      /\ Cardinality(TypedBy(n)) \in Nat
      /\ Cardinality(TypedBy(n + 1)) =
            Cardinality(TypedBy(n)) + (IF Types(n + 1) THEN 1 ELSE 0)
  BY <1>1, TypedNext
<1>8. IsModifier(e.code) <=> e.code \in Codes
  BY DEF IsModifier, Codes
<1>9. "caps" \notin Codes /\ "f4" \notin Codes
  BY DEF Codes, ModifierOf
<1>10. ModsAfter(n) = Modifiers(held)
  BY <1>5 DEF ModsAfter, Codes
<1> HIDE DEF e
\* What is left to show of the state after the event.
<1>11. ASSUME held' = {code \in Codes : DownAfter(code, n + 1)},
              capsLock' \in BOOLEAN, capsLock' = CapsAfter(n + 1),
              closeWanted' => closeWanted \/ Closes(n + 1),
              keysPushed' \in Seq(KeyEvents), Len(keysPushed') = Cardinality(TypedBy(n + 1)),
              \A m \in TypedBy(n + 1) : keysPushed'[Cardinality(TypedBy(m))] = KeyOf(m)
       PROVE  Meaning(n + 1)'
  <2>1. closeWanted' => \E m \in 1..(n + 1) : Closes(m)
    BY <1>1, <1>11 DEF Meaning
  <2>2. /\ \A m : TypedBy(m)' = TypedBy(m) /\ KeyOf(m)' = KeyOf(m) /\ Closes(m)' = Closes(m)
        /\ \A c : DownAfter(c, n + 1)' = DownAfter(c, n + 1)
        /\ CapsAfter(n + 1)' = CapsAfter(n + 1)
    BY SameHistory
  <2>3. held' = {code \in Codes : DownAfter(code, n + 1)'}
    BY <1>11, <2>2
  <2>4. \A m \in TypedBy(n + 1)' : keysPushed'[Cardinality(TypedBy(m)')] = KeyOf(m)'
    BY <1>11, <2>2
  <2>5. closeWanted' => \E m \in 1..(n + 1) : Closes(m)'
    BY <2>1, <2>2
  <2>6. n + 1 \in 0..Len(emitted')
    BY <1>1
  <2> QED BY <1>11, <2>2, <2>3, <2>4, <2>5, <2>6 DEF Meaning
<1>12. ASSUME ~Types(n + 1), UNCHANGED keysPushed,
              closeWanted' => closeWanted \/ Closes(n + 1),
              held' = {code \in Codes : DownAfter(code, n + 1)},
              capsLock' \in BOOLEAN, capsLock' = CapsAfter(n + 1)
       PROVE  Meaning(n + 1)'
  <2>1. TypedBy(n + 1) = TypedBy(n) /\ Cardinality(TypedBy(n + 1)) = Cardinality(TypedBy(n))
    BY <1>7, <1>12
  <2>2. \A m \in TypedBy(n + 1) : keysPushed'[Cardinality(TypedBy(m))] = KeyOf(m)
    BY <1>6, <1>12, <2>1
  <2>3. keysPushed' \in Seq(KeyEvents) /\ Len(keysPushed') = Cardinality(TypedBy(n + 1))
    BY <1>12, <2>1 DEF Meaning
  <2> QED BY <1>11, <1>12, <2>2, <2>3
<1>13. /\ Types(n + 1) <=> InTables(e.code) /\ e.value # 0 /\ ~Closes(n + 1)
       /\ InTables(e.code) => e.code \notin Codes /\ e.code # "caps"
  <2>1. Types(n + 1) <=> InTables(e.code) /\ e.value # 0 /\ ~Closes(n + 1)
    BY DEF Types, e
  <2> QED BY <2>1, KeysOfTables
<1>14. CASE e.code \in Codes
  <2>1. ModifierKey(e)
    BY <1>8, <1>14 DEF e
  <2>2. held' = {code \in Codes : DownAfter(code, n + 1)}
    BY <1>3, <1>5, <1>14, <2>1 DEF ModifierKey
  <2>3. capsLock' \in BOOLEAN /\ capsLock' = CapsAfter(n + 1)
    <3>1. capsLock' = capsLock /\ CapsAfter(n + 1) = CapsAfter(n)
      BY <1>4, <1>9, <1>14, <2>1 DEF ModifierKey, CapsAfter
    <3> QED BY <3>1 DEF Meaning
  <2>4. UNCHANGED keysPushed /\ (closeWanted' => closeWanted)
    BY <2>1 DEF ModifierKey
  <2> QED BY <1>12, <1>13, <1>14, <2>2, <2>3, <2>4
<1>15. CASE e.code \notin Codes
  <2>1. OtherKey(e)
    BY <1>8, <1>15 DEF e
  <2>2. held' = held /\ held = {code \in Codes : DownAfter(code, n + 1)}
    BY <1>3, <1>5, <1>15, <2>1 DEF OtherKey
  <2>3. ModsAfter(n + 1) = Modifiers(held)
    BY <2>2 DEF ModsAfter, Codes
  <2>4. Closes(n + 1) <=> e.code = "f4" /\ e.value = 1 /\ "alt" \in Modifiers(held)
    <3>1. e = [code |-> "f4", value |-> 1] <=> e.code = "f4" /\ e.value = 1
      BY <1>2
    <3> QED BY <2>3, <3>1 DEF Closes, e
  <2>5. CASE e.code = "caps"
    <3>1. capsLock' = (IF e.value = 1 THEN ~capsLock ELSE capsLock)
          /\ UNCHANGED <<closeWanted, keysPushed>>
      BY <2>1, <2>5 DEF OtherKey
    <3>2. capsLock \in BOOLEAN /\ capsLock = CapsAfter(n)
      BY DEF Meaning
    <3>3. capsLock' \in BOOLEAN /\ capsLock' = CapsAfter(n + 1)
      <4>1. CASE e.value = 1
        <5>1. capsLock' = ~capsLock
          BY <3>1, <4>1
        <5>2. CapsAfter(n + 1) = ~CapsAfter(n)
          BY <1>4, <2>5, <4>1 DEF CapsAfter
        <5> QED BY <3>2, <5>1, <5>2
      <4>2. CASE e.value # 1
        <5>1. capsLock' = capsLock
          BY <3>1, <4>2
        <5>2. CapsAfter(n + 1) = CapsAfter(n)
          BY <1>4, <4>2 DEF CapsAfter
        <5> QED BY <3>2, <5>1, <5>2
      <4> QED BY <4>1, <4>2
    <3> QED BY <1>12, <1>13, <2>2, <2>5, <3>1, <3>3
  <2>6. CASE e.code # "caps"
    <3>1. capsLock' \in BOOLEAN /\ capsLock' = CapsAfter(n + 1)
      <4>1. capsLock' = capsLock
        BY <2>1, <2>6 DEF OtherKey
      <4>2. CapsAfter(n + 1) = CapsAfter(n)
        BY <1>4, <2>6 DEF CapsAfter
      <4> QED BY <4>1, <4>2 DEF Meaning
    <3>2. CASE e.value \notin {1, 2}
      <4>1. UNCHANGED <<closeWanted, keysPushed>>
        BY <2>1, <2>6, <3>2 DEF OtherKey
      <4>2. ~Types(n + 1)
        BY <1>2, <1>13, <3>2
      <4> QED BY <1>12, <2>2, <3>1, <4>1, <4>2
    <3>3. CASE e.value \in {1, 2} /\ Closes(n + 1)
      <4>1. UNCHANGED keysPushed
        BY <2>1, <2>4, <2>6, <3>3 DEF OtherKey
      <4> QED BY <1>12, <1>13, <2>2, <3>1, <3>3, <4>1
    <3>4. CASE e.value \in {1, 2} /\ ~Closes(n + 1) /\ ~InTables(e.code)
      <4>1. UNCHANGED <<closeWanted, keysPushed>>
        BY <2>1, <2>4, <2>6, <3>4 DEF OtherKey
      <4> QED BY <1>12, <1>13, <2>2, <3>1, <3>4, <4>1
    <3>5. CASE e.value \in {1, 2} /\ ~Closes(n + 1) /\ InTables(e.code)
      <4> DEFINE key == [code |-> e.code, mods |-> Modifiers(held),
                         second |-> Second(e.code, Modifiers(held), capsLock)]
      <4>1. keysPushed' = Append(keysPushed, key) /\ UNCHANGED closeWanted
        BY <2>1, <2>4, <2>6, <3>5 DEF OtherKey
      <4>2. Types(n + 1)
        BY <1>13, <3>5
      <4>3. key = KeyOf(n + 1)
        <5>1. capsLock = CapsAfter(n + 1)
          <6>1. capsLock' = capsLock
            BY <2>1, <2>6 DEF OtherKey
          <6> QED BY <3>1, <6>1
        <5> QED BY <2>3, <5>1 DEF KeyOf, e
      <4>4. key \in KeyEvents
        <5>1. Modifiers(held) \subseteq {"shift", "ctrl", "alt"}
          BY <1>5 DEF Modifiers, Codes, ModifierOf
        <5>2. Second(e.code, Modifiers(held), capsLock) \in BOOLEAN
          BY DEF Second
        <5> QED BY <1>2, <5>1, <5>2 DEF KeyEvents
      <4> HIDE DEF key
      <4>5. /\ keysPushed \in Seq(KeyEvents)
            /\ Len(keysPushed) = Cardinality(TypedBy(n))
        BY DEF Meaning
      <4>6. /\ keysPushed' \in Seq(KeyEvents)
            /\ Len(keysPushed') = Cardinality(TypedBy(n)) + 1
            /\ keysPushed'[Cardinality(TypedBy(n)) + 1] = key
            /\ \A i \in 1..Cardinality(TypedBy(n)) : keysPushed'[i] = keysPushed[i]
        BY <4>1, <4>4, <4>5
      <4>7. /\ TypedBy(n + 1) = TypedBy(n) \union {n + 1}
            /\ Cardinality(TypedBy(n + 1)) = Cardinality(TypedBy(n)) + 1
        BY <1>7, <4>2
      <4>8. \A m \in TypedBy(n + 1) : keysPushed'[Cardinality(TypedBy(m))] = KeyOf(m)
        BY <1>6, <4>3, <4>6, <4>7
      <4> QED BY <1>11, <2>2, <3>1, <4>1, <4>6, <4>7, <4>8
    <3> QED BY <3>2, <3>3, <3>4, <3>5
  <2> QED BY <2>5, <2>6
<1> QED BY <1>14, <1>15

-----------------------------------------------------------------------------
\* The meaning depends on the keys and the history alone.
LEMMA SameMeaning ==
    ASSUME NEW n, Meaning(n), UNCHANGED <<emitted, held, capsLock, keysPushed>>,
           closeWanted' => closeWanted
    PROVE  Meaning(n)'
<1>1. /\ \A m : TypedBy(m)' = TypedBy(m) /\ KeyOf(m)' = KeyOf(m) /\ Closes(m)' = Closes(m)
      /\ \A c : DownAfter(c, n)' = DownAfter(c, n)
      /\ CapsAfter(n)' = CapsAfter(n)
  BY SameHistory
<1>2. held' = {code \in Codes : DownAfter(code, n)'}
  BY <1>1 DEF Meaning
<1>3. \A m \in TypedBy(n)' : keysPushed'[Cardinality(TypedBy(m)')] = KeyOf(m)'
  BY <1>1 DEF Meaning
<1>4. closeWanted' => \E m \in 1..n : Closes(m)'
  BY <1>1 DEF Meaning
<1>5. capsLock' \in BOOLEAN /\ capsLock' = CapsAfter(n)'
  BY <1>1 DEF Meaning
<1>6. Len(keysPushed') = Cardinality(TypedBy(n)')
  BY <1>1 DEF Meaning
<1>7. n \in 0..Len(emitted') /\ keysPushed' \in Seq(KeyEvents)
  BY DEF Meaning
<1> QED BY <1>2, <1>3, <1>4, <1>5, <1>6, <1>7 DEF Meaning

\* The device stores an event in a buffer that is not in use, since no more
\* than BufferCount wait.
LEMMA StoresHolds ==
    ASSUME NEW h, Rings(h), Meaning(Turned(h)), NEW event \in DeviceEvents, DeviceStores(event)
    PROVE  Rings(h)' /\ Meaning(Turned(h))'
<1> DEFINE n == Len(emitted)
           c == BufferCount
<1>1. /\ h \in Nat /\ n \in Nat /\ h <= n /\ n <= h + c /\ c \in Nat \ {0}
      /\ emitted \in Seq(DeviceEvents)
      /\ keyboard = "ready" /\ seen = n % RingModulus /\ usedIndex = n % RingModulus
      /\ availRing = [i \in Buffers |-> i] /\ availIndex = (h + c) % RingModulus
      /\ lastUsed = h % RingModulus
      /\ turn \in {"look", "handle", "lend"} /\ (turn # "look" => h < n)
  BY KeyboardConstants DEF Rings, DeviceStores
<1>2. n < h + c
  <2>1. seen # availIndex
    BY DEF DeviceStores
  <2> QED BY <1>1, <2>1
<1>3. n % c \in Buffers /\ seen % c = n % c /\ usedIndex % c = n % c
      /\ Step(usedIndex) = (n + 1) % RingModulus /\ Step(seen) = (n + 1) % RingModulus
  BY <1>1, OnRing
<1>4. /\ buffers' = [buffers EXCEPT ![n % c] = event]
      /\ usedRing' = [usedRing EXCEPT ![n % c] = n % c]
      /\ usedIndex' = (n + 1) % RingModulus /\ seen' = (n + 1) % RingModulus
      /\ emitted' = Append(emitted, event)
      /\ UNCHANGED <<availRing, availIndex, lastUsed, keyboard, turn, keyVars>>
  BY <1>1, <1>3 DEF DeviceStores, lendVars
<1>5. Len(emitted') = n + 1 /\ emitted' \in Seq(DeviceEvents)
      /\ emitted'[n + 1] = event /\ \A i \in 1..n : emitted'[i] = emitted[i]
  BY <1>1, <1>4
<1>6. /\ \A p \in Nat : p % c \in Buffers
      /\ \A p \in Nat : h <= p /\ p < n => buffers[p % c] = emitted[p + 1] /\ usedRing[p % c] = p % c
      /\ buffers = [i \in Buffers |-> buffers[i]] /\ usedRing = [i \in Buffers |-> usedRing[i]]
  BY OnRing DEF Rings
<1> HIDE DEF n, c
<1>7. ASSUME NEW p \in Nat, h <= p, p < n + 1
      PROVE  buffers'[p % c] = emitted'[p + 1] /\ usedRing'[p % c] = p % c
  <2>1. CASE p = n
    BY <1>3, <1>4, <1>5, <1>6, <2>1
  <2>2. CASE p # n
    <3>1. p < n /\ p + 1 \in 1..n /\ n - p < c
      BY <1>1, <1>2, <1>7, <2>2
    <3>2. buffers[p % c] = emitted[p + 1] /\ usedRing[p % c] = p % c
      BY <1>6, <1>7, <3>1
    <3>3. p % c # n % c
      BY <1>1, <3>1, Differ
    <3>4. p % c \in Buffers
      BY <1>6
    <3>5. buffers'[p % c] = buffers[p % c] /\ usedRing'[p % c] = usedRing[p % c]
      BY <1>4, <1>6, <3>3, <3>4
    <3> QED BY <1>5, <3>1, <3>2, <3>5
  <2> QED BY <2>1, <2>2
<1>8. buffers' = [i \in Buffers |-> buffers'[i]] /\ usedRing' = [i \in Buffers |-> usedRing'[i]]
  BY <1>4, <1>6
<1>9. /\ n + 1 <= h + c /\ h <= n + 1 /\ (turn' # "look" => h < n + 1)
      /\ turn' \in {"look", "handle", "lend"} /\ keyboard' = "ready"
      /\ usedIndex' = (n + 1) % RingModulus /\ seen' = usedIndex'
      /\ lastUsed' = h % RingModulus
      /\ availRing' = [i \in Buffers |-> i] /\ availIndex' = (h + c) % RingModulus
  BY <1>1, <1>2, <1>4
<1>10. Rings(h)'
  BY <1>1, <1>5, <1>7, <1>8, <1>9 DEF Rings, c
<1>11. Meaning(Turned(h))'
  <2>1. Turned(h)' = Turned(h)
    BY <1>4 DEF Turned
  <2>2. PICK t : t = Turned(h)
    OBVIOUS
  <2>3. Meaning(t)'
    <3>1. Meaning(t)
      BY <2>2
    <3> QED BY <1>1, <1>4, <3>1, StoreMeans
  <2> QED BY <2>1, <2>2, <2>3
<1> QED BY <1>10, <1>11

\* The steps that handle no event.
LEMMA DriverHolds ==
    ASSUME NEW h, Rings(h), Meaning(Turned(h)),
           KeyboardAppears \/ TakeUsed \/ TakeClose \/ UNCHANGED keyboardVars
    PROVE  Rings(h)' /\ Meaning(Turned(h))'
<1>1. /\ h \in Nat /\ h <= Len(emitted) /\ Len(emitted) <= h + BufferCount
      /\ Len(emitted) \in Nat /\ BufferCount \in Nat \ {0}
  BY KeyboardConstants DEF Rings
<1>2. UNCHANGED <<ringVars, lastUsed, emitted, held, capsLock, keysPushed>>
      /\ (closeWanted' => closeWanted)
  BY DEF KeyboardAppears, TakeUsed, TakeClose, keyboardVars, keyVars
<1>3. (turn = "lend" <=> turn' = "lend") /\ turn' \in {"look", "handle", "lend"}
      /\ (turn' # "look" => h < Len(emitted))
  <2>1. CASE TakeUsed
    <3>1. usedIndex = Len(emitted) % RingModulus /\ lastUsed = h % RingModulus
      BY DEF Rings
    <3>2. h # Len(emitted)
      BY <2>1, <3>1 DEF TakeUsed
    <3> QED BY <1>1, <2>1, <3>2 DEF TakeUsed
  <2>2. CASE ~TakeUsed
    BY <2>2 DEF KeyboardAppears, TakeClose, keyboardVars, Rings
  <2> QED BY <2>1, <2>2
<1>4. /\ keyboard' # "ready" => Len(emitted) = 0
      /\ keyboard' = "ready" => /\ availRing' = [i \in Buffers |-> i]
                                /\ availIndex' = (h + BufferCount) % RingModulus
  <2>1. CASE KeyboardAppears
    <3>1. Len(emitted) = 0 /\ h = 0
      BY <1>1, <2>1 DEF KeyboardAppears, Rings
    <3>2. h + BufferCount = BufferCount
      BY <1>1, <3>1
    <3> QED BY <2>1, <3>1, <3>2 DEF KeyboardAppears
  <2>2. CASE ~KeyboardAppears
    <3>1. UNCHANGED <<keyboard, availRing, availIndex>>
      BY <2>2 DEF TakeUsed, TakeClose, keyboardVars, lendVars
    <3> QED BY <3>1 DEF Rings
  <2> QED BY <2>1, <2>2
<1>5. Rings(h)'
  BY <1>1, <1>2, <1>3, <1>4 DEF Rings, ringVars
<1>6. Meaning(Turned(h))'
  <2>1. Turned(h)' = Turned(h)
    BY <1>3 DEF Turned
  <2>2. PICK t : t = Turned(h)
    OBVIOUS
  <2>3. Meaning(t)'
    <3>1. Meaning(t)
      BY <2>2
    <3> QED BY <1>2, <3>1, SameMeaning
  <2> QED BY <2>1, <2>2, <2>3
<1> QED BY <1>5, <1>6

\* The entry to be handled is the oldest event that waits.
LEMMA Newest ==
    ASSUME NEW h, Rings(h), turn # "look"
    PROVE  /\ h < Len(emitted) /\ Current = h % BufferCount /\ Current \in Buffers
           /\ buffers[Current] = emitted[h + 1] /\ keyboard = "ready"
<1>1. h \in Nat /\ h < Len(emitted) /\ lastUsed = h % RingModulus /\ keyboard = "ready"
  BY DEF Rings
<1>2. /\ usedRing[h % BufferCount] = h % BufferCount
      /\ buffers[h % BufferCount] = emitted[h + 1]
  <2>1. \A p \in Nat : h <= p /\ p < Len(emitted) =>
              buffers[p % BufferCount] = emitted[p + 1] /\ usedRing[p % BufferCount] = p % BufferCount
    BY DEF Rings
  <2>2. h <= h
    BY <1>1
  <2> QED BY <1>1, <2>1, <2>2
<1>3. lastUsed % BufferCount = h % BufferCount /\ h % BufferCount \in Buffers
  BY <1>1, OnRing
<1> QED BY <1>1, <1>2, <1>3 DEF Current

\* Handling an event keeps the invariant, with the event counted as handled.
LEMMA HandleHolds ==
    ASSUME NEW h, Rings(h), Meaning(Turned(h)), HandleEvent
    PROVE  Rings(h)' /\ Meaning(Turned(h))'
<1>1. turn = "handle" /\ turn' = "lend"
      /\ UNCHANGED <<lendVars, ringVars, lastUsed, keyboard, emitted>>
  BY DEF HandleEvent
<1>2. h < Len(emitted) /\ buffers[Current] = emitted[h + 1]
      /\ emitted \in Seq(DeviceEvents) /\ h \in Nat
  BY <1>1, Newest DEF Rings
<1>3. Rings(h)'
  BY <1>1, <1>2 DEF Rings, lendVars, ringVars
<1>4. Turned(h) = h /\ Turned(h)' = h + 1
  BY <1>1, <1>2 DEF Turned
<1>5. Meaning(h + 1)'
  <2>1. Meaning(h)
    BY <1>4
  <2>2. IF IsModifier(emitted[h + 1].code) THEN ModifierKey(emitted[h + 1])
                                           ELSE OtherKey(emitted[h + 1])
    BY <1>2 DEF HandleEvent
  <2> QED BY <1>1, <1>2, <2>1, <2>2, HandleMeans
<1> QED BY <1>3, <1>4, <1>5

\* Lending the buffer again makes the handled event part of the past.
LEMMA LendHolds ==
    ASSUME NEW h, Rings(h), Meaning(Turned(h)), LendAgain
    PROVE  h + 1 \in Nat /\ Rings(h + 1)' /\ Meaning(Turned(h + 1))'
<1> DEFINE n == Len(emitted)
<1>1. turn = "lend" /\ turn' = "look"
      /\ UNCHANGED <<ringVars, keyboard, keyVars, emitted>>
  BY DEF LendAgain
<1>2. /\ h < n /\ n <= h + BufferCount /\ emitted \in Seq(DeviceEvents) /\ h \in Nat /\ n \in Nat
      /\ BufferCount \in Nat /\ keyboard = "ready"
      /\ Current = h % BufferCount /\ h % BufferCount \in Buffers
  <2>1. h < n /\ Current = h % BufferCount /\ Current \in Buffers /\ keyboard = "ready"
    BY <1>1, Newest
  <2>2. n <= h + BufferCount /\ emitted \in Seq(DeviceEvents) /\ h \in Nat
    BY DEF Rings
  <2> QED BY <2>1, <2>2, KeyboardConstants
<1>3. /\ availRing = [i \in Buffers |-> i] /\ availIndex = (h + BufferCount) % RingModulus
      /\ lastUsed = h % RingModulus
  BY <1>2 DEF Rings
<1>4. availRing' = [i \in Buffers |-> i]
  <2>1. availIndex % BufferCount = h % BufferCount
    BY <1>2, <1>3, OnRing, Around
  <2>2. availRing' = [availRing EXCEPT ![h % BufferCount] = h % BufferCount]
    BY <1>2, <2>1 DEF LendAgain
  <2> QED BY <1>2, <1>3, <2>2
<1>5. availIndex' = (h + 1 + BufferCount) % RingModulus /\ lastUsed' = (h + 1) % RingModulus
  <2>1. Step((h + BufferCount) % RingModulus) = (h + BufferCount + 1) % RingModulus
        /\ Step(h % RingModulus) = (h + 1) % RingModulus
    BY <1>2, OnRing
  <2>2. h + BufferCount + 1 = h + 1 + BufferCount
    BY <1>2
  <2> QED BY <1>3, <2>1, <2>2 DEF LendAgain
<1>6. Rings(h + 1)'
  <2>1. /\ usedIndex = n % RingModulus /\ seen = usedIndex
        /\ buffers = [i \in Buffers |-> buffers[i]] /\ usedRing = [i \in Buffers |-> usedRing[i]]
        /\ \A p \in Nat : h <= p /\ p < n =>
              buffers[p % BufferCount] = emitted[p + 1] /\ usedRing[p % BufferCount] = p % BufferCount
    BY DEF Rings
  <2>2. \A p \in Nat : h + 1 <= p /\ p < n =>
              buffers[p % BufferCount] = emitted[p + 1] /\ usedRing[p % BufferCount] = p % BufferCount
    <3> SUFFICES ASSUME NEW p \in Nat, h + 1 <= p, p < n
                 PROVE  buffers[p % BufferCount] = emitted[p + 1] /\ usedRing[p % BufferCount] = p % BufferCount
      OBVIOUS
    <3>1. h <= p
      BY <1>2
    <3> QED BY <2>1, <3>1
  <2>3. h + 1 \in Nat /\ h + 1 <= n /\ n <= h + 1 + BufferCount
    BY <1>2
  <2> QED BY <1>1, <1>2, <1>4, <1>5, <2>1, <2>2, <2>3 DEF Rings, ringVars
<1>7. Turned(h) = h + 1 /\ Turned(h + 1)' = h + 1
  BY <1>1, <1>2 DEF Turned
<1>8. Meaning(h + 1)'
  <2>1. Meaning(h + 1)
    BY <1>7
  <2>2. UNCHANGED <<emitted, held, capsLock, keysPushed>> /\ (closeWanted' => closeWanted)
    BY <1>1 DEF keyVars
  <2> QED BY <2>1, <2>2, SameMeaning
<1> QED BY <1>2, <1>6, <1>7, <1>8

\* Nothing has been typed.
LEMMA KeyboardInitHolds == KeyboardInit => KeyboardInv
<1> SUFFICES ASSUME KeyboardInit PROVE KeyboardInv
  OBVIOUS
<1>1. Len(emitted) = 0 /\ emitted \in Seq(DeviceEvents) /\ Turned(0) = 0
  BY DEF KeyboardInit, Turned
<1>2. Rings(0)
  <2>1. 0 % RingModulus = 0 /\ BufferCount \in Nat
    BY KeyboardConstants
  <2> QED BY <1>1, <2>1 DEF Rings, KeyboardInit
<1>3. Meaning(0)
  <2>1. 1..0 = {}
    OBVIOUS
  <2>2. TypedBy(0) = {} /\ Cardinality({}) = 0
    BY <2>1, FS_EmptySet DEF TypedBy
  <2>3. {code \in Codes : DownAfter(code, 0)} = {}
    BY <2>1 DEF DownAfter
  <2>4. CapsAfter(0) = FALSE
    <3>1. {i \in 1..0 : emitted[i] = [code |-> "caps", value |-> 1]} = {}
      BY <2>1
    <3>2. 0 % 2 = 0
      OBVIOUS
    <3> QED BY <2>2, <3>1, <3>2 DEF CapsAfter
  <2>5. keysPushed \in Seq(KeyEvents) /\ Len(keysPushed) = 0
    BY DEF KeyboardInit
  <2>6. held = {} /\ capsLock = FALSE /\ closeWanted = FALSE
    BY DEF KeyboardInit
  <2>7. \A m \in TypedBy(0) : keysPushed[Cardinality(TypedBy(m))] = KeyOf(m)
    BY <2>2
  <2>8. Len(keysPushed) = Cardinality(TypedBy(0)) /\ 0 \in 0..Len(emitted)
    BY <1>1, <2>2, <2>5
  <2> QED BY <2>3, <2>4, <2>5, <2>6, <2>7, <2>8 DEF Meaning
<1> QED BY <1>1, <1>2, <1>3 DEF KeyboardInv

\* Every step of the device and the driver keeps the invariant.
LEMMA KeyboardStepHolds == KeyboardInv /\ [KeyboardNext]_keyboardVars => KeyboardInv'
<1> SUFFICES ASSUME KeyboardInv, [KeyboardNext]_keyboardVars PROVE KeyboardInv'
  OBVIOUS
<1>1. PICK h \in Nat : Rings(h) /\ Meaning(Turned(h))
  BY DEF KeyboardInv
<1>2. CASE LendAgain
  BY <1>1, <1>2, LendHolds DEF KeyboardInv
<1>3. CASE HandleEvent
  BY <1>1, <1>3, HandleHolds DEF KeyboardInv
<1>4. CASE \E event \in DeviceEvents : DeviceStores(event)
  BY <1>1, <1>4, StoresHolds DEF KeyboardInv
<1>5. CASE KeyboardAppears \/ TakeUsed \/ TakeClose \/ UNCHANGED keyboardVars
  BY <1>1, <1>5, DriverHolds DEF KeyboardInv
<1> QED BY <1>2, <1>3, <1>4, <1>5 DEF KeyboardNext

\* The invariant implies the property.
LEMMA InvKeyboardTrue == KeyboardInv => KeyboardTrue
<1> SUFFICES ASSUME KeyboardInv PROVE KeyboardTrue
  OBVIOUS
<1>1. PICK h \in Nat : Rings(h) /\ Meaning(Turned(h))
  BY DEF KeyboardInv
<1>2. PICK n : n = Turned(h)
  OBVIOUS
<1>3. Handled = n
  <2>1. Unhandled = Len(emitted) - h
    BY <1>1, UnhandledIs
  <2>2. Len(emitted) \in Nat
    BY <1>1 DEF Rings
  <2> QED BY <1>2, <2>1, <2>2 DEF Handled, Turned
<1>4. Meaning(n) /\ n \in Nat
  BY <1>1, <1>2 DEF Meaning
<1>5. \A m \in TypedBy(n) : {l \in TypedBy(n) : l <= m} = TypedBy(m)
  BY <1>4 DEF TypedBy
<1>6. /\ Len(keysPushed) = Cardinality(TypedBy(n))
      /\ \A m \in TypedBy(n) :
            keysPushed[Cardinality({l \in TypedBy(n) : l <= m})] =
              [code |-> emitted[m].code, mods |-> ModsAfter(m),
               second |-> Second(emitted[m].code, ModsAfter(m), CapsAfter(m))]
      /\ closeWanted => \E m \in 1..n : Closes(m)
  BY <1>4, <1>5 DEF Meaning, KeyOf
<1> QED BY <1>3, <1>6 DEF KeyboardTrue, TypedBy

\* The invariant holds, for any number of buffers, any modulus that is a
\* multiple of it, and any events.
THEOREM KeyboardInvariant == KeyboardSpec => []KeyboardInv
<1> QED BY KeyboardInitHolds, KeyboardStepHolds, PTL DEF KeyboardSpec

\* Whatever the device stores while the driver works, and however often the
\* indices wrap, each event is handled once and in its order, with the
\* modifiers of the keys that were down then (virtio_keyboard_update,
\* handle_input_event).
THEOREM KeyboardIsTrue == KeyboardSpec => []KeyboardTrue
<1> QED BY KeyboardInvariant, InvKeyboardTrue, PTL

-----------------------------------------------------------------------------
(* The USB keyboard: its keys, the descriptors, the enumeration. *)

\* A device that may be on a bus.
Plausible(x) ==
    /\ x \in UsbDevices
    /\ \A i \in DOMAIN x.config :
          x.config[i].type = "interface" => /\ x.config[i].boot => x.config[i].hid
                                            /\ x.is = "hub" => ~x.config[i].hid

\* The bus b, its devices whatever state they are in.
Wired(b) ==
    /\ b = [d \in DOMAIN b |-> b[d]] /\ (b = <<>> \/ 1 \in DOMAIN b)
    /\ \A d \in DOMAIN b : Plausible(b[d])

\* What usb_find_hid_keyboard is to find in configuration c.
Chosen(c, e) ==
    \E i, j \in DOMAIN c :
       /\ i < j /\ c[i].type = "interface" /\ c[i].number = e.interface
       /\ \A k \in (i + 1)..j : c[k].type = "endpoint"
       /\ c[i].hid /\ c[j].usable /\ c[j].number = e.endpoint
       /\ ~c[i].boot => \A k, l \in DOMAIN c :
            ~(/\ c[k].type = "interface" /\ c[k].boot /\ l > k
              /\ \A m \in (k + 1)..l : c[m].type = "endpoint"
              /\ c[l].usable)

\* Device k of the bus b is the one being enumerated; another that answers is
\* the hub it is behind.
Only(b, k, t) ==
    /\ k \in DOMAIN b /\ b[k].live
    /\ \A e \in DOMAIN b : e # k /\ b[e].live => t = 2 /\ b[e].address = 1

\* Whoever answers is the hub at address 1.
HubAlone(b) == \A e \in DOMAIN b : b[e].live => b[e].address = 1

\* What is true of the bus at each stage: one device at most waits at address
\* 0, and it is the one the driver speaks to.
Enumerating(s, b, t, p, e) ==
    /\ s \in {"core", "root"} => \A d \in DOMAIN b : ~b[d].live
    /\ s \in {"header", "address"} =>
          t \in {1, 2} /\ \E k \in DOMAIN b : Only(b, k, t) /\ b[k].address = 0
    /\ s \in {"device", "config"} =>
          t \in {1, 2} /\ \E k \in DOMAIN b : Only(b, k, t) /\ b[k].address = t
    /\ s \in {"configure hub", "hub descriptor", "port"} => t = 1 /\ HubAlone(b)
    /\ s = "port status" =>
          /\ t = 1 /\ p + 1 \in DOMAIN b /\ b[p + 1].live /\ b[p + 1].address = 0
          /\ \A d \in DOMAIN b : d # p + 1 /\ b[d].live => b[d].address = 1
    /\ s \in {"configure", "protocol", "idle", "ready"} =>
          /\ t \in {1, 2}
          /\ \E k \in DOMAIN b :
                /\ Only(b, k, t) /\ b[k].address = t /\ b[k].is # "hub"
                /\ Chosen(b[k].config, e)
                /\ s # "configure" => b[k].at = "configured"
                /\ s \in {"idle", "ready"} => b[k].boot

\* Once a port was given up after its reset nothing is promised of the
\* addresses.
EnumInv ==
    /\ Wired(bus) /\ target \in Nat
    /\ ~abandoned => Enumerating(stage, bus, target, port, endpoint)

\* The driver knows the keys the last report named; every press is accounted
\* for, a key that is due is held and was not named, and the device that has
\* nothing to report has reported the keys as they are.
Accounted ==
    \A u \in Usages :
       handled[u] + untold[u] + (IF u \in due THEN 1 ELSE 0) = presses[u] + again[u]
KeysInv ==
    /\ handled \in [Usages -> Nat] /\ presses \in [Usages -> Nat]
    /\ untold \in [Usages -> Nat] /\ again \in [Usages -> Nat]
    /\ down \subseteq Usages /\ named \subseteq Usages
    /\ due \subseteq down /\ due \intersect named = {}
    /\ previous = named
    /\ Accounted
    /\ ~news => named = Report
    /\ down \ named \subseteq due

\* The inductive invariant.
UsbInv == EnumInv /\ KeysInv

-----------------------------------------------------------------------------
\* No key is held at first.
LEMMA KeysInitHold == UsbInit => KeysInv
<1> SUFFICES ASSUME UsbInit PROVE KeysInv
  OBVIOUS
<1>1. Report = {}
  BY DEF UsbInit, Report
<1>2. Accounted
  BY DEF UsbInit, Accounted
<1> QED BY <1>1, <1>2 DEF UsbInit, KeysInv

\* Counting the keys of a set once more.
LEMMA OneMoreIs ==
    ASSUME NEW count \in [Usages -> Nat], NEW keys
    PROVE  /\ OneMore(count, keys) \in [Usages -> Nat]
           /\ \A u \in Usages :
                 OneMore(count, keys)[u] = count[u] + (IF u \in keys THEN 1 ELSE 0)
<1> QED BY DEF OneMore

\* A report, whether it names the keys or only that there are too many.
LEMMA ReportHolds ==
    ASSUME KeysInv, ProcessReport, Tell, UNCHANGED <<down, presses, untold>>
    PROVE  KeysInv'
<1> DEFINE hidden == IF TooMany THEN down \intersect named ELSE {}
<1>1. previous' = Report /\ named' = Report /\ Report' = Report /\ Report \subseteq down
  BY DEF ProcessReport, Tell, Report, TooMany
<1>2. handled' = OneMore(handled, Report \ named) /\ again' = OneMore(again, hidden)
  BY DEF ProcessReport, Tell, KeysInv
<1>3. due' = (due \ Report) \union hidden
  BY DEF Tell
<1>4. /\ handled' \in [Usages -> Nat] /\ again' \in [Usages -> Nat]
      /\ \A u \in Usages :
            /\ handled'[u] = handled[u] + (IF u \in Report \ named THEN 1 ELSE 0)
            /\ again'[u] = again[u] + (IF u \in hidden THEN 1 ELSE 0)
  <2> HIDE DEF hidden
  <2> QED BY <1>2, OneMoreIs DEF KeysInv
<1>5. CASE TooMany
  <2>1. Report = {} /\ hidden = down \intersect named
    BY <1>5 DEF Report
  <2>2. due' = due \union hidden /\ due \intersect hidden = {}
    BY <1>3, <2>1 DEF KeysInv
  <2>3. Accounted'
    <3> SUFFICES ASSUME NEW u \in Usages
                 PROVE  handled'[u] + untold[u] + (IF u \in due' THEN 1 ELSE 0)
                           = presses[u] + again'[u]
      BY DEF Accounted
    <3>1. handled'[u] = handled[u]
      BY <1>4, <2>1 DEF KeysInv
    <3>2. handled[u] + untold[u] + (IF u \in due THEN 1 ELSE 0) = presses[u] + again[u]
          /\ handled[u] \in Nat /\ untold[u] \in Nat /\ presses[u] \in Nat /\ again[u] \in Nat
      BY DEF KeysInv, Accounted
    <3>3. CASE u \in hidden
      <4>1. u \notin due /\ u \in due' /\ again'[u] = again[u] + 1
        BY <1>4, <2>2, <3>2, <3>3
      <4> QED BY <3>1, <3>2, <4>1
    <3>4. CASE u \notin hidden
      <4>1. (u \in due' <=> u \in due) /\ again'[u] = again[u]
        BY <1>4, <2>2, <3>2, <3>4
      <4> QED BY <3>1, <3>2, <4>1
    <3> QED BY <3>3, <3>4
  <2>4. down \subseteq due' /\ due' \subseteq down
    BY <2>1, <2>2 DEF KeysInv
  <2> QED BY <1>1, <1>4, <2>1, <2>3, <2>4 DEF KeysInv
<1>6. CASE ~TooMany
  <2>1. Report = down /\ hidden = {}
    BY <1>6 DEF Report
  <2>2. due' = {} /\ down \ named = due
    BY <1>3, <2>1 DEF KeysInv
  <2>3. Accounted'
    <3> SUFFICES ASSUME NEW u \in Usages
                 PROVE  handled'[u] + untold[u] + (IF u \in due' THEN 1 ELSE 0)
                           = presses[u] + again'[u]
      BY DEF Accounted
    <3>1. handled[u] + untold[u] + (IF u \in due THEN 1 ELSE 0) = presses[u] + again[u]
          /\ handled[u] \in Nat /\ untold[u] \in Nat /\ presses[u] \in Nat /\ again[u] \in Nat
      BY DEF KeysInv, Accounted
    <3>2. again'[u] = again[u] /\ u \notin due'
      BY <1>4, <2>1, <2>2, <3>1
    <3>3. handled'[u] = handled[u] + (IF u \in due THEN 1 ELSE 0)
      BY <1>4, <2>1, <2>2
    <3> QED BY <3>1, <3>2, <3>3
  <2> QED BY <1>1, <1>4, <2>1, <2>2, <2>3 DEF KeysInv
<1> QED BY <1>5, <1>6

\* A key that goes down is due unless the last report still names it.
LEMMA HoldHolds ==
    ASSUME KeysInv, NEW u \in Usages, HoldKey(u)
    PROVE  KeysInv'
<1>1. /\ u \notin down /\ down' = down \union {u} /\ news' = TRUE
      /\ presses' = OneMore(presses, {u})
      /\ due' = due \union ({u} \ named)
      /\ untold' = OneMore(untold, {u} \intersect named)
      /\ UNCHANGED <<handled, previous, named, again>>
  BY DEF HoldKey, reportVars
<1>2. /\ presses' \in [Usages -> Nat] /\ untold' \in [Usages -> Nat]
      /\ \A v \in Usages :
            /\ presses'[v] = presses[v] + (IF v \in {u} THEN 1 ELSE 0)
            /\ untold'[v] = untold[v] + (IF v \in {u} \intersect named THEN 1 ELSE 0)
  BY <1>1, OneMoreIs DEF KeysInv
<1>3. Accounted'
  <2> SUFFICES ASSUME NEW v \in Usages
               PROVE  handled[v] + untold'[v] + (IF v \in due' THEN 1 ELSE 0)
                         = presses'[v] + again[v]
    BY <1>1 DEF Accounted
  <2>1. handled[v] + untold[v] + (IF v \in due THEN 1 ELSE 0) = presses[v] + again[v]
        /\ handled[v] \in Nat /\ untold[v] \in Nat /\ presses[v] \in Nat /\ again[v] \in Nat
    BY DEF KeysInv, Accounted
  <2>2. CASE v # u
    <3>1. v \in due' <=> v \in due
      BY <1>1, <2>2
    <3>2. presses'[v] = presses[v] /\ untold'[v] = untold[v]
      <4>1. v \notin {u} /\ v \notin {u} \intersect named
        BY <2>2
      <4> QED BY <1>2, <2>1, <4>1
    <3> QED BY <2>1, <3>1, <3>2
  <2>3. CASE v = u /\ u \in named
    <3>1. v \notin due /\ v \notin due' /\ presses'[v] = presses[v] + 1
          /\ untold'[v] = untold[v] + 1
      BY <1>1, <1>2, <2>3 DEF KeysInv
    <3> QED BY <2>1, <3>1
  <2>4. CASE v = u /\ u \notin named
    <3>1. v \notin due /\ v \in due' /\ presses'[v] = presses[v] + 1
          /\ untold'[v] = untold[v]
      BY <1>1, <1>2, <2>1, <2>4 DEF KeysInv
    <3> QED BY <2>1, <3>1
  <2> QED BY <2>2, <2>3, <2>4
<1>4. due' \subseteq down' /\ due' \intersect named' = {} /\ down' \ named' \subseteq due'
      /\ down' \subseteq Usages
  BY <1>1 DEF KeysInv
<1> QED BY <1>1, <1>2, <1>3, <1>4 DEF KeysInv

\* A key that goes up before a report told of it is never told.
LEMMA ReleaseHolds ==
    ASSUME KeysInv, NEW u \in Usages, ReleaseKey(u)
    PROVE  KeysInv'
<1>1. /\ down' = down \ {u} /\ news' = TRUE
      /\ due' = due \ {u}
      /\ untold' = OneMore(untold, {u} \intersect due)
      /\ UNCHANGED <<presses, handled, previous, named, again>>
  BY DEF ReleaseKey, reportVars
<1>2. /\ untold' \in [Usages -> Nat]
      /\ \A v \in Usages :
            untold'[v] = untold[v] + (IF v \in {u} \intersect due THEN 1 ELSE 0)
  BY <1>1, OneMoreIs DEF KeysInv
<1>3. Accounted'
  <2> SUFFICES ASSUME NEW v \in Usages
               PROVE  handled[v] + untold'[v] + (IF v \in due' THEN 1 ELSE 0)
                         = presses[v] + again[v]
    BY <1>1 DEF Accounted
  <2>1. handled[v] + untold[v] + (IF v \in due THEN 1 ELSE 0) = presses[v] + again[v]
        /\ handled[v] \in Nat /\ untold[v] \in Nat /\ presses[v] \in Nat /\ again[v] \in Nat
    BY DEF KeysInv, Accounted
  <2>2. untold'[v] = untold[v] + (IF v \in {u} \intersect due THEN 1 ELSE 0)
    BY <1>2
  <2>3. CASE v \in {u} \intersect due
    <3>1. v \in due /\ v \notin due' /\ untold'[v] = untold[v] + 1
      BY <1>1, <2>2, <2>3
    <3> QED BY <2>1, <3>1
  <2>4. CASE v \notin {u} \intersect due
    <3>1. (v \in due' <=> v \in due) /\ untold'[v] = untold[v]
      BY <1>1, <2>1, <2>2, <2>4
    <3> QED BY <2>1, <3>1
  <2> QED BY <2>3, <2>4
<1>4. due' \subseteq down' /\ due' \intersect named' = {} /\ down' \ named' \subseteq due'
      /\ down' \subseteq Usages
  BY <1>1 DEF KeysInv
<1> QED BY <1>1, <1>2, <1>3, <1>4 DEF KeysInv

\* Every step of the user, the device and the driver keeps the keys right.
LEMMA KeysStepHold == KeysInv /\ [UsbNext]_usbVars => KeysInv'
<1> SUFFICES ASSUME KeysInv, [UsbNext]_usbVars PROVE KeysInv'
  OBVIOUS
<1>1. CASE UNCHANGED <<down, news, presses, handled, previous, named, due, untold, again>>
  <2>1. Report' = Report /\ Accounted'
    BY <1>1 DEF Report, TooMany, KeysInv, Accounted
  <2> QED BY <1>1, <2>1 DEF KeysInv
<1>2. ASSUME NEW u \in Usages, HoldKey(u) PROVE KeysInv'
  BY <1>2, HoldHolds
<1>3. ASSUME NEW u \in Usages, ReleaseKey(u) PROVE KeysInv'
  BY <1>3, ReleaseHolds
<1>4. CASE ChangeAlt
  <2>1. news' = TRUE
        /\ UNCHANGED <<down, presses, handled, previous, named, due, untold, again>>
    BY <1>4 DEF ChangeAlt, reportVars
  <2>2. Accounted'
    BY <2>1 DEF KeysInv, Accounted
  <2> QED BY <2>1, <2>2 DEF KeysInv
<1>5. CASE Poll
  <2>1. CASE toggles.host = toggles.device
    BY <1>5, <2>1, ReportHolds DEF Poll
  <2>2. CASE toggles.host # toggles.device
    BY <1>1, <1>5, <2>2 DEF Poll, reportVars
  <2> QED BY <2>1, <2>2
<1>6. CASE PollFails \/ TakeCloseRequest \/ UNCHANGED usbVars
  BY <1>1, <1>6 DEF PollFails, TakeCloseRequest, usbVars, userVars, reportVars
<1>7. CASE Enumerate /\ UNCHANGED <<userVars, reportVars>>
  BY <1>1, <1>7 DEF userVars, reportVars
<1> QED BY <1>2, <1>3, <1>4, <1>5, <1>6, <1>7 DEF UsbNext

\* The invariant is more than the property.
LEMMA KeysCome == KeysInv => UsbKeysOnce
<1> SUFFICES ASSUME KeysInv PROVE UsbKeysOnce
  OBVIOUS
<1>1. ~news /\ ~TooMany => due = {}
  BY DEF KeysInv, Report
<1> QED BY <1>1 DEF UsbKeysOnce, KeysInv, Accounted

-----------------------------------------------------------------------------
\* A set of naturals that has 0, and n + 1 with n, has every natural.
LEMMA SetInduction ==
    ASSUME NEW S, 0 \in S, \A n \in Nat : n \in S => n + 1 \in S
    PROVE  Nat \subseteq S
<1> SUFFICES ASSUME NEW x \in Nat, x \notin S PROVE FALSE
  OBVIOUS
<1> DEFINE A == S \intersect (0..x)
           f == [n \in A |-> n + 1]
<1>1. IsFiniteSet(A)
  <2>1. IsFiniteSet(0..x)
    BY FS_Interval
  <2> QED BY <2>1, FS_Subset
<1>2. f \in Injection(A, A \ {0})
  BY DEF Injection, IsInjective
<1>3. Cardinality(A) <= Cardinality(A \ {0})
  <2>1. IsFiniteSet(A \ {0})
    BY <1>1, FS_Subset
  <2> HIDE DEF A, f
  <2> QED BY <1>2, <2>1, FS_Injection
<1>4. Cardinality(A \ {0}) = Cardinality(A) - 1
  <2>1. 0 \in A
    OBVIOUS
  <2> HIDE DEF A
  <2> QED BY <1>1, <2>1, FS_RemoveElement
<1> QED BY <1>1, <1>3, <1>4, FS_CardinalityType

\* A set of naturals that is not empty has a least element.
LEMMA Smallest ==
    ASSUME NEW A, A \subseteq Nat, A # {}
    PROVE  \E i \in A : \A j \in A : i <= j
<1> SUFFICES ASSUME \A i \in A : \E j \in A : ~(i <= j) PROVE FALSE
  OBVIOUS
<1> DEFINE S == {n \in Nat : \A j \in A : n < j}
<1>1. 0 \in S
  BY SMT
<1>2. \A n \in Nat : n \in S => n + 1 \in S
  <2> SUFFICES ASSUME NEW n \in Nat, \A j \in A : n < j PROVE \A j \in A : n + 1 < j
    OBVIOUS
  <2>1. n + 1 \notin A
    BY SMT
  <2> QED BY <2>1
<1>3. Nat \subseteq S
  <2> HIDE DEF S
  <2> QED BY <1>1, <1>2, SetInduction
<1>4. PICK a \in A : a \in Nat
  OBVIOUS
<1>5. a < a
  BY <1>3, <1>4
<1> QED BY <1>4, <1>5

\* One that is bounded has a greatest element, and Max is it.
LEMMA Largest ==
    ASSUME NEW n \in Nat, NEW A, A \subseteq 0..n, A # {}
    PROVE  Max(A) \in A /\ \A j \in A : j <= Max(A)
<1> DEFINE B == {n - x : x \in A}
<1>1. B \subseteq Nat /\ B # {}
  <2>1. \A x \in A : x \in 0..n
    OBVIOUS
  <2>2. \A x \in 0..n : n - x \in Nat
    OBVIOUS
  <2>3. B \subseteq Nat
    BY <2>1, <2>2
  <2>4. B # {}
    OBVIOUS
  <2>5. QED
    BY <2>3, <2>4
<1>2. PICK i \in B : \A j \in B : i <= j
  <2> HIDE DEF B
  <2> QED BY <1>1, Smallest
<1>3. PICK x \in A : i = n - x
  BY <1>2
<1>4. \A j \in A : x >= j
  <2> SUFFICES ASSUME NEW j \in A PROVE x >= j
    OBVIOUS
  <2>1. n - j \in B /\ j \in 0..n /\ x \in 0..n
    OBVIOUS
  <2> QED BY <1>2, <1>3, <2>1
<1>5. Max(A) \in A /\ \A j \in A : Max(A) >= j
  BY <1>3, <1>4 DEF Max
<1>6. \A j \in A : j \in Int
  <2> SUFFICES ASSUME NEW j \in A PROVE j \in Int
    OBVIOUS
  <2>1. j \in 0..n
    OBVIOUS
  <2> QED BY <2>1
<1> QED BY <1>5, <1>6

\* The interface that descriptor i belongs to.
InterfaceOf(c, i) == Max({j \in 1..i : c[j].type = "interface"})

\* It is the last interface descriptor before i.
LEMMA InterfaceIs ==
    ASSUME NEW c, NEW i \in Nat, \E j \in 1..i : c[j].type = "interface"
    PROVE  /\ InterfaceOf(c, i) \in 1..i /\ c[InterfaceOf(c, i)].type = "interface"
           /\ \A j \in (InterfaceOf(c, i) + 1)..i : c[j].type # "interface"
<1> DEFINE A == {j \in 1..i : c[j].type = "interface"}
<1>1. A \subseteq 0..i /\ A # {}
  OBVIOUS
<1>2. Max(A) \in A /\ \A j \in A : j <= Max(A)
  <2> HIDE DEF A
  <2> QED BY <1>1, Largest
<1>3. ASSUME NEW j \in (Max(A) + 1)..i PROVE c[j].type # "interface"
  <2>1. Max(A) \in 1..i
    BY <1>2
  <2>2. j \in 1..i /\ ~(j <= Max(A))
    BY <2>1
  <2>3. j \notin A
    BY <1>2, <2>2
  <2> QED BY <2>2, <2>3
<1> QED BY <1>2, <1>3 DEF InterfaceOf

\* usb_find_hid_keyboard finds a usable endpoint of a HID interface, and
\* prefers a boot keyboard.
LEMMA FindChooses ==
    ASSUME NEW c \in Seq(Interfaces \union Endpoints),
           \A i \in DOMAIN c : c[i].type = "interface" /\ c[i].boot => c[i].hid,
           NEW e \in FindHidKeyboard(c)
    PROVE  /\ Chosen(c, e)
           /\ \E i \in DOMAIN c : c[i].type = "interface" /\ c[i].hid
<1> DEFINE hid == {i \in DOMAIN c :
                     /\ c[i].type = "endpoint" /\ c[i].usable
                     /\ \E j \in 1..i : c[j].type = "interface"
                     /\ c[InterfaceOf(c, i)].hid}
           boot == {i \in hid : c[InterfaceOf(c, i)].boot}
           best == IF boot # {} THEN Min(boot) ELSE Min(hid)
           owner == InterfaceOf(c, best)
<1>1. /\ hid # {}
      /\ e = [interface |-> c[owner].number, endpoint |-> c[best].number]
  BY DEF FindHidKeyboard, InterfaceOf
<1>2. \A i \in DOMAIN c : i \in Nat /\ i >= 1 /\ (c[i].type = "interface" \/ c[i].type = "endpoint")
  <2>1. \A i \in DOMAIN c : c[i] \in Interfaces \union Endpoints /\ i \in Nat /\ i >= 1
    OBVIOUS
  <2> QED BY <2>1 DEF Interfaces, Endpoints
<1>3. \A A : A \subseteq hid /\ A # {} => Min(A) \in A
  <2> SUFFICES ASSUME NEW A, A \subseteq hid, A # {} PROVE Min(A) \in A
    OBVIOUS
  <2>1. A \subseteq Nat
    BY <1>2
  <2>2. \E x \in A : \A y \in A : x <= y
    BY <2>1, Smallest
  <2> QED BY <2>2 DEF Min
<1>4. best \in hid /\ (boot # {} => best \in boot)
  <2>1. CASE boot # {}
    <3>1. boot \subseteq hid
      OBVIOUS
    <3> HIDE DEF hid, boot
    <3> QED BY <1>3, <2>1, <3>1
  <2>2. CASE boot = {}
    <3> HIDE DEF hid, boot
    <3> QED BY <1>1, <1>3, <2>2
  <2> QED BY <2>1, <2>2
<1> HIDE DEF best
<1>5. /\ best \in DOMAIN c /\ c[best].type = "endpoint" /\ c[best].usable /\ best \in Nat
      /\ \E j \in 1..best : c[j].type = "interface"
      /\ c[owner].hid
  BY <1>2, <1>4
<1>6. /\ owner \in 1..best /\ c[owner].type = "interface"
      /\ \A j \in (owner + 1)..best : c[j].type # "interface"
  BY <1>5, InterfaceIs
<1>7. DOMAIN c = 1..Len(c) /\ Len(c) \in Nat
  OBVIOUS
<1>8. owner \in DOMAIN c /\ owner < best
  <2>1. owner # best
    BY <1>5, <1>6
  <2> HIDE DEF owner
  <2> QED BY <1>5, <1>6, <1>7, <2>1
<1>9. \A k \in (owner + 1)..best : c[k].type = "endpoint"
  <2> SUFFICES ASSUME NEW k \in (owner + 1)..best PROVE c[k].type = "endpoint"
    OBVIOUS
  <2>1. k \in DOMAIN c
    <3> HIDE DEF owner
    <3> QED BY <1>5, <1>6, <1>7
  <2> QED BY <1>2, <1>6, <2>1
<1>10. ASSUME ~c[owner].boot,
              NEW k \in DOMAIN c, NEW l \in DOMAIN c,
              c[k].type = "interface", c[k].boot, l > k,
              \A m \in (k + 1)..l : c[m].type = "endpoint", c[l].usable
       PROVE  FALSE
  <2>1. boot = {}
    BY <1>4, <1>10
  <2>2. k \in 1..l /\ k \in Nat /\ l \in Nat /\ c[l].type = "endpoint"
    BY <1>7, <1>10
  <2>3. InterfaceOf(c, l) = k
    <3> DEFINE o == InterfaceOf(c, l)
    <3>1. /\ o \in 1..l /\ c[o].type = "interface"
          /\ \A j \in (o + 1)..l : c[j].type # "interface"
      BY <1>10, <2>2, InterfaceIs
    <3> HIDE DEF o
    <3>2. ~(o < k)
      BY <1>10, <2>2, <3>1
    <3>3. ~(k < o)
      BY <1>10, <2>2, <3>1
    <3>4. o = k
      BY <2>2, <3>1, <3>2, <3>3
    <3> QED BY <3>4 DEF o
  <2>4. c[k].hid
    BY <1>10
  <2>5. l \in hid
    BY <1>10, <2>2, <2>3, <2>4
  <2>6. l \in boot
    BY <1>10, <2>3, <2>5
  <2> QED BY <2>1, <2>6
<1>11. e.interface = c[owner].number /\ e.endpoint = c[best].number
  BY <1>1
<1> HIDE DEF owner, hid, boot
<1>12. Chosen(c, e)
  BY <1>5, <1>8, <1>9, <1>10, <1>11, <1>6 DEF Chosen
<1> QED BY <1>5, <1>6, <1>8, <1>12

-----------------------------------------------------------------------------
\* The states of a device.
UsbStates == {"off", "default", "addressed", "configured"}

\* What an assignment to one field of a device leaves of the others.
LEMMA AtSet ==
    ASSUME NEW x \in UsbDevices, NEW s \in UsbStates, NEW y, y = [x EXCEPT !.at = s]
    PROVE  /\ y \in UsbDevices /\ y.at = s
           /\ y.is = x.is /\ y.config = x.config /\ y.live = x.live
           /\ y.address = x.address /\ y.boot = x.boot
BY DEF UsbDevices, UsbStates

\* The same of the boot protocol.
LEMMA BootSet ==
    ASSUME NEW x \in UsbDevices, NEW y, y = [x EXCEPT !.boot = TRUE]
    PROVE  /\ y \in UsbDevices /\ y.boot
           /\ y.is = x.is /\ y.config = x.config /\ y.live = x.live
           /\ y.address = x.address /\ y.at = x.at
BY DEF UsbDevices

\* A device that was given its address.
Addressed(x, t) == [x EXCEPT !.address = t, !.at = "addressed"]

\* The fields of such a device.
LEMMA AddressSet ==
    ASSUME NEW x \in UsbDevices, NEW t \in Nat
    PROVE  /\ Addressed(x, t) \in UsbDevices /\ Addressed(x, t).address = t
           /\ Addressed(x, t).is = x.is /\ Addressed(x, t).config = x.config
           /\ Addressed(x, t).live = x.live
<1> DEFINE w == [x EXCEPT !.address = t]
<1>1. /\ w \in UsbDevices /\ w.address = t
      /\ w.is = x.is /\ w.config = x.config /\ w.live = x.live
  BY DEF UsbDevices
<1>2. Addressed(x, t) = [w EXCEPT !.at = "addressed"]
  BY DEF Addressed
<1>3. "addressed" \in UsbStates
  BY DEF UsbStates
<1> HIDE DEF w
<1> DEFINE y == Addressed(x, t)
<1> HIDE DEF y
<1>4. /\ y \in UsbDevices /\ y.is = w.is /\ y.config = w.config /\ y.live = w.live
      /\ y.address = w.address
  <2>1. y = [w EXCEPT !.at = "addressed"]
    BY <1>2 DEF y
  <2> QED BY <1>1, <1>3, <2>1, AtSet
<1>5. y = Addressed(x, t)
  BY DEF y
<1> QED BY <1>1, <1>4, <1>5

\* A bus whose devices change their state is still that bus.
LEMMA Rewired ==
    ASSUME NEW b, Wired(b), NEW f, f = [d \in DOMAIN b |-> f[d]],
           \A d \in DOMAIN b : f[d] \in UsbDevices /\ f[d].is = b[d].is /\ f[d].config = b[d].config
    PROVE  Wired(f)
<1>1. DOMAIN f = DOMAIN b
  OBVIOUS
<1>2. \A d \in DOMAIN f : Plausible(f[d])
  BY <1>1 DEF Wired, Plausible
<1>3. f = <<>> \/ 1 \in DOMAIN f
  <2>1. b = <<>> => DOMAIN b = {}
    OBVIOUS
  <2>2. DOMAIN f = {} => f = <<>>
    OBVIOUS
  <2> QED BY <1>1, <2>1, <2>2 DEF Wired
<1> QED BY <1>1, <1>2, <1>3 DEF Wired

\* A device that is reset answers at address 0; no other changes.
LEMMA FreshIs ==
    ASSUME Wired(bus), NEW d \in DOMAIN bus
    PROVE  /\ Wired(Fresh(d)) /\ DOMAIN Fresh(d) = DOMAIN bus
           /\ Fresh(d)[d].live /\ Fresh(d)[d].address = 0
           /\ \A e \in DOMAIN bus : e # d => Fresh(d)[e] = bus[e]
<1> DEFINE f == Fresh(d)
<1>1. f = [e \in DOMAIN bus |-> f[e]] /\ \A e \in DOMAIN bus : e # d => f[e] = bus[e]
  BY DEF Wired, Fresh
<1>2. bus[d] \in UsbDevices
  BY DEF Wired, Plausible
<1>3. f[d] = [bus[d] EXCEPT !.live = TRUE, !.address = 0, !.at = "default"]
  BY DEF Wired, Fresh
<1> HIDE DEF f
<1>4. /\ f[d] \in UsbDevices /\ f[d].is = bus[d].is /\ f[d].config = bus[d].config
      /\ f[d].live /\ f[d].address = 0
  <2> DEFINE w == [[bus[d] EXCEPT !.live = TRUE] EXCEPT !.address = 0]
  <2>1. /\ w \in UsbDevices /\ w.is = bus[d].is /\ w.config = bus[d].config
        /\ w.live /\ w.address = 0
    BY ONLY <1>2 DEF UsbDevices
  <2>2. f[d] = [w EXCEPT !.at = "default"] /\ "default" \in UsbStates
    BY <1>3 DEF UsbStates
  <2> HIDE DEF w
  <2> QED BY <2>1, <2>2, AtSet
<1>5. \A e \in DOMAIN bus : f[e] \in UsbDevices /\ f[e].is = bus[e].is /\ f[e].config = bus[e].config
  BY <1>1, <1>4 DEF Wired, Plausible
<1>6. Wired(f) /\ DOMAIN f = DOMAIN bus
  BY <1>1, <1>5, Rewired
<1> QED BY <1>1, <1>4, <1>6 DEF f

\* A device that is cut off does not answer; no other changes.
LEMMA DeadIs ==
    ASSUME Wired(bus), NEW d \in DOMAIN bus, NEW f, f = [bus EXCEPT ![d].live = FALSE]
    PROVE  /\ Wired(f) /\ DOMAIN f = DOMAIN bus /\ ~f[d].live
           /\ \A e \in DOMAIN bus : e # d => f[e] = bus[e]
<1>1. f = [e \in DOMAIN bus |-> f[e]] /\ \A e \in DOMAIN bus : e # d => f[e] = bus[e]
  BY DEF Wired
<1>2. bus[d] \in UsbDevices
  BY DEF Wired, Plausible
<1>3. f[d] = [bus[d] EXCEPT !.live = FALSE]
  BY DEF Wired
<1>4. /\ f[d] \in UsbDevices /\ f[d].is = bus[d].is /\ f[d].config = bus[d].config
      /\ ~f[d].live
  BY ONLY <1>2, <1>3 DEF UsbDevices
<1>5. \A e \in DOMAIN bus : f[e] \in UsbDevices /\ f[e].is = bus[e].is /\ f[e].config = bus[e].config
  BY <1>1, <1>4 DEF Wired, Plausible
<1>6. Wired(f) /\ DOMAIN f = DOMAIN bus
  BY <1>1, <1>5, Rewired
<1> QED BY <1>1, <1>4, <1>6

\* A request that sets the state of those that answer changes nothing else.
LEMMA ToldIs ==
    ASSUME Wired(bus), NEW a, NEW s \in UsbStates
    PROVE  /\ Wired(Told(a, s)) /\ DOMAIN Told(a, s) = DOMAIN bus
           /\ \A d \in DOMAIN bus :
                 /\ Told(a, s)[d].is = bus[d].is /\ Told(a, s)[d].config = bus[d].config
                 /\ Told(a, s)[d].live = bus[d].live /\ Told(a, s)[d].address = bus[d].address
                 /\ Told(a, s)[d].boot = bus[d].boot
                 /\ Told(a, s)[d].at = IF d \in Answering(a) THEN s ELSE bus[d].at
<1> DEFINE f == Told(a, s)
<1>1. f = [d \in DOMAIN bus |-> f[d]]
      /\ \A d \in DOMAIN bus : f[d] = IF d \in Answering(a) THEN [bus[d] EXCEPT !.at = s] ELSE bus[d]
  BY DEF Told
<1> HIDE DEF f
<1>2. ASSUME NEW d \in DOMAIN bus
      PROVE  /\ f[d] \in UsbDevices
             /\ f[d].is = bus[d].is /\ f[d].config = bus[d].config
             /\ f[d].live = bus[d].live /\ f[d].address = bus[d].address
             /\ f[d].boot = bus[d].boot
             /\ f[d].at = IF d \in Answering(a) THEN s ELSE bus[d].at
  <2>1. bus[d] \in UsbDevices
    BY DEF Wired, Plausible
  <2>2. CASE d \in Answering(a)
    BY <1>1, <2>1, <2>2, AtSet
  <2>3. CASE d \notin Answering(a)
    BY <1>1, <2>1, <2>3
  <2> QED BY <2>2, <2>3
<1>3. Wired(f) /\ DOMAIN f = DOMAIN bus
  <2>1. \A d \in DOMAIN bus : f[d] \in UsbDevices /\ f[d].is = bus[d].is /\ f[d].config = bus[d].config
    BY <1>2
  <2> QED BY <1>1, <2>1, Rewired
<1> QED BY <1>2, <1>3 DEF f

\* A request that the driver goes on after was answered and carried out.
LEMMA RequestIs ==
    ASSUME Wired(bus), NEW a, NEW told, NEW next, Wired(told), ControlRequest(a, told, next)
    PROVE  /\ Wired(bus')
           /\ stage' # "disabled" => stage' = next /\ bus' = told /\ Answering(a) # {}
BY DEF ControlRequest

\* Nothing is promised of a keyboard that is disabled.
LEMMA DisabledHolds ==
    ASSUME NEW b, NEW t, NEW p, NEW e
    PROVE  Enumerating("disabled", b, t, p, e)
BY DEF Enumerating

\* The device that is enumerated answers alone.
LEMMA OnlyAnswers ==
    ASSUME NEW k, NEW t \in {1, 2}, Only(bus, k, t),
           bus[k].address = 0 \/ bus[k].address = t
    PROVE  Answering(bus[k].address) = {k}
<1> SUFFICES ASSUME NEW e \in DOMAIN bus, e # k, bus[e].live, bus[e].address = bus[k].address
             PROVE  FALSE
  BY DEF Only, Answering
<1> QED BY DEF Only

\* The reset of the root port.
LEMMA RootHolds ==
    ASSUME EnumInv, CoreInitialize \/ RootPortReset
    PROVE  EnumInv'
<1>1. CASE CoreInitialize
  BY <1>1 DEF CoreInitialize, EnumInv, Enumerating
<1>2. CASE RootPortReset
  <2>1. CASE stage' = "disabled"
    <3>1. UNCHANGED <<bus, target>>
      BY <1>2, <2>1 DEF RootPortReset
    <3> QED BY <2>1, <3>1, DisabledHolds DEF EnumInv
  <2>2. CASE stage' # "disabled"
    <3>1. stage = "root" /\ bus # <<>> /\ bus' = Fresh(1) /\ stage' = "header" /\ target' = 1
          /\ UNCHANGED abandoned
      BY <1>2, <2>2 DEF RootPortReset
    <3>2. 1 \in DOMAIN bus /\ Wired(bus)
      BY <3>1 DEF EnumInv, Wired
    <3>3. /\ Wired(bus') /\ DOMAIN bus' = DOMAIN bus
          /\ bus'[1].live /\ bus'[1].address = 0
          /\ \A e \in DOMAIN bus : e # 1 => bus'[e] = bus[e]
      BY <3>1, <3>2, FreshIs
    <3>4. ~abandoned => \A d \in DOMAIN bus : ~bus[d].live
      BY <3>1 DEF EnumInv, Enumerating
    <3>5. ~abandoned' => Only(bus', 1, 1)
      BY <3>1, <3>2, <3>3, <3>4 DEF Only
    <3> QED BY <3>1, <3>2, <3>3, <3>5 DEF EnumInv, Enumerating
  <2> QED BY <2>1, <2>2
<1> QED BY <1>1, <1>2

\* Requests that only read.
LEMMA ReadHolds ==
    ASSUME EnumInv, ReadHeader \/ ReadDevice \/ ReadHubDescriptor \/ SetIdle
    PROVE  EnumInv'
<1>1. UNCHANGED <<bus, target, endpoint, abandoned>>
  BY DEF ReadHeader, ReadDevice, ReadHubDescriptor, SetIdle, GetDescriptor, ControlRequest
<1>2. \/ stage' = "disabled"
      \/ stage = "header" /\ stage' = "address"
      \/ stage = "device" /\ stage' = "config"
      \/ stage = "hub descriptor" /\ stage' = "port"
      \/ stage = "idle" /\ stage' = "ready"
  BY DEF ReadHeader, ReadDevice, ReadHubDescriptor, SetIdle, GetDescriptor, ControlRequest
<1> QED BY <1>1, <1>2 DEF EnumInv, Enumerating

\* The device that waits at address 0 gets the address that the driver goes on
\* with.
LEMMA AddressHolds ==
    ASSUME EnumInv, SetAddress
    PROVE  EnumInv'
<1> DEFINE f == [d \in DOMAIN bus |->
                   IF d \in Answering(0)
                   THEN [bus[d] EXCEPT !.address = target, !.at = "addressed"] ELSE bus[d]]
<1>1. stage = "address" /\ ControlRequest(0, f, "device") /\ UNCHANGED <<target, port, endpoint, abandoned>>
  BY DEF SetAddress
<1>2. f = [d \in DOMAIN bus |-> f[d]] /\ DOMAIN f = DOMAIN bus
      /\ \A d \in DOMAIN bus :
            f[d] = IF d \in Answering(0) THEN Addressed(bus[d], target) ELSE bus[d]
  BY DEF Addressed
<1> HIDE DEF f
<1>3. CASE bus' = f /\ stage' = "device" /\ ~abandoned
  <2>1. target \in {1, 2} /\ \E k \in DOMAIN bus : Only(bus, k, target) /\ bus[k].address = 0
    BY <1>1, <1>3 DEF EnumInv, Enumerating
  <2>2. PICK k \in DOMAIN bus : Only(bus, k, target) /\ bus[k].address = 0
    BY <2>1
  <2>3. Answering(0) = {k}
    BY <2>1, <2>2, OnlyAnswers
  <2>4. f[k] = Addressed(bus[k], target)
        /\ \A d \in DOMAIN bus : d # k => f[d] = bus[d]
    BY <1>2, <2>3
  <2>5. /\ f[k] \in UsbDevices /\ f[k].address = target
        /\ f[k].is = bus[k].is /\ f[k].config = bus[k].config /\ f[k].live = bus[k].live
    <3>1. bus[k] \in UsbDevices /\ target \in Nat
      BY <2>1 DEF EnumInv, Wired, Plausible
    <3> QED BY <2>4, <3>1, AddressSet
  <2>6. Wired(f)
    <3>1. \A d \in DOMAIN bus : f[d] \in UsbDevices /\ f[d].is = bus[d].is /\ f[d].config = bus[d].config
      BY <2>4, <2>5 DEF EnumInv, Wired, Plausible
    <3> QED BY <1>2, <3>1, Rewired DEF EnumInv
  <2>7. Only(f, k, target)
    BY <1>2, <2>2, <2>4, <2>5 DEF Only
  <2> QED BY <1>1, <1>2, <1>3, <2>1, <2>5, <2>6, <2>7 DEF EnumInv, Enumerating
<1>4. CASE stage' = "disabled" \/ abandoned
  <2>1. Wired(f)
    <3>1. ASSUME NEW d \in DOMAIN bus
          PROVE  f[d] \in UsbDevices /\ f[d].is = bus[d].is /\ f[d].config = bus[d].config
      <4>1. bus[d] \in UsbDevices /\ target \in Nat
        BY DEF EnumInv, Wired, Plausible
      <4>2. CASE d \in Answering(0)
        BY <1>2, <4>1, <4>2, AddressSet
      <4>3. CASE d \notin Answering(0)
        BY <1>2, <4>1, <4>3
      <4> QED BY <4>2, <4>3
    <3> QED BY <1>2, <3>1, Rewired DEF EnumInv
  <2> QED BY <1>1, <1>4, <2>1, RequestIs, DisabledHolds DEF EnumInv
<1> QED BY <1>1, <1>3, <1>4, RequestIs DEF EnumInv, ControlRequest

\* The configuration decides whether it is a hub, a keyboard or neither.
LEMMA ConfigurationHolds ==
    ASSUME EnumInv, ReadConfiguration
    PROVE  EnumInv'
<1>1. stage = "config" /\ UNCHANGED <<bus, target, port, abandoned>>
  BY DEF ReadConfiguration, ControlRequest
<1>2. CASE stage' = "disabled"
  BY <1>1, <1>2, DisabledHolds DEF EnumInv
<1>3. CASE stage' # "disabled" /\ ~abandoned
  <2>1. target \in {1, 2}
    BY <1>1, <1>3 DEF EnumInv, Enumerating
  <2>2. PICK k \in DOMAIN bus : Only(bus, k, target) /\ bus[k].address = target
    BY <1>1, <1>3 DEF EnumInv, Enumerating
  <2>3. Answering(target) = {k}
    BY <2>1, <2>2, OnlyAnswers
  <2>4. CASE target = 1 /\ bus[k].is = "hub"
    <3>1. stage' = "configure hub"
      BY <1>3, <2>3, <2>4 DEF ReadConfiguration, ControlRequest
    <3>2. HubAlone(bus)
      BY <2>2, <2>4 DEF Only, HubAlone
    <3> QED BY <1>1, <2>4, <3>1, <3>2 DEF EnumInv, Enumerating
  <2>5. CASE ~(target = 1 /\ bus[k].is = "hub")
    <3>1. stage' = "configure" /\ endpoint' \in FindHidKeyboard(bus[k].config)
      BY <1>3, <2>3, <2>5 DEF ReadConfiguration, ControlRequest
    <3>2. Plausible(bus[k])
      BY DEF EnumInv, Wired
    <3>3. /\ bus[k].config \in Seq(Interfaces \union Endpoints)
          /\ \A i \in DOMAIN bus[k].config :
                bus[k].config[i].type = "interface" /\ bus[k].config[i].boot => bus[k].config[i].hid
      BY <3>2 DEF Plausible, UsbDevices
    <3>4. /\ Chosen(bus[k].config, endpoint')
          /\ \E i \in DOMAIN bus[k].config :
                bus[k].config[i].type = "interface" /\ bus[k].config[i].hid
      BY <3>1, <3>3, FindChooses
    <3>5. bus[k].is # "hub"
      BY <3>2, <3>4 DEF Plausible
    <3> QED BY <1>1, <2>1, <2>2, <3>1, <3>4, <3>5 DEF EnumInv, Enumerating
  <2> QED BY <2>4, <2>5
<1> QED BY <1>1, <1>2, <1>3 DEF EnumInv

\* The hub is told to configure itself.
LEMMA HubHolds ==
    ASSUME EnumInv, ConfigureHub
    PROVE  EnumInv'
<1>1. stage = "configure hub" /\ UNCHANGED <<target, port, endpoint, abandoned>>
      /\ ControlRequest(1, Told(1, "configured"), "hub descriptor") /\ Wired(bus)
  BY DEF ConfigureHub, EnumInv
<1>2. /\ Wired(Told(1, "configured")) /\ DOMAIN Told(1, "configured") = DOMAIN bus
      /\ \A d \in DOMAIN bus : /\ Told(1, "configured")[d].live = bus[d].live
                               /\ Told(1, "configured")[d].address = bus[d].address
  <2>1. "configured" \in UsbStates
    BY DEF UsbStates
  <2> QED BY <1>1, <2>1, ToldIs
<1>3. /\ Wired(bus')
      /\ stage' # "disabled" => stage' = "hub descriptor" /\ bus' = Told(1, "configured")
  BY <1>1, <1>2, RequestIs
<1>4. CASE stage' = "disabled"
  BY <1>1, <1>3, <1>4, DisabledHolds DEF EnumInv
<1>5. CASE stage' # "disabled"
  <2>1. ~abandoned => target = 1 /\ HubAlone(bus)
    BY <1>1 DEF EnumInv, Enumerating
  <2>2. ~abandoned => HubAlone(bus')
    BY <1>2, <1>3, <1>5, <2>1 DEF HubAlone
  <2> QED BY <1>1, <1>3, <1>5, <2>1, <2>2 DEF EnumInv, Enumerating
<1> QED BY <1>4, <1>5

\* The ports of the hub: after a reset that worked one device waits at address
\* 0.
LEMMA PortHolds ==
    ASSUME EnumInv, ResetPort \/ PortStatus \/ NoMorePorts
    PROVE  EnumInv'
<1>1. CASE NoMorePorts
  BY <1>1, DisabledHolds DEF NoMorePorts, EnumInv
<1>2. CASE ResetPort
  <2>1. stage = "port" /\ port + 1 \in DOMAIN bus /\ UNCHANGED <<target, endpoint, abandoned>>
        /\ Wired(bus)
    BY <1>2 DEF ResetPort, EnumInv
  <2>2. ~abandoned => target = 1 /\ HubAlone(bus)
    BY <2>1 DEF EnumInv, Enumerating
  <2>3. CASE UNCHANGED bus /\ stage' = "port"
    BY <2>1, <2>2, <2>3 DEF EnumInv, Enumerating
  <2>4. CASE bus' = Fresh(port + 1) /\ stage' = "port status" /\ UNCHANGED port
    <3>1. /\ Wired(bus') /\ DOMAIN bus' = DOMAIN bus
          /\ bus'[port + 1].live /\ bus'[port + 1].address = 0
          /\ \A e \in DOMAIN bus : e # port + 1 => bus'[e] = bus[e]
      BY <2>1, <2>4, FreshIs
    <3>2. ~abandoned => \A d \in DOMAIN bus' : d # port + 1 /\ bus'[d].live => bus'[d].address = 1
      BY <2>2, <3>1 DEF HubAlone
    <3>3. EnumInv => target \in Nat
      BY DEF EnumInv
    <3> QED BY <2>1, <2>2, <2>4, <3>1, <3>2, <3>3 DEF EnumInv, Enumerating
  <2> QED BY <1>2, <2>3, <2>4 DEF ResetPort, NextPort
<1>3. CASE PortStatus
  <2>1. stage = "port status" /\ UNCHANGED endpoint /\ Wired(bus)
    BY <1>3 DEF PortStatus, EnumInv
  <2>2. ~abandoned =>
          /\ target = 1 /\ port + 1 \in DOMAIN bus /\ bus[port + 1].live /\ bus[port + 1].address = 0
          /\ \A d \in DOMAIN bus : d # port + 1 /\ bus[d].live => bus[d].address = 1
    BY <2>1 DEF EnumInv, Enumerating
  <2>3. CASE stage' = "header" /\ target' = 2 /\ UNCHANGED <<bus, port, abandoned>>
    <3>1. ~abandoned => Only(bus, port + 1, 2)
      BY <2>2 DEF Only
    <3> QED BY <2>1, <2>2, <2>3, <3>1 DEF EnumInv, Enumerating
  <2>4. CASE stage' = "port" /\ abandoned' = TRUE /\ UNCHANGED bus
    BY <1>3, <2>1, <2>4 DEF PortStatus, EnumInv
  <2>5. CASE stage' = "port" /\ bus' = [bus EXCEPT ![port + 1].live = FALSE]
             /\ UNCHANGED <<target, abandoned>>
    <3>1. CASE port + 1 \in DOMAIN bus
      <4>1. /\ Wired(bus') /\ DOMAIN bus' = DOMAIN bus /\ ~bus'[port + 1].live
            /\ \A e \in DOMAIN bus : e # port + 1 => bus'[e] = bus[e]
        BY <2>1, <2>5, <3>1, DeadIs
      <4>2. ~abandoned => HubAlone(bus')
        BY <2>2, <4>1 DEF HubAlone
      <4> QED BY <2>2, <2>5, <4>1, <4>2 DEF EnumInv, Enumerating
    <3>2. CASE port + 1 \notin DOMAIN bus
      <4>1. bus' = bus
        BY <2>1, <2>5, <3>2 DEF Wired
      <4>2. abandoned
        BY <2>2, <3>2
      <4> QED BY <2>1, <2>5, <4>1, <4>2 DEF EnumInv
    <3> QED BY <3>1, <3>2
  <2> QED BY <1>3, <2>3, <2>4, <2>5 DEF PortStatus, NextPort
<1> QED BY <1>1, <1>2, <1>3

\* The keyboard is told to configure itself,
LEMMA ConfigureHolds ==
    ASSUME EnumInv, Configure
    PROVE  EnumInv'
<1> DEFINE f == Told(target, "configured")
<1>1. stage = "configure" /\ UNCHANGED <<target, port, endpoint, abandoned>>
      /\ ControlRequest(target, f, "protocol") /\ Wired(bus) /\ target \in Nat
  BY DEF Configure, EnumInv
<1>2. /\ Wired(f) /\ DOMAIN f = DOMAIN bus
      /\ \A d \in DOMAIN bus :
            /\ f[d].is = bus[d].is /\ f[d].config = bus[d].config
            /\ f[d].live = bus[d].live /\ f[d].address = bus[d].address
            /\ f[d].at = IF d \in Answering(target) THEN "configured" ELSE bus[d].at
  <2>1. "configured" \in UsbStates
    BY DEF UsbStates
  <2> QED BY <1>1, <2>1, ToldIs
<1> HIDE DEF f
<1>3. /\ Wired(bus')
      /\ stage' # "disabled" => stage' = "protocol" /\ bus' = f
  BY <1>1, <1>2, RequestIs
<1>4. CASE stage' = "disabled" \/ abandoned
  BY <1>1, <1>3, <1>4, DisabledHolds DEF EnumInv
<1>5. CASE stage' # "disabled" /\ ~abandoned
  <2>1. PICK k \in DOMAIN bus :
             /\ Only(bus, k, target) /\ bus[k].address = target /\ bus[k].is # "hub"
             /\ Chosen(bus[k].config, endpoint)
    BY <1>1, <1>5 DEF EnumInv, Enumerating
  <2>2. target \in {1, 2}
    BY <1>1, <1>5 DEF EnumInv, Enumerating
  <2>3. Answering(target) = {k}
    BY <2>1, <2>2, OnlyAnswers
  <2>4. f[k].at = "configured" /\ f[k].address = target /\ f[k].is # "hub"
        /\ Chosen(f[k].config, endpoint)
    BY <1>2, <2>1, <2>3
  <2>5. Only(f, k, target)
    BY <1>2, <2>1 DEF Only
  <2> QED BY <1>1, <1>2, <1>3, <1>5, <2>2, <2>4, <2>5 DEF EnumInv, Enumerating
<1> QED BY <1>4, <1>5

\* and to speak the boot protocol.
LEMMA ProtocolHolds ==
    ASSUME EnumInv, SetProtocol
    PROVE  EnumInv'
<1> DEFINE f == [d \in DOMAIN bus |->
                   IF d \in Answering(target) THEN [bus[d] EXCEPT !.boot = TRUE] ELSE bus[d]]
<1>1. stage = "protocol" /\ UNCHANGED <<target, port, endpoint, abandoned>>
      /\ ControlRequest(target, f, "idle") /\ Wired(bus) /\ target \in Nat
  BY DEF SetProtocol, EnumInv
<1>2. f = [d \in DOMAIN bus |-> f[d]] /\ DOMAIN f = DOMAIN bus
      /\ \A d \in DOMAIN bus :
            f[d] = IF d \in Answering(target) THEN [bus[d] EXCEPT !.boot = TRUE] ELSE bus[d]
  OBVIOUS
<1> HIDE DEF f
<1>3. ASSUME NEW d \in DOMAIN bus
      PROVE  /\ f[d] \in UsbDevices
             /\ f[d].is = bus[d].is /\ f[d].config = bus[d].config
             /\ f[d].live = bus[d].live /\ f[d].address = bus[d].address
             /\ f[d].at = bus[d].at
             /\ d \in Answering(target) => f[d].boot
  <2>1. bus[d] \in UsbDevices
    BY <1>1 DEF Wired, Plausible
  <2>2. CASE d \in Answering(target)
    BY <1>2, <2>1, <2>2, BootSet
  <2>3. CASE d \notin Answering(target)
    BY <1>2, <2>1, <2>3
  <2> QED BY <2>2, <2>3
<1>4. Wired(f)
  <2>1. \A d \in DOMAIN bus : f[d] \in UsbDevices /\ f[d].is = bus[d].is /\ f[d].config = bus[d].config
    BY <1>3
  <2> QED BY <1>1, <1>2, <2>1, Rewired
<1>5. /\ Wired(bus')
      /\ stage' # "disabled" => stage' = "idle" /\ bus' = f
  BY <1>1, <1>4, RequestIs
<1>6. CASE stage' = "disabled" \/ abandoned
  BY <1>1, <1>5, <1>6, DisabledHolds DEF EnumInv
<1>7. CASE stage' # "disabled" /\ ~abandoned
  <2>1. PICK k \in DOMAIN bus :
             /\ Only(bus, k, target) /\ bus[k].address = target /\ bus[k].is # "hub"
             /\ Chosen(bus[k].config, endpoint) /\ bus[k].at = "configured"
    BY <1>1, <1>7 DEF EnumInv, Enumerating
  <2>2. target \in {1, 2}
    BY <1>1, <1>7 DEF EnumInv, Enumerating
  <2>3. Answering(target) = {k}
    BY <2>1, <2>2, OnlyAnswers
  <2>4. f[k].boot /\ f[k].at = "configured" /\ f[k].address = target /\ f[k].is # "hub"
        /\ Chosen(f[k].config, endpoint)
    BY <1>3, <2>1, <2>3
  <2>5. Only(f, k, target)
    BY <1>2, <1>3, <2>1 DEF Only
  <2> QED BY <1>1, <1>2, <1>5, <1>7, <2>2, <2>4, <2>5 DEF EnumInv, Enumerating
<1> QED BY <1>6, <1>7

\* Nobody answers before the root port is reset.
LEMMA EnumInitHold == UsbInit => EnumInv
<1> SUFFICES ASSUME UsbInit PROVE EnumInv
  OBVIOUS
<1>1. /\ bus \in Seq(UsbDevices)
      /\ \A d \in DOMAIN bus :
            /\ ~bus[d].live
            /\ \A i \in DOMAIN bus[d].config :
                  bus[d].config[i].type = "interface" =>
                     /\ bus[d].config[i].boot => bus[d].config[i].hid
                     /\ bus[d].is = "hub" => ~bus[d].config[i].hid
  BY UsbConstants DEF UsbInit, UsbConstants
<1>2. \A d \in DOMAIN bus : Plausible(bus[d])
  BY <1>1 DEF Plausible
<1>3. bus = [d \in DOMAIN bus |-> bus[d]] /\ (bus = <<>> \/ 1 \in DOMAIN bus)
  BY <1>1
<1>4. stage = "core" /\ target = 0
  BY DEF UsbInit
<1> QED BY <1>1, <1>2, <1>3, <1>4 DEF EnumInv, Wired, Enumerating

\* Every step keeps the enumeration right.
LEMMA EnumStepHold == EnumInv /\ [UsbNext]_usbVars => EnumInv'
<1> SUFFICES ASSUME EnumInv, [UsbNext]_usbVars PROVE EnumInv'
  OBVIOUS
<1>1. CASE UNCHANGED enumerationVars
  BY <1>1 DEF EnumInv, enumerationVars
<1>2. CASE Enumerate
  BY <1>2, RootHolds, ReadHolds, AddressHolds, ConfigurationHolds, HubHolds, PortHolds,
     ConfigureHolds, ProtocolHolds DEF Enumerate
<1>3. CASE stage' = "disabled" /\ UNCHANGED <<bus, target, port, endpoint, abandoned>>
  BY <1>3, DisabledHolds DEF EnumInv
<1>4. CASE Poll \/ PollFails
  BY <1>1, <1>3, <1>4 DEF Poll, PollFails, enumerationVars
<1>5. CASE ChangeAlt \/ TakeCloseRequest \/ UNCHANGED usbVars
  BY <1>1, <1>5 DEF ChangeAlt, TakeCloseRequest, usbVars
<1>6. ASSUME NEW u \in Usages, HoldKey(u) \/ ReleaseKey(u) PROVE EnumInv'
  BY <1>1, <1>6 DEF HoldKey, ReleaseKey
<1> QED BY <1>2, <1>4, <1>5, <1>6 DEF UsbNext

\* What the driver reports ready is the keyboard it found.
LEMMA ReadyIs == EnumInv => UsbReadyTrue
<1> SUFFICES ASSUME EnumInv, stage = "ready", ~abandoned
             PROVE  \E d \in DOMAIN bus :
                       /\ Answering(target) = {d}
                       /\ bus[d].at = "configured" /\ bus[d].boot /\ bus[d].is # "hub"
                       /\ Chosen(bus[d].config, endpoint)
  BY DEF UsbReadyTrue, Chosen
<1>1. target \in {1, 2} /\ \E k \in DOMAIN bus :
         /\ Only(bus, k, target) /\ bus[k].address = target /\ bus[k].is # "hub"
         /\ Chosen(bus[k].config, endpoint) /\ bus[k].at = "configured" /\ bus[k].boot
  BY DEF EnumInv, Enumerating
<1> QED BY <1>1, OnlyAnswers

\* The invariant holds, for any devices with any configurations behind any
\* number of ports, any keys and any faults.
THEOREM UsbInvariant == UsbSpec => []UsbInv
<1>1. UsbInit => UsbInv
  BY EnumInitHold, KeysInitHold DEF UsbInv
<1>2. UsbInv /\ [UsbNext]_usbVars => UsbInv'
  BY EnumStepHold, KeysStepHold DEF UsbInv
<1> QED BY <1>1, <1>2, PTL DEF UsbSpec

\* If no port was given up after its reset, a keyboard that is reported ready
\* answers alone at its address, is configured, speaks the boot protocol and has
\* the endpoint that is polled.  Of every key the presses handled are those
\* made, less those that no report told of or that are still due, and once more
\* after too many keys (platforms/raspi3b/input/input.c).
THEOREM UsbIsTrue == UsbSpec => []UsbTrue
<1>1. UsbInv => UsbTrue
  BY ReadyIs, KeysCome DEF UsbInv, UsbTrue
<1> QED BY <1>1, UsbInvariant, PTL
=============================================================================
