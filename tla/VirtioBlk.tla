------------------------------ MODULE VirtioBlk ------------------------------
(***************************************************************************)
(* The block driver of the QEMU board (platforms/qemu/fs/virtio_blk.c and  *)
(* block.c) and its device.  Every request uses the same header, status    *)
(* byte and three descriptors; the driver waits for the used index to      *)
(* move, and gives up after a while without taking the request back.  The  *)
(* device fetches, transfers and completes at any time, an abandoned       *)
(* request as well.                                                        *)
(***************************************************************************)
EXTENDS Integers, Sequences, SequencesExt

CONSTANTS SectorCount, SlotCount, \* sectors of the disk; sectors of memory
          BlkValues,                 \* what a sector holds
          IndexModulus,           \* 2^16, the range of a ring's index
          Boards,                 \* what may be in the board's device slots
          QueueSize,              \* VIRTIO_BLK_QUEUE_SIZE
          MaxTimeouts             \* bound on requests that are given up

ASSUME BlkConstants ==
    /\ SectorCount \in Nat /\ SlotCount \in Nat /\ MaxTimeouts \in Nat
    /\ IndexModulus \in Nat \ {0, 1}

VARIABLES disk, memory,
          board,       \* the devices: [kind, version, queue, version1, agrees]
          blkReady,    \* virtio_blk_init has set the device up
          request,     \* virtio_blk_req and the descriptors: the shared request
          statusByte,  \* virtio_blk_status
          avail, used, \* the indices of the two rings
          before,      \* used_index_before
          fetched,     \* the device's own index into the available ring
          inFlight,    \* what the device is working on, in order of fetching
          driver,      \* where virtio_blk_request is
          call, done,  \* the block_read or block_write, sectors of it done
          answer, timeouts,
          clean, diskBefore, memoryBefore  \* history: the call's beginning

blkDriverVars == <<board, blkReady, request, avail, before, driver>>
blkDeviceVars == <<fetched, inFlight, used>>
blkCallVars == <<call, done, answer, clean, diskBefore, memoryBefore>>
blkVars == <<disk, memory, statusByte, timeouts, blkDriverVars, blkDeviceVars, blkCallVars>>

Sectors == 0..(SectorCount - 1)
Slots == 0..(SlotCount - 1)
Increment(index) == (index + 1) % IndexModulus

BlkCalls == {c \in [op : {"read", "write"}, sector : Sectors, slot : Slots,
                 count : 1..SectorCount] :
            /\ c.sector + c.count <= SectorCount
            /\ c.slot + c.count <= SlotCount}
NoRequest == [type |-> "read", sector |-> 0, slot |-> 0, direction |-> "read"]

\* Requests that the driver has published and the device not completed.
Outstanding == avail # used

-----------------------------------------------------------------------------
\* Both indices of the queue that will be set up are 0.
BlkBegins(sectors, slots, devices) ==
    /\ disk = sectors /\ memory = slots /\ board = devices /\ blkReady = FALSE
    /\ request = NoRequest /\ statusByte = "none"
    /\ avail = 0 /\ used = 0 /\ before = 0 /\ fetched = 0 /\ inFlight = <<>>
    /\ driver = "idle" /\ done = 0 /\ answer = "none" /\ timeouts = 0
    /\ call = [op |-> "none"] /\ clean = TRUE
    /\ diskBefore = disk /\ memoryBefore = memory

BlkInit ==
    \E sectors \in [Sectors -> BlkValues], slots \in [Slots -> BlkValues],
       devices \in Boards : BlkBegins(sectors, slots, devices)

\* The file system fills a buffer.
FillSlot(slot, value) ==
    /\ driver = "idle" /\ memory[slot] # value
    /\ memory' = [memory EXCEPT ![slot] = value]
    /\ answer' = "none" /\ call' = [op |-> "none"] /\ done' = 0
    /\ memoryBefore' = memory' /\ diskBefore' = disk
    /\ UNCHANGED <<disk, statusByte, timeouts, clean, blkDriverVars, blkDeviceVars>>

\* block_read or block_write
StartCall(c) ==
    /\ driver = "idle"
    /\ call' = c /\ done' = 0 /\ answer' = "none"
    /\ clean' = ~Outstanding /\ diskBefore' = disk /\ memoryBefore' = memory
    /\ driver' = "header"
    /\ UNCHANGED <<disk, memory, board, blkReady, statusByte, timeouts, request, avail,
                   before, blkDeviceVars>>

\* virtio_blk_find_device takes the first block device, whatever it is.
BlockDevice == {i \in DOMAIN board :
                  /\ board[i].kind = "block"
                  /\ \A j \in 1..(i - 1) : board[j].kind # "block"}

\* virtio_blk_init needs a version it knows, a queue that is long enough, and
\* of a modern device that it offers version 1 and accepts the answer.
Usable(device) ==
    /\ device.version \in {1, 2} /\ device.queue >= QueueSize
    /\ device.version = 2 => device.version1 /\ device.agrees

\* Without a device that it can set up every request fails.
NoDevice ==
    /\ driver = "header" /\ ~blkReady
    /\ \A i \in BlockDevice : ~Usable(board[i])
    /\ answer' = "error" /\ driver' = "idle"
    /\ UNCHANGED <<disk, memory, board, blkReady, statusByte, timeouts, request, avail,
                   before, done, call, clean, diskBefore, memoryBefore, blkDeviceVars>>

\* The first request sets the device up, in each the one header and status
\* byte are written,
SetHeader ==
    /\ driver = "header"
    /\ blkReady \/ \E i \in BlockDevice : Usable(board[i])
    /\ blkReady' = TRUE
    /\ statusByte' = "unset"
    /\ request' = [request EXCEPT !.type = call.op, !.sector = call.sector + done]
    /\ driver' = "descriptors"
    /\ UNCHANGED <<disk, memory, board, timeouts, avail, before, blkDeviceVars,
                   blkCallVars>>

\* then the descriptor of the buffer, and the used index is remembered.
SetDescriptors ==
    /\ driver = "descriptors"
    /\ request' = [request EXCEPT !.slot = call.slot + done,
                                    !.direction = call.op]
    /\ before' = used
    /\ driver' = "publish"
    /\ UNCHANGED <<disk, memory, board, blkReady, statusByte, timeouts, avail,
                   blkDeviceVars, blkCallVars>>

\* The available index moves and the device is notified.
Publish ==
    /\ driver = "publish"
    /\ avail' = Increment(avail)
    /\ driver' = "wait"
    /\ UNCHANGED <<disk, memory, board, blkReady, statusByte, timeouts, request,
                   before, blkDeviceVars, blkCallVars>>

Answer(result) ==
    /\ answer' = result /\ driver' = "idle"
    /\ UNCHANGED <<call, clean, diskBefore, memoryBefore>>

\* Mutant: the loop of block_write runs once too often.
FinishSectorOneMore ==
    /\ driver = "wait" /\ used # before
    /\ IF statusByte # "ok" THEN Answer("error") /\ UNCHANGED done
       ELSE /\ done' = done + 1
            /\ IF \/ done' > call.count
                  \/ call.sector + done' >= SectorCount
                  \/ call.slot + done' >= SlotCount
               THEN Answer("ok")
               ELSE /\ driver' = "header"
                    /\ UNCHANGED <<call, answer, clean, diskBefore, memoryBefore>>
    /\ UNCHANGED <<disk, memory, board, blkReady, statusByte, timeouts, request, avail,
                   before, blkDeviceVars>>

\* The used index has moved: the status byte tells how the request ended; an
\* error ends the call, else the next sector follows.
FinishSector ==
    /\ driver = "wait" /\ used # before
    /\ IF statusByte # "ok" THEN Answer("error") /\ UNCHANGED done
       ELSE /\ done' = done + 1
            /\ IF done' = call.count THEN Answer("ok")
               ELSE /\ driver' = "header"
                    /\ UNCHANGED <<call, answer, clean, diskBefore, memoryBefore>>
    /\ UNCHANGED <<disk, memory, board, blkReady, statusByte, timeouts, request, avail,
                   before, blkDeviceVars>>

\* The counter reaches 0 with the index where it was; the device keeps the
\* request.
GiveUp ==
    /\ driver = "wait" /\ timeouts < MaxTimeouts
    /\ timeouts' = timeouts + 1
    /\ Answer("error")
    /\ UNCHANGED <<disk, memory, board, blkReady, statusByte, done, request, avail,
                   before, blkDeviceVars>>

-----------------------------------------------------------------------------
\* The device reads the header and the descriptors as they are now.
Fetch ==
    /\ fetched # avail
    /\ fetched' = Increment(fetched)
    /\ inFlight' = Append(inFlight, [what |-> request, progress |-> "fetched"])
    /\ UNCHANGED <<disk, memory, statusByte, timeouts, blkDriverVars, used, blkCallVars>>

InStage(i, progress) == i \in DOMAIN inFlight /\ inFlight[i].progress = progress
Goes(i, progress) == inFlight' = [inFlight EXCEPT ![i].progress = progress]

\* A header that does not go with the flags of its descriptors only fails.
Transfer(i) ==
    /\ InStage(i, "fetched")
    /\ LET r == inFlight[i].what
       IN  /\ r.type = r.direction
           /\ IF r.type = "read"
              THEN memory' = [memory EXCEPT ![r.slot] = disk[r.sector]] /\ UNCHANGED disk
              ELSE disk' = [disk EXCEPT ![r.sector] = memory[r.slot]] /\ UNCHANGED memory
    /\ Goes(i, "ok")
    /\ UNCHANGED <<statusByte, timeouts, blkDriverVars, fetched, used, blkCallVars>>

FailTransfer(i) ==
    /\ InStage(i, "fetched")
    /\ Goes(i, "error")
    /\ UNCHANGED <<disk, memory, statusByte, timeouts, blkDriverVars, fetched, used, blkCallVars>>

WriteStatus(i) ==
    /\ i \in DOMAIN inFlight /\ inFlight[i].progress \in {"ok", "error"}
    /\ statusByte' = inFlight[i].progress
    /\ Goes(i, "status")
    /\ UNCHANGED <<disk, memory, timeouts, blkDriverVars, fetched, used, blkCallVars>>

PushUsed(i) ==
    /\ InStage(i, "status")
    /\ used' = Increment(used)
    /\ inFlight' = RemoveAt(inFlight, i)
    /\ UNCHANGED <<disk, memory, statusByte, timeouts, blkDriverVars, fetched, blkCallVars>>

BlkNext ==
    \/ \E slot \in Slots, value \in BlkValues : FillSlot(slot, value)
    \/ \E c \in BlkCalls : StartCall(c)
    \/ NoDevice \/ SetHeader \/ SetDescriptors \/ Publish \/ FinishSector \/ GiveUp
    \/ Fetch
    \/ \E i \in 1..(MaxTimeouts + 1) :
         Transfer(i) \/ FailTransfer(i) \/ WriteStatus(i) \/ PushUsed(i)

BlkSpec == BlkInit /\ [][BlkNext]_blkVars

-----------------------------------------------------------------------------
Moved == 0..(call.count - 1)

\* A call that begins while no abandoned request is out and answers with
\* success has moved all its sectors (virtio_blk_request): also after earlier
\* requests were given up, as soon as the device has caught up with them.
OkMeansTransferred ==
    answer = "ok" /\ clean =>
        \A i \in Moved :
            IF call.op = "read"
            THEN memory[call.slot + i] = diskBefore[call.sector + i]
            ELSE disk[call.sector + i] = memoryBefore[call.slot + i]

\* Whatever its answer, and while it runs, such a call changes nothing but the
\* sectors it was asked to write or the part of memory it was asked to fill.
OthersUntouched ==
    clean /\ call.op # "none" =>
        /\ \A s \in Sectors : disk[s] # diskBefore[s] =>
              call.op = "write" /\ s - call.sector \in Moved
        /\ \A b \in Slots : memory[b] # memoryBefore[b] =>
              call.op = "read" /\ b - call.slot \in Moved

\* A call transfers the sectors it says, and no others.
BlkTrue == OkMeansTransferred /\ OthersUntouched
=============================================================================
