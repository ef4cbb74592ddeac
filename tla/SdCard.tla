-------------------------------- MODULE SdCard --------------------------------
(***************************************************************************)
(* The block driver of the Raspberry Pi board (platforms/raspi3b/fs/sd.c   *)
(* and block.c) and the card behind it: the walk of sd_init from command   *)
(* to command, and the transfers, one sector at a time.  Any command may   *)
(* be lost on its way, or its answer on the way back; a transfer may fail  *)
(* half way and leave the data line busy.                                  *)
(***************************************************************************)
EXTENDS Integers

CONSTANTS CardSectors, CardSlots, \* sectors of the card; sectors of memory
          CardValues,             \* what a sector holds
          BlockBytes,             \* SD_BLOCK_SIZE
          Addresses,              \* the relative addresses a card may take
          MaxCardFaults           \* bound on the faults

ASSUME CardConstants ==
    /\ CardSectors \in Nat \ {0} /\ CardSlots \in Nat /\ MaxCardFaults \in Nat
    /\ BlockBytes \in Nat \ {0, 1}
    /\ Addresses \subseteq Nat \ {0}

VARIABLES card,      \* its kind, state, address, block length and sectors
          line,      \* the data line: free, or busy since a transfer failed
          statics,   \* sd_ready, sd_high_capacity, sd_rca, sd_capacity_sectors
          buffer,    \* the memory that calls transfer from and to
          sdCall,    \* the call that runs: block_init, block_read, block_write
          sdStep,    \* the command sd_init or the transfer sends next
          sdDone,    \* sectors of the call done
          sdAnswer,
          cardFaults,
          sdBefore   \* history: the card's sectors and memory at the call

sdVars == <<card, line, statics, buffer, sdCall, sdStep, sdDone, sdAnswer,
            cardFaults, sdBefore>>

CardSectorSet == 0..(CardSectors - 1)
CardSlotSet == 0..(CardSlots - 1)

SdCalls == {c \in [op : {"read", "write"}, sector : CardSectorSet,
                   slot : CardSlotSet, count : 1..CardSectors] :
              /\ c.sector + c.count <= CardSectors
              /\ c.slot + c.count <= CardSlots}

-----------------------------------------------------------------------------
(* The card. *)

\* What a command does to the card, and no answer at all (an empty set) when
\* it is not legal in the card's state or meant for another address.
Reactions(c, command, argument) ==
    LET goes(state) == {[c EXCEPT !.state = state]}
        mine == argument = c.address
    IN  CASE command = "CMD0"   -> {[c EXCEPT !.state = "idle", !.address = 0,
                                              !.blockBytes = c.defaultBytes]}
          [] command = "CMD8"   -> IF c.state = "idle" THEN {c} ELSE {}
          [] command = "CMD55"  -> IF mine THEN {c} ELSE {}
          [] command = "ACMD41" -> IF c.state = "idle" THEN {c} \union goes("ready") ELSE {}
          [] command = "CMD2"   -> IF c.state = "ready" THEN goes("ident") ELSE {}
          [] command = "CMD3"   -> IF c.state = "ident"
                                   THEN {[c EXCEPT !.state = "standby", !.address = a] :
                                           a \in Addresses}
                                   ELSE {}
          [] command = "CMD9"   -> IF c.state = "standby" /\ mine THEN {c} ELSE {}
          [] command = "CMD7"   -> IF c.state = "standby" /\ mine THEN goes("transfer") ELSE {}
          [] command = "CMD16"  -> IF c.state = "transfer"
                                   THEN {[c EXCEPT !.blockBytes = argument]} ELSE {}
          [] OTHER              -> IF c.state = "transfer" THEN goes("data") ELSE {}

\* The sector that a data command's argument names on this card.
SectorAt(argument) ==
    IF card.kind = "high" THEN argument
    ELSE IF argument % BlockBytes = 0 THEN argument \div BlockBytes ELSE -1

-----------------------------------------------------------------------------
SdBegins(kind, default, sectors, slots) ==
    /\ card = [kind |-> kind, state |-> "idle", address |-> 0, blockBytes |-> default,
               defaultBytes |-> default, sectors |-> sectors]
    /\ line = "free" /\ buffer = slots
    /\ statics = [ready |-> FALSE, highCapacity |-> FALSE, rca |-> 0, capacity |-> 0]
    /\ sdCall = [op |-> "none"] /\ sdStep = "idle" /\ sdDone = 0
    /\ sdAnswer = "none" /\ cardFaults = 0
    /\ sdBefore = [sectors |-> sectors, buffer |-> slots]

\* A standard card may be set to blocks of another length.
SdInit ==
    \E form \in {<<"high", BlockBytes>>} \union ({"standard"} \X {BlockBytes, 2 * BlockBytes}),
       sectors \in [CardSectorSet -> CardValues], slots \in [CardSlotSet -> CardValues] :
         SdBegins(form[1], form[2], sectors, slots)

SdFillSlot(slot, value) ==
    /\ sdStep = "idle" /\ buffer[slot] # value
    /\ buffer' = [buffer EXCEPT ![slot] = value]
    /\ sdCall' = [op |-> "none"] /\ sdAnswer' = "none" /\ sdDone' = 0
    /\ sdBefore' = [sectors |-> card.sectors, buffer |-> buffer']
    /\ UNCHANGED <<card, line, statics, sdStep, cardFaults>>

\* Every sector of a call begins with sd_init, which returns at once when the
\* card is ready and else starts from the reset.
FirstStep == IF statics.ready THEN "transfer" ELSE "CMD0"

\* block_init, block_read, block_write
SdStart(c) ==
    /\ sdStep = "idle"
    /\ sdCall' = c /\ sdDone' = 0
    /\ sdBefore' = [sectors |-> card.sectors, buffer |-> buffer]
    /\ IF c.op = "init" /\ statics.ready
       THEN sdAnswer' = "ok" /\ sdStep' = "idle"
       ELSE sdAnswer' = "none" /\ sdStep' = FirstStep
    /\ UNCHANGED <<card, line, statics, buffer, cardFaults>>

SdReply(answer) == sdAnswer' = answer /\ sdStep' = "idle"
SdFails == SdReply("error") /\ UNCHANGED statics

\* No card, a host that does not leave its reset, a clock that never gets
\* stable, or a data line that stays busy after CMD7.
SdGivesUp ==
    /\ cardFaults < MaxCardFaults /\ sdStep \in {"CMD0", "CMD7"}
    /\ cardFaults' = cardFaults + 1
    /\ SdFails
    /\ UNCHANGED <<card, line, buffer, sdCall, sdDone, sdBefore>>

\* What sd_init sends with a command: CMD55 goes to the address of the card
\* that was found last, and a card that was reset has none.
Argument(step) ==
    IF step \in {"CMD55", "CMD9", "CMD7"} THEN statics.rca
    ELSE IF step = "CMD16" THEN BlockBytes ELSE 0

\* Where sd_init goes when a command was answered, and what it notes.
AfterCommand(reply) ==
    LET next(step) == sdStep' = step /\ UNCHANGED sdAnswer
        isReady == IF sdCall.op = "init" THEN SdReply("ok") ELSE next("transfer")
        become(s) == statics' = s
    IN  CASE sdStep = "CMD0"   -> next("CMD8") /\ become(statics)
          [] sdStep = "CMD8"   -> next("CMD55") /\ become(statics)
          [] sdStep = "CMD55"  -> next("ACMD41") /\ become(statics)
          [] sdStep = "ACMD41" ->
               IF reply.state = "ready"
               THEN /\ next("CMD2")
                    /\ become([statics EXCEPT !.highCapacity = (reply.kind = "high")])
               ELSE next("CMD55") /\ become(statics)
          [] sdStep = "CMD2"   -> next("CMD3") /\ become(statics)
          [] sdStep = "CMD3"   -> next("CMD9") /\ become([statics EXCEPT !.rca = reply.address])
          [] sdStep = "CMD9"   -> next("CMD7") /\ become([statics EXCEPT !.capacity = CardSectors])
          [] sdStep = "CMD7"   -> IF statics.highCapacity
                                  THEN isReady /\ become([statics EXCEPT !.ready = TRUE])
                                  ELSE next("CMD16") /\ become(statics)
          [] OTHER             -> isReady /\ become([statics EXCEPT !.ready = TRUE])

\* Mutant: a card that has not answered CMD16 is used as it is.
AfterSilenceGoesOn ==
    IF sdStep = "CMD16"
    THEN /\ statics' = [statics EXCEPT !.ready = TRUE]
         /\ IF sdCall.op = "init" THEN SdReply("ok")
            ELSE sdStep' = "transfer" /\ UNCHANGED sdAnswer
    ELSE SdFails

\* A command without an answer, or answered with an error, ends sd_init.
AfterSilence == SdFails

\* One command of sd_init.  It arrives and is answered, or it is not legal,
\* or it is lost, or its answer is lost: without an answer sd_init ends.
InitCommand ==
    /\ sdStep \notin {"idle", "transfer", "data"}
    /\ LET reactions == Reactions(card, sdStep, Argument(sdStep)) IN
       \/ \E reply \in reactions :
            card' = reply /\ AfterCommand(reply) /\ UNCHANGED cardFaults
       \/ /\ reactions = {}
          /\ AfterSilence /\ UNCHANGED <<card, cardFaults>>
       \/ /\ cardFaults < MaxCardFaults /\ cardFaults' = cardFaults + 1
          /\ card' \in reactions \union {card}
          /\ AfterSilence
    /\ UNCHANGED <<line, buffer, sdCall, sdDone, sdBefore>>

\* sector_argument
SectorArgument(sector) ==
    IF statics.highCapacity THEN sector ELSE sector * BlockBytes

\* CMD17 or CMD24: it waits for the data line, and starts the transfer.
DataCommand ==
    /\ sdStep = "transfer"
    /\ LET command == IF sdCall.op = "read" THEN "CMD17" ELSE "CMD24"
           sector == SectorAt(SectorArgument(sdCall.sector + sdDone))
           legal == /\ sector \in CardSectorSet /\ card.blockBytes = BlockBytes
                    /\ Reactions(card, command, 0) # {}
       IN  \/ /\ line = "free" /\ legal
              /\ sdStep' = "data" /\ card' = [card EXCEPT !.state = "data"]
              /\ UNCHANGED <<sdAnswer, line, cardFaults>>
           \/ /\ line = "busy" \/ ~legal
              /\ SdReply("error")
              /\ UNCHANGED <<card, line, cardFaults>>
           \/ /\ line = "free" /\ cardFaults < MaxCardFaults
              /\ cardFaults' = cardFaults + 1
              /\ SdReply("error")
              /\ \/ UNCHANGED <<card, line>>
                 \/ legal /\ card' = [card EXCEPT !.state = "data"] /\ line' = "busy"
    /\ UNCHANGED <<statics, buffer, sdCall, sdDone, sdBefore>>

\* The sector has been moved: the call goes on with the next one.
DataDone ==
    LET sector == SectorAt(SectorArgument(sdCall.sector + sdDone))
        slot == sdCall.slot + sdDone
    IN  /\ sdStep = "data"
        /\ IF sdCall.op = "read"
           THEN /\ buffer' = [buffer EXCEPT ![slot] = card.sectors[sector]]
                /\ card' = [card EXCEPT !.state = "transfer"]
           ELSE /\ card' = [card EXCEPT !.state = "transfer",
                                          !.sectors[sector] = buffer[slot]]
                /\ UNCHANGED buffer
        /\ sdDone' = sdDone + 1
        /\ IF sdDone' = sdCall.count THEN SdReply("ok")
           ELSE sdStep' = FirstStep /\ UNCHANGED sdAnswer
        /\ UNCHANGED <<line, statics, sdCall, cardFaults, sdBefore>>

\* The transfer fails: part of the sector may have been moved, and the card
\* and the data line are left as they are.
DataFails ==
    LET sector == SectorAt(SectorArgument(sdCall.sector + sdDone))
        slot == sdCall.slot + sdDone
    IN  /\ sdStep = "data" /\ cardFaults < MaxCardFaults
        /\ cardFaults' = cardFaults + 1
        /\ IF sdCall.op = "read"
           THEN /\ \E value \in CardValues : buffer' = [buffer EXCEPT ![slot] = value]
                /\ UNCHANGED card
           ELSE /\ \E value \in CardValues : card' = [card EXCEPT !.sectors[sector] = value]
                /\ UNCHANGED buffer
        /\ line' = "busy"
        /\ SdReply("error")
        /\ UNCHANGED <<statics, sdCall, sdDone, sdBefore>>

\* The card or the host may get over a failed transfer by themselves.
CardRecovers ==
    /\ card.state = "data" /\ sdStep # "data"
    /\ card' = [card EXCEPT !.state = "transfer"]
    /\ UNCHANGED <<line, statics, buffer, sdCall, sdStep, sdDone, sdAnswer,
                   cardFaults, sdBefore>>

LineRecovers ==
    /\ line = "busy"
    /\ line' = "free"
    /\ UNCHANGED <<card, statics, buffer, sdCall, sdStep, sdDone, sdAnswer,
                   cardFaults, sdBefore>>

SdNext ==
    \/ \E slot \in CardSlotSet, value \in CardValues : SdFillSlot(slot, value)
    \/ \E c \in SdCalls \union {[op |-> "init"]} : SdStart(c)
    \/ SdGivesUp \/ InitCommand \/ DataCommand \/ DataDone \/ DataFails
    \/ CardRecovers \/ LineRecovers

SdSpec == SdInit /\ [][SdNext]_sdVars

-----------------------------------------------------------------------------
SdMoved == 0..(sdCall.count - 1)

\* sd.c:363, "Do not report a usable disk until its capacity was read
\* successfully", and the rest of what the transfers rely on, in every order
\* of failed and repeated starts: a card that is reported ready is selected
\* under the address the driver holds, its addressing, size and block length
\* are known.  A call that succeeds has then moved all its sectors, and any
\* call, also one that fails, leaves the other sectors and the rest of the
\* memory alone (sd_init, block_read, block_write).
SdTrue ==
    /\ statics.ready =>
          /\ card.state \in {"transfer", "data"} /\ card.address = statics.rca
          /\ statics.highCapacity = (card.kind = "high")
          /\ statics.capacity = CardSectors /\ card.blockBytes = BlockBytes
    /\ sdAnswer = "ok" /\ sdCall.op # "init" =>
          \A i \in SdMoved :
             IF sdCall.op = "read"
             THEN buffer[sdCall.slot + i] = sdBefore.sectors[sdCall.sector + i]
             ELSE card.sectors[sdCall.sector + i] = sdBefore.buffer[sdCall.slot + i]
    /\ \A s \in CardSectorSet : card.sectors[s] # sdBefore.sectors[s] =>
          sdCall.op = "write" /\ s - sdCall.sector \in SdMoved
    /\ \A b \in CardSlotSet : buffer[b] # sdBefore.buffer[b] =>
          sdCall.op = "read" /\ b - sdCall.slot \in SdMoved
=============================================================================
