----------------------------- MODULE MCDevices ------------------------------
(***************************************************************************)
(* The drivers of the two boards and their devices: the virtual disk and   *)
(* keyboard of QEMU, the SD card and the USB keyboard of the Raspberry Pi. *)
(* No driver calls another, so each behaviour follows one of them while    *)
(* the others rest at their beginning.                                     *)
(***************************************************************************)
EXTENDS VirtioBlk, SdCard, VirtioKeyboard, UsbKeyboard, TLC

VARIABLE driven \* the device that this behaviour is about

deviceVars == <<blkVars, sdVars, keyboardVars, usbVars, driven>>

Blank(places) == [place \in places |-> "blank"]
BlkRests == BlkBegins(Blank(Sectors), Blank(Slots), <<>>)
SdRests == SdBegins("high", BlockBytes, Blank(CardSectorSet), Blank(CardSlotSet))
UsbRests == UsbInit /\ bus = <<>>

DevicesInit ==
    \/ driven = "disk" /\ BlkInit /\ SdRests /\ KeyboardInit /\ UsbRests
    \/ driven = "card" /\ BlkRests /\ SdInit /\ KeyboardInit /\ UsbRests
    \/ driven = "keyboard" /\ BlkRests /\ SdRests /\ KeyboardInit /\ UsbRests
    \/ driven = "usb" /\ BlkRests /\ SdRests /\ KeyboardInit /\ UsbInit

DevicesNext ==
    /\ UNCHANGED driven
    /\ \/ driven = "disk" /\ BlkNext /\ UNCHANGED <<sdVars, keyboardVars, usbVars>>
       \/ driven = "card" /\ SdNext /\ UNCHANGED <<blkVars, keyboardVars, usbVars>>
       \/ driven = "keyboard" /\ KeyboardNext /\ UNCHANGED <<blkVars, sdVars, usbVars>>
       \/ driven = "usb" /\ UsbNext /\ UNCHANGED <<blkVars, sdVars, keyboardVars>>

DevicesSpec == DevicesInit /\ [][DevicesNext]_deviceVars

-----------------------------------------------------------------------------
(***************************************************************************)
(* The bounds.  Disk: two sectors, two sectors of memory, one              *)
(* request given up, and boards whose only block device lacks something.   *)
(* Card: three sectors, so that a sector taken for an address is another   *)
(* sector's.  Keyboard: two buffers, four events.  USB: keyboards of every *)
(* kind on the root port, and hubs with two ports.                         *)
(***************************************************************************)

Slot(kind, version, queue, version1, agrees) ==
    [kind |-> kind, version |-> version, queue |-> queue,
     version1 |-> version1, agrees |-> agrees]
MCBoards ==
    {<<Slot("empty", 1, 0, FALSE, FALSE), Slot("block", 1, 8, FALSE, FALSE)>>,
     <<Slot("block", 2, 8, TRUE, TRUE)>>,
     <<Slot("block", 2, 8, FALSE, TRUE), Slot("block", 2, 8, TRUE, TRUE)>>,
     <<Slot("block", 2, 8, TRUE, FALSE)>>, <<Slot("block", 1, 4, FALSE, FALSE)>>,
     <<Slot("block", 3, 8, TRUE, TRUE)>>, <<Slot("input", 1, 8, FALSE, FALSE)>>}

Event(code, value) == [code |-> code, value |-> value]
MCDeviceEvents ==
    {Event("lshift", 1), Event("lshift", 0), Event("rshift", 1), Event("a", 1),
     Event("lalt", 1), Event("f4", 1), Event("f4", 2), Event("f4", 0),
     Event("caps", 1), Event("caps", 2), Event("1", 1), Event("mute", 1)}

Interface(n, hid, boot) == [type |-> "interface", number |-> n, hid |-> hid, boot |-> boot]
Endpoint(n, usable) == [type |-> "endpoint", number |-> n, usable |-> usable]
Device(is, config) ==
    [is |-> is, config |-> config, live |-> FALSE, address |-> 0, at |-> "off",
     boot |-> FALSE]
Boot == Device("device", <<Interface(0, TRUE, TRUE), Endpoint(1, TRUE)>>)
Combo == Device("device", <<Interface(0, TRUE, FALSE), Endpoint(1, TRUE),
                            Interface(1, TRUE, TRUE), Endpoint(2, TRUE)>>)
Generic == Device("device", <<Interface(0, FALSE, FALSE), Endpoint(1, TRUE),
                              Interface(1, TRUE, FALSE), Endpoint(2, FALSE),
                              Endpoint(3, TRUE)>>)
Odd == Device("device", <<Interface(0, TRUE, TRUE), Endpoint(1, FALSE),
                          Interface(1, TRUE, FALSE), Endpoint(2, TRUE)>>)
Disk == Device("device", <<Interface(0, FALSE, FALSE), Endpoint(1, TRUE)>>)
Hub == Device("hub", <<Interface(0, FALSE, FALSE), Endpoint(1, TRUE)>>)
Nothing == Device("nothing", <<>>)
MCTopologies ==
    {<<>>} \union {<<d>> : d \in {Boot, Combo, Generic, Odd, Disk}}
    \union {<<Hub, d, e>> : d, e \in {Nothing, Boot, Disk}}

Symmetry == Permutations(BlkValues)
=============================================================================
