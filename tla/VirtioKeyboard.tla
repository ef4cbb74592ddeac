--------------------------- MODULE VirtioKeyboard ---------------------------
(***************************************************************************)
(* The VirtIO keyboard of the QEMU board (platforms/qemu/input/input.c).   *)
(* The driver lends BufferCount buffers to the device; the device writes   *)
(* an event into each and returns it through the used ring, at any moment  *)
(* of the driver's loop, and has to drop events while it holds no buffer.  *)
(***************************************************************************)
EXTENDS Naturals, Sequences, FiniteSets, SequencesExt

CONSTANTS BufferCount,   \* VIRTQ_SIZE
          RingModulus,   \* 2^16, the range of avail->idx, used->idx, last_used_idx
          DeviceEvents,  \* the events of the keyboard: 1 is a press, 2 a repetition
          MaxEmitted     \* bound on the events

ASSUME KeyboardConstants ==
    /\ BufferCount \in Nat \ {0} /\ MaxEmitted \in Nat
    /\ RingModulus \in Nat \ {0} /\ RingModulus % BufferCount = 0
    /\ RingModulus > BufferCount
    /\ DeviceEvents \subseteq [code : STRING, value : 0..2]

VARIABLES buffers,               \* event_buffers
          availRing, availIndex, usedRing, usedIndex, lastUsed,
          seen,                  \* the device's own index into the available ring
          keyboard,              \* "new", "ready", "absent": keyboard_ready
          turn,                  \* where the loop is: "look", "handle" or "lend"
          held,                  \* the modifier keys that count as pressed
          capsLock, closeWanted, \* caps_lock_enabled, global_close_requested
          keysPushed,            \* the events pushed: [code, mods, second]
          emitted                \* history: the events the device has stored

lendVars == <<availRing, availIndex>>
ringVars == <<buffers, usedRing, usedIndex, seen>>
keyVars == <<held, capsLock, closeWanted, keysPushed>>
keyboardVars == <<lendVars, ringVars, lastUsed, keyboard, turn, keyVars, emitted>>

Buffers == 0..(BufferCount - 1)
Step(index) == (index + 1) % RingModulus
NoKeyEvent == [code |-> "none", value |-> 0]

ModifierOf == [lshift |-> "shift", rshift |-> "shift", lctrl |-> "ctrl",
               rctrl |-> "ctrl", lalt |-> "alt", ralt |-> "alt"]
IsModifier(code) == code \in DOMAIN ModifierOf
Modifiers(keys) == {ModifierOf[code] : code \in keys}

\* keycode_to_char: the keys with two characters, and those with one.
Letters == {"a", "b", "c", "d", "e", "f", "g", "h", "i", "j", "k", "l", "m", "n",
            "o", "p", "q", "r", "s", "t", "u", "v", "w", "x", "y", "z"}
Marks == {"1", "2", "3", "4", "5", "6", "7", "8", "9", "0", "minus", "equal",
          "leftbrace", "rightbrace", "semicolon", "apostrophe", "grave",
          "backslash", "comma", "dot", "slash", "102nd"}
Blanks == {"space", "enter", "backspace", "tab"}
\* handle_special_key
SpecialKeys == {"esc", "left", "right", "up", "down", "home", "end", "delete",
                "pageup", "pagedown", "insert", "f1", "f2", "f3", "f4", "f5",
                "f6", "f7", "f8", "f9", "f10", "f11", "f12"}
InTables(code) == code \in Letters \union Marks \union Blanks \union SpecialKeys

\* Caps lock inverts what Shift does to a letter, and to nothing else.
Second(code, mods, caps) ==
    \/ code \in Letters /\ ("shift" \in mods) # caps
    \/ code \in Marks /\ "shift" \in mods

-----------------------------------------------------------------------------
\* virtio_keyboard_init, at the first update: all buffers are lent.
KeyboardAppears ==
    /\ keyboard = "new"
    /\ \/ /\ keyboard' = "ready"
          /\ availRing' = [i \in Buffers |-> i]
          /\ availIndex' = BufferCount % RingModulus
       \/ keyboard' = "absent" /\ UNCHANGED lendVars
    /\ UNCHANGED <<ringVars, lastUsed, turn, keyVars, emitted>>

\* The device takes the next buffer it was lent.
DeviceStores(event) ==
    LET id == availRing[seen % BufferCount] IN
    /\ keyboard = "ready" /\ seen # availIndex /\ Len(emitted) < MaxEmitted
    /\ buffers' = [buffers EXCEPT ![id] = event]
    /\ usedRing' = [usedRing EXCEPT ![usedIndex % BufferCount] = id]
    /\ usedIndex' = Step(usedIndex) /\ seen' = Step(seen)
    /\ emitted' = Append(emitted, event)
    /\ UNCHANGED <<lendVars, lastUsed, keyboard, turn, keyVars>>

Current == usedRing[lastUsed % BufferCount]

\* Mutant: the buffer is lent again before its event is handled.
TakeUsedLent ==
    /\ keyboard = "ready" /\ turn = "look" /\ lastUsed # usedIndex
    /\ turn' = "handle"
    /\ availRing' = [availRing EXCEPT ![availIndex % BufferCount] = Current]
    /\ availIndex' = Step(availIndex)
    /\ UNCHANGED <<ringVars, lastUsed, keyboard, keyVars, emitted>>

\* One turn of the loop of virtio_keyboard_update.
TakeUsed ==
    /\ keyboard = "ready" /\ turn = "look" /\ lastUsed # usedIndex
    /\ turn' = "handle"
    /\ UNCHANGED <<lendVars, ringVars, lastUsed, keyboard, keyVars, emitted>>

\* handle_modifier_key
ModifierKey(event) ==
    /\ held' = IF event.value # 0 THEN held \union {event.code} ELSE held \ {event.code}
    /\ UNCHANGED <<capsLock, closeWanted, keysPushed>>

\* handle_input_event of another key: 1 is a press, 2 a repetition; a caps lock
\* that repeats goes on to the tables, which do not know it.
OtherKey(event) ==
    LET mods == Modifiers(held) IN
    /\ IF event.code = "caps"
       THEN /\ capsLock' = IF event.value = 1 THEN ~capsLock ELSE capsLock
            /\ UNCHANGED <<closeWanted, keysPushed>>
       ELSE IF event.value \notin {1, 2} THEN UNCHANGED <<capsLock, closeWanted, keysPushed>>
       ELSE IF event.code = "f4" /\ event.value = 1 /\ "alt" \in mods
       THEN closeWanted' = TRUE /\ UNCHANGED <<capsLock, keysPushed>>
       ELSE IF ~InTables(event.code) THEN UNCHANGED <<capsLock, closeWanted, keysPushed>>
       ELSE /\ keysPushed' = Append(keysPushed,
                 [code |-> event.code, mods |-> mods,
                  second |-> Second(event.code, mods, capsLock)])
            /\ UNCHANGED <<capsLock, closeWanted>>
    /\ UNCHANGED held

HandleEvent ==
    /\ turn = "handle" /\ turn' = "lend"
    /\ LET event == buffers[Current]
       IN  IF IsModifier(event.code) THEN ModifierKey(event) ELSE OtherKey(event)
    /\ UNCHANGED <<lendVars, ringVars, lastUsed, keyboard, emitted>>

\* virtqueue_add_buffer, then last_used_idx moves on.
LendAgain ==
    /\ turn = "lend" /\ turn' = "look"
    /\ availRing' = [availRing EXCEPT ![availIndex % BufferCount] = Current]
    /\ availIndex' = Step(availIndex)
    /\ lastUsed' = Step(lastUsed)
    /\ UNCHANGED <<ringVars, keyboard, keyVars, emitted>>

\* input_take_global_close_request
TakeClose ==
    /\ closeWanted /\ closeWanted' = FALSE
    /\ UNCHANGED <<lendVars, ringVars, lastUsed, keyboard, turn, held, capsLock,
                   keysPushed, emitted>>

KeyboardInit ==
    /\ buffers = [i \in Buffers |-> NoKeyEvent]
    /\ availRing = [i \in Buffers |-> 0] /\ availIndex = 0
    /\ usedRing = [i \in Buffers |-> 0] /\ usedIndex = 0
    /\ lastUsed = 0 /\ seen = 0 /\ keyboard = "new" /\ turn = "look"
    /\ held = {} /\ capsLock = FALSE /\ closeWanted = FALSE
    /\ keysPushed = <<>> /\ emitted = <<>>

KeyboardNext ==
    \/ KeyboardAppears \/ TakeUsed \/ HandleEvent \/ LendAgain \/ TakeClose
    \/ \E event \in DeviceEvents : DeviceStores(event)

KeyboardSpec == KeyboardInit /\ [][KeyboardNext]_keyboardVars

-----------------------------------------------------------------------------
(* What the keys mean, read from the history alone. *)

Unhandled == (usedIndex + RingModulus - lastUsed) % RingModulus
Handled == Len(emitted) - Unhandled + (IF turn = "lend" THEN 1 ELSE 0)

\* Is a key down after the first n events?
DownAfter(code, n) ==
    \E i \in 1..n : /\ emitted[i].code = code /\ emitted[i].value # 0
                    /\ \A j \in (i + 1)..n : emitted[j].code # code
ModsAfter(n) == Modifiers({code \in DOMAIN ModifierOf : DownAfter(code, n)})
CapsAfter(n) ==
    Cardinality({i \in 1..n : emitted[i] = [code |-> "caps", value |-> 1]}) % 2 = 1
Closes(n) == emitted[n] = [code |-> "f4", value |-> 1] /\ "alt" \in ModsAfter(n)
Types(n) ==
    InTables(emitted[n].code) /\ emitted[n].value # 0 /\ ~Closes(n)

\* Whatever the device does meanwhile, each event it stored is handled once and
\* in its order, with the modifiers of the keys that were down then: the keys
\* pushed are those typed (virtio_keyboard_update, handle_input_event).
KeyboardTrue ==
    LET typed == {n \in 1..Handled : Types(n)}
        KeyOf(n) == [code |-> emitted[n].code, mods |-> ModsAfter(n),
                     second |-> Second(emitted[n].code, ModsAfter(n), CapsAfter(n))]
    IN
    /\ Len(keysPushed) = Cardinality(typed)
    /\ \A n \in typed : keysPushed[Cardinality({m \in typed : m <= n})] = KeyOf(n)
    /\ closeWanted => \E n \in 1..Handled : Closes(n)
=============================================================================
