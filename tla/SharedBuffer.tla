---------------------------- MODULE SharedBuffer ----------------------------
(***************************************************************************)
(* The buffer library that Lua programs and scripts share: a table of      *)
(* entries that are found by key and reused, and a clipboard beside it.    *)
(***************************************************************************)
EXTENDS Naturals, FiniteSets

CONSTANTS Keys,       \* the valid keys
          Values,     \* the values that fit an entry
          BadKey,     \* a key shared_buffer_key_is_valid refuses
          LongValue,  \* a value longer than SHARED_BUFFER_VALUE_MAX
          MaxEntries  \* SHARED_BUFFER_MAX_ENTRIES

ASSUME BufferConstants ==
    /\ MaxEntries \in Nat \ {0}
    /\ BadKey \notin Keys
    /\ LongValue \notin Values

VARIABLES entries,   \* shared_buffer_entries
          clipped, \* shared_buffer_clipboard and its used flag: one value
                     \* or none
          reply      \* status and value of the last call on a key

bufferVars == <<entries, clipped, reply>>

Slots == 1..MaxEntries
EmptyEntry == [used |-> FALSE, key |-> "", value |-> ""]
Reply(status, value) == [status |-> status, value |-> value]

\* shared_buffer_find: 0 when no used entry has the key.
Find(k) ==
    LET hits == {i \in Slots : entries[i].used /\ entries[i].key = k} IN
    IF hits = {} THEN 0 ELSE CHOOSE i \in hits : \A j \in hits : i <= j

\* Mutant: an entry that was cleared before one in use is not reused.
FindFreeAtEnd ==
    LET free == {i \in Slots : \A j \in Slots : j >= i => ~entries[j].used} IN
    IF free = {} THEN 0 ELSE CHOOSE i \in free : \A j \in free : i <= j

\* shared_buffer_find_free
FindFree ==
    LET free == {i \in Slots : ~entries[i].used} IN
    IF free = {} THEN 0 ELSE CHOOSE i \in free : \A j \in free : i <= j

Refuse(status) == reply' = Reply(status, <<>>) /\ UNCHANGED <<entries, clipped>>

-----------------------------------------------------------------------------
BufferInit ==
    /\ entries = [i \in Slots |-> EmptyEntry]
    /\ clipped = <<>>
    /\ reply = Reply("ok", <<>>)

Store(i, k, v) ==
    /\ entries' = [entries EXCEPT ![i] = [used |-> TRUE, key |-> k, value |-> v]]
    /\ reply' = Reply("ok", <<>>)
    /\ UNCHANGED clipped

\* shared_buffer_set
Set(k, v) ==
    IF k = BadKey THEN Refuse("invalid_key")
    ELSE IF v = LongValue THEN Refuse("too_long")
    ELSE IF Find(k) # 0 THEN Store(Find(k), k, v)
    ELSE IF FindFree # 0 THEN Store(FindFree, k, v)
    ELSE Refuse("full")

\* shared_buffer_get, with room for every value
Get(k) ==
    IF k = BadKey THEN Refuse("invalid_key")
    ELSE IF Find(k) = 0 THEN Refuse("not_found")
    ELSE /\ reply' = Reply("ok", <<entries[Find(k)].value>>)
         /\ UNCHANGED <<entries, clipped>>

\* shared_buffer_take
Take(k) ==
    IF k = BadKey THEN Refuse("invalid_key")
    ELSE IF Find(k) = 0 THEN Refuse("not_found")
    ELSE /\ reply' = Reply("ok", <<entries[Find(k)].value>>)
         /\ entries' = [entries EXCEPT ![Find(k)] = EmptyEntry]
         /\ UNCHANGED clipped

\* shared_buffer_clear
Clear(k) ==
    IF k = BadKey THEN Refuse("invalid_key")
    ELSE IF Find(k) = 0 THEN Refuse("not_found")
    ELSE /\ reply' = Reply("ok", <<>>)
         /\ entries' = [entries EXCEPT ![Find(k)] = EmptyEntry]
         /\ UNCHANGED clipped

\* shared_buffer_clear_all: the clipboard too.
ClearAll ==
    /\ entries' = [i \in Slots |-> EmptyEntry]
    /\ clipped' = <<>>
    /\ UNCHANGED reply

\* shared_buffer_clipboard_set of a value that fits, and _clear.
ClipboardSet(v) ==
    /\ v # LongValue
    /\ clipped' = <<v>>
    /\ UNCHANGED <<entries, reply>>

ClipboardClear ==
    /\ clipped' = <<>>
    /\ UNCHANGED <<entries, reply>>

AllKeys == Keys \union {BadKey}
AllValues == Values \union {LongValue}

BufferNext ==
    \/ \E k \in AllKeys, v \in AllValues : Set(k, v)
    \/ \E k \in AllKeys : Get(k) \/ Take(k) \/ Clear(k)
    \/ ClearAll
    \/ \E v \in AllValues : ClipboardSet(v)
    \/ ClipboardClear

BufferSpec == BufferInit /\ [][BufferNext]_bufferVars

-----------------------------------------------------------------------------
KeyValue == INSTANCE KeyValueStore WITH
    Capacity <- MaxEntries,
    store <- [k \in {entries[i].key : i \in {j \in Slots : entries[j].used}} |->
                 entries[Find(k)].value]

\* The table is a map: a key has one value, the last one set, whatever the
\* order in which entries were cleared and reused, and a new key is refused
\* only when MaxEntries keys are there.
ImplementsMap == KeyValue!Spec
=============================================================================
