------------------------------- MODULE AzBuffer -------------------------------
(***************************************************************************)
(* az_buffer (src/common/azbuffer.c): an allocation with a cursor, through *)
(* which follower and aggregator pass every byte of a log.  The cells      *)
(* before the cursor have been read, those from the cursor to used are     *)
(* unread, those behind used are free.                                     *)
(*                                                                         *)
(* A pointer into the allocation is its offset.  malloc and realloc are    *)
(* taken to succeed.  A cell nobody wrote holds Junk.  push_back may move  *)
(* bytes to places behind the allocation (it moves `used' bytes where the  *)
(* unread ones would do): those writes are left out, see README.md.        *)
(***************************************************************************)
EXTENDS Integers, Sequences

CONSTANTS
    Byte,      \* what a cell can hold
    NewLine,   \* the line feed
    Junk,      \* content of memory that was never written
    Texts,     \* what callers pass to fetch_bytes and push_back, or files hold
    Sizes,     \* sizes given to new and resize, and lengths given to reads
    MaxSize    \* bound: size up to which push_back and callers may grow it

ASSUME BytesAssumption == /\ NewLine \in Byte
                          /\ Junk \notin Byte
                          /\ Texts \subseteq Seq(Byte)
ASSUME SizesAssumption == /\ Sizes \subseteq Nat \ {0}
                          /\ MaxSize \in Nat

VARIABLES
    buffer,    \* the allocation
    cursor,    \* offset of the next byte to read
    used,      \* offset of the first free cell
    size,      \* cells of the allocation
    io         \* the caller's memory: what the last call was given or returned

vars == <<buffer, cursor, used, size, io>>

Cell == Byte \cup {Junk}

Smaller(m, n) == IF m < n THEN m ELSE n

(* Mutant: bytes read before are not counted as used. *)
MutantLarger(m, n) == m

Larger(m, n) == IF m < n THEN n ELSE m

UnreadBytes == used - cursor
UnusedBytes == size - used

(* The bytes a caller has still to get. *)
Unread == [i \in 1..UnreadBytes |-> buffer[cursor + i - 1]]

Prefix(s, n) == [i \in 1..n |-> s[i]]

----------------------------------------------------------------------------
(* C library calls on an allocation. *)

Memcpy(mem, to, s) ==
    [i \in DOMAIN mem |-> IF i \in to..(to + Len(s) - 1) THEN s[i - to + 1] ELSE mem[i]]

(* Mutant: the unread bytes stay where they are. *)
MutantMemmove(mem, to, from, n) == mem

Memmove(mem, to, from, n) ==
    [i \in DOMAIN mem |-> IF i \in to..(to + n - 1) THEN mem[i - to + from] ELSE mem[i]]

Realloc(mem, n) ==
    [i \in 0..(n - 1) |-> IF i \in DOMAIN mem THEN mem[i] ELSE Junk]

----------------------------------------------------------------------------
Init ==
    /\ size \in Sizes
    /\ buffer = [i \in 0..(size - 1) |-> Junk]
    /\ cursor = 0
    /\ used = 0
    /\ io = << >>

(* az_buffer_read; a dst or a content too short leaves all as it was. *)
Read(len, dsize) ==
    /\ len <= dsize
    /\ len <= UnreadBytes
    /\ io' = Prefix(Unread, len)
    /\ cursor' = cursor + len
    /\ UNCHANGED <<buffer, used, size>>

(* az_buffer_resize *)
Resize(n) ==
    /\ n >= used
    /\ buffer' = Realloc(buffer, n)
    /\ size' = n
    /\ UNCHANGED <<cursor, used, io>>

(* az_buffer_fetch_bytes: as much of the data as there is room for *)
FetchBytes(data) ==
    LET n == Smaller(UnusedBytes, Len(data))
    IN  /\ buffer' = Memcpy(buffer, used, Prefix(data, n))
        /\ used' = used + n
        /\ io' = data
        /\ UNCHANGED <<cursor, size>>

(* az_buffer_fetch_file: read() returns what the file has, up to the limit *)
FetchFile(data, limit) ==
    /\ Len(data) \in 1..Smaller(UnusedBytes, limit)
    /\ buffer' = Memcpy(buffer, used, data)
    /\ used' = used + Len(data)
    /\ io' = data
    /\ UNCHANGED <<cursor, size>>

(* Mutant: the line feed is looked for from the end. *)
MutantLineLength(dsize) ==
    LET len == Smaller(UnreadBytes, dsize)
        ends == {i \in 1..len : Unread[i] = NewLine}
    IN  IF ends = {} THEN len ELSE CHOOSE i \in ends : \A j \in ends : j <= i

(* The length of the line that starts at the cursor, or of what there is of  *)
(* it, when the caller has room for dsize bytes.                             *)
LineLength(dsize) ==
    LET len == Smaller(UnreadBytes, dsize)
        ends == {i \in 1..len : Unread[i] = NewLine}
    IN  IF ends = {} THEN len ELSE CHOOSE i \in ends : \A j \in ends : i <= j

(* az_buffer_read_line *)
ReadLine(dsize) ==
    /\ UnreadBytes > 0
    /\ Read(LineLength(dsize), dsize)

(* az_buffer_push_back; the room it makes and how far it moves the unread    *)
(* bytes depend on how many bytes have been read.                            *)
PushBack(src) ==
    LET n    == cursor
        u    == UnreadBytes
        ss   == Len(src)
        grow == ss + u > size
        mem  == IF grow THEN Realloc(buffer, size + ss * 2) ELSE buffer
        r    == IF ss > n THEN ss - n ELSE 0
        mvd  == IF used > 0 THEN Memmove(mem, cursor + r, cursor, used) ELSE mem
        r0   == IF used > 0 THEN r ELSE 0
        c    == cursor - Smaller(n, ss - r0)
    IN  /\ src # << >>
        /\ grow => size + ss * 2 <= MaxSize
        /\ size' = IF grow THEN size + ss * 2 ELSE size
        /\ buffer' = Memcpy(mvd, c, src)
        /\ cursor' = c
        /\ used' = u + Larger(ss, n)
        /\ io' = src

(* az_buffer_reset *)
Reset ==
    /\ cursor' = 0
    /\ used' = 0
    /\ UNCHANGED <<buffer, size, io>>

(* Mutant: no room is made. *)
MutantKeep(data) ==
    LET n == Smaller(UnusedBytes, Len(data))
    IN  /\ buffer' = Memcpy(buffer, used, Prefix(data, n))
        /\ used' = used + n
        /\ io' = data
        /\ UNCHANGED <<cursor, size>>

(* What handler_data does with a piece that ends no line, and                *)
(* _do_receive_data_0 with what a control connection sent: make room, then   *)
(* fetch.                                                                    *)
Keep(data) ==
    LET len == Len(data)
        n   == IF UnusedBytes < len THEN len + size ELSE size
    IN  /\ n <= MaxSize
        /\ buffer' = Memcpy(Realloc(buffer, n), used, Prefix(data, Smaller(n - used, len)))
        /\ size' = n
        /\ used' = used + Smaller(n - used, len)
        /\ io' = data
        /\ UNCHANGED cursor

Next ==
    \/ \E len, dsize \in Sizes : Read(len, dsize)
    \/ \E n \in Sizes : Resize(n)
    \/ \E data \in Texts : FetchBytes(data)
    \/ \E data \in Texts, limit \in Sizes : FetchFile(data, limit)
    \/ \E dsize \in Sizes : ReadLine(dsize)
    \/ \E src \in Texts : PushBack(src)
    \/ Reset
    \/ \E data \in Texts : Keep(data)

Spec == Init /\ [][Next]_vars

----------------------------------------------------------------------------
(* Type invariant: the cursor never passes used, used never passes the size  *)
(* of the allocation, and the caller is never handed a byte nobody wrote.    *)
TypeOK ==
    /\ size \in Nat
    /\ used \in 0..size
    /\ cursor \in 0..used
    /\ buffer \in [0..(size - 1) -> Cell]
    /\ io \in Seq(Byte)
    /\ \A i \in cursor..(used - 1) : buffer[i] # Junk

(* However reads, fetches, resizes, resets and push-backs follow each other, *)
(* the bytes come out as from a queue: none lost, doubled or out of order,   *)
(* wherever in the allocation they were moved to.                            *)
Queue == INSTANCE ByteQueue WITH queue <- Unread
ImplementsQueue == Queue!Spec

(* A caller that makes room first, as handler_data and _do_receive_data_0    *)
(* do, loses nothing of what it hands over.                                  *)
KeepsAll == [][\A data \in Texts : Keep(data) => Unread' = Unread \o data]_vars

(* A line is never run together with the next one, and is cut only where the *)
(* bytes or the caller's room end.                                           *)
LinesWhole ==
    [][\A dsize \in Sizes : ReadLine(dsize) =>
          /\ \A i \in 1..(Len(io') - 1) : io'[i] # NewLine
          /\ \/ io'[Len(io')] = NewLine
             \/ Len(io') = dsize
             \/ UnreadBytes' = 0]_vars
==============================================================================
