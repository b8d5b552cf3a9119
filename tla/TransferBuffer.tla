---------------------------- MODULE TransferBuffer ----------------------------
(***************************************************************************)
(* TransferBuffer (stream_common/transfer_common.cpp): a window of m_size  *)
(* bytes at m_offset inside a base buffer, that may wrap around the base   *)
(* buffer's end.  A MemoryView is a record [start, len] of byte positions *)
(* in the base buffer; bytes are positions 0 .. base - 1 and a user       *)
(* buffer is a function from 0 .. size - 1 to byte values.                 *)
(***************************************************************************)
EXTENDS Naturals

\* TransferBuffer(MemoryView base_buffer, size_t size, size_t offset)
\* (the size and offset asserts are TransferBufferAsserts below).
Transfer(base, size, offset) == [base |-> base, size |-> size, offset |-> offset]

TransferBufferAsserts(b) == b.size <= b.base /\ b.offset < b.base

View(start, len) == [start |-> start, len |-> len]

EmptyView == View(0, 0)

is_wrap_around(b) == b.offset + b.size > b.base

\* get_continuous_parts: the part up to the base buffer's end and the part
\* wrapped to its start; assert(size_to_end < m_size) when wrapping.
get_continuous_parts(b) ==
  IF is_wrap_around(b)
  THEN LET size_to_end == b.base - b.offset
       IN  <<View(b.offset, size_to_end), View(0, b.size - size_to_end)>>
  ELSE <<View(b.offset, b.size), EmptyView>>

\* The base-buffer positions a view covers.
ViewBytes(v) == {v.start + k : k \in 0 .. v.len - 1}

\* copy_to taking the wrapped part before the part up to the base end.
copy_to_parts_swapped(b, mem) ==
  LET parts == get_continuous_parts(b)
  IN  [j \in 0 .. b.size - 1 |->
         IF j < parts[2].len THEN mem[parts[2].start + j]
                             ELSE mem[parts[1].start + (j - parts[2].len)]]

\* copy_to: the first part's bytes, then the second part's bytes.
copy_to(b, mem) ==
  LET parts == get_continuous_parts(b)
  IN  [j \in 0 .. b.size - 1 |->
         IF j < parts[1].len THEN mem[parts[1].start + j]
                             ELSE mem[parts[2].start + (j - parts[1].len)]]

\* copy_from with the second memcpy reading the user buffer from its start.
copy_from_second_from_start(b, mem, data) ==
  LET parts == get_continuous_parts(b)
  IN  [k \in DOMAIN mem |->
         IF k \in ViewBytes(parts[1]) THEN data[k - parts[1].start]
         ELSE IF k \in ViewBytes(parts[2]) THEN data[k - parts[2].start]
         ELSE mem[k]]

\* copy_from: the memcpys into the first part, then into the second part.
copy_from(b, mem, data) ==
  LET parts == get_continuous_parts(b)
  IN  [k \in DOMAIN mem |->
         IF k \in ViewBytes(parts[1]) THEN data[k - parts[1].start]
         ELSE IF k \in ViewBytes(parts[2]) THEN data[parts[1].len + (k - parts[2].start)]
         ELSE mem[k]]

\* Reference: byte j of the window is base position (offset + j) mod base.
WindowPosition(b, j) == (b.offset + j) % b.base

WindowBytes(b) == {WindowPosition(b, j) : j \in 0 .. b.size - 1}

\* Reference copy_to: the window's bytes in ring order.
ReferenceRead(b, m) == [j \in 0 .. b.size - 1 |-> m[WindowPosition(b, j)]]

\* Reference copy_from: user byte j lands at ring position j of the window.
ReferenceWrite(b, m, d) ==
  [k \in DOMAIN m |->
     IF k \in WindowBytes(b) THEN d[CHOOSE j \in 0 .. b.size - 1 : WindowPosition(b, j) = k]
                             ELSE m[k]]
=============================================================================
