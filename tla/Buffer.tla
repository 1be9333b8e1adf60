------------------------------- MODULE Buffer -------------------------------
(***************************************************************************)
(* reactor::net::Buffer, as operators on a record                          *)
(*   bytes   buffer_, a vector that only grows                             *)
(*   read    read_index_                                                   *)
(*   write   write_index_                                                  *)
(* [0, read) has been consumed, [read, write) is readable, [write, size)   *)
(* is free.  What a byte is, is left to the modules that use a buffer;     *)
(* they need only CR and LF from here.                                     *)
(***************************************************************************)
EXTENDS Integers, Sequences

CR == "\r"
LF == "\n"
Zero == "0"    \* what resize() fills a vector<char> with

NewBuffer(size) == [bytes |-> [i \in 1..size |-> Zero], read |-> 0, write |-> 0]

ReadableBytes(b) == b.write - b.read
WritableBytes(b) == Len(b.bytes) - b.write
PrependableBytes(b) == b.read

\* The bytes from Peek() to BeginWrite().
Readable(b) == SubSeq(b.bytes, b.read + 1, b.write)

RetrieveAll(b) == [b EXCEPT !.read = 0, !.write = 0]

Retrieve(b, len) ==
    IF len < ReadableBytes(b) THEN [b EXCEPT !.read = @ + len] ELSE RetrieveAll(b)

-----------------------------------------------------------------------------
(* Writing.                                                                *)

\* std::copy of s to the offset `at' of the vector.
CopyTo(bytes, at, s) ==
    [i \in DOMAIN bytes |-> IF i \in (at + 1)..(at + Len(s)) THEN s[i - at] ELSE bytes[i]]

Resize(bytes, size) ==
    [i \in 1..size |-> IF i <= Len(bytes) THEN bytes[i] ELSE Zero]

\* Variant: the readable bytes are moved but the write index stays behind.
MakeSpaceForgetsIndex(b, len) ==
    IF WritableBytes(b) + PrependableBytes(b) < len
    THEN [b EXCEPT !.bytes = Resize(@, b.write + len)]
    ELSE [b EXCEPT !.bytes = CopyTo(@, 0, Readable(b)), !.read = 0]

\* Grow, or move the readable bytes to the front when that makes enough room.
MakeSpace(b, len) ==
    IF WritableBytes(b) + PrependableBytes(b) < len
    THEN [b EXCEPT !.bytes = Resize(@, b.write + len)]
    ELSE [bytes |-> CopyTo(b.bytes, 0, Readable(b)), read |-> 0,
          write |-> ReadableBytes(b)]

EnsureWritableBytes(b, len) == IF WritableBytes(b) < len THEN MakeSpace(b, len) ELSE b

Append_(b, s) ==
    LET roomy == EnsureWritableBytes(b, Len(s))
    IN  [roomy EXCEPT !.bytes = CopyTo(@, roomy.write, s), !.write = @ + Len(s)]

\* The most one readv() can return: the free part and, when that is smaller
\* than the stack buffer of `extra' bytes, the stack buffer too.
ReadvLimit(b, extra) == WritableBytes(b) + (IF WritableBytes(b) < extra THEN extra ELSE 0)

\* ReadFd when readv() returned the bytes s: the first of them are already in
\* the free part, the others are appended from the stack buffer.
ReadFd(b, s) ==
    LET writable == WritableBytes(b)
        direct   == SubSeq(s, 1, IF Len(s) <= writable THEN Len(s) ELSE writable)
        filled   == [b EXCEPT !.bytes = CopyTo(@, b.write, direct),
                              !.write = @ + Len(direct)]
    IN  IF Len(s) <= writable THEN filled
        ELSE Append_(filled, SubSeq(s, writable + 1, Len(s)))

-----------------------------------------------------------------------------
(* Searching, for the HTTP layer.                                          *)

\* Offsets from Peek() at which a CR LF starts.
CRLFs(b) ==
    {k \in 0..(ReadableBytes(b) - 2) :
        /\ b.bytes[b.read + k + 1] = CR
        /\ b.bytes[b.read + k + 2] = LF}

HasCRLF(b) == CRLFs(b) # {}

\* std::search finds the first one.
FindCRLF(b) == CHOOSE k \in CRLFs(b) : \A j \in CRLFs(b) : k <= j

\* RetrieveUntil(crlf + 2), for the offset of the crlf.
RetrieveUntil(b, crlf) == Retrieve(b, crlf + 2)
=============================================================================
