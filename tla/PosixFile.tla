------------------------------ MODULE PosixFile ------------------------------
(***************************************************************************)
(* What read, pread and lseek64 do to a file of FileLen bytes, as far as   *)
(* HVAC's client and server can tell.                                      *)
(***************************************************************************)
EXTENDS Integers

CONSTANT FileLen    \* length of every file

ASSUME FileAssumption == FileLen \in Nat

Bad == -1           \* what a failing system call returns

\* How many bytes a read of n bytes at offset at delivers.
Bytes(at, n) == IF at >= FileLen THEN 0
                ELSE IF n <= FileLen - at THEN n ELSE FileLen - at

\* Where lseek leaves an offset of pos; EINVAL when that would be negative.
SeekTarget(whence, off, pos) ==
    LET base == CASE whence = "SET" -> 0
                  [] whence = "CUR" -> pos
                  [] whence = "END" -> FileLen
    IN  IF base + off < 0 THEN Bad ELSE base + off
=============================================================================
