---------------------------- MODULE CommandBuffer ----------------------------
(***************************************************************************)
(* The growable text buffer the engine writes nft statements into          *)
(* (src/utils/src/u_sbuffer.c).  The text itself is abstracted to its      *)
(* length: what matters is whether vsnprintf's len + 1 bytes, the          *)
(* terminating NUL included, land inside the allocation, and what happens  *)
(* to a statement when the buffer cannot grow.                             *)
(***************************************************************************)
EXTENDS Integers

CONSTANTS
  ExtraSize,   \* EXTRA_SIZE
  DefSize,     \* U_DEF_BUFFER_SIZE
  Lens,        \* lengths of the statements appended
  MaxSize      \* bound on the allocation size

VARIABLES
  size,        \* buf->size
  next,        \* buf->next
  data,        \* buf->data: "null", "live" or "freed" (dangling after clean)
  dropped      \* a statement was dropped since the buffer was created

vars == <<size, next, data, dropped>>

\* Mutant: the buffer is grown only when the text overruns it.
TimesStrict(len) ==
  IF next + len > size THEN ((next + len - size) \div ExtraSize) + 1 ELSE 0

\* u_buf_concat_va: how many EXTRA_SIZE blocks the resize adds.
Times(len) ==
  IF next + len >= size THEN ((next + len - size) \div ExtraSize) + 1 ELSE 0

\* u_buf_resize: the size after growing by t blocks.
NewSize(t) == size + (t * ExtraSize) + 1

\* u_buf_create: calloc of U_DEF_BUFFER_SIZE bytes, which may fail.
Create ==
  /\ data # "live"
  /\ next' = 0
  /\ dropped' = FALSE
  /\ \/ size' = DefSize /\ data' = "live"
     \/ size' = 0 /\ data' = "null"

\* u_buf_concat -> u_buf_concat_va with the resize succeeding (or not
\* needed): vsnprintf writes len + 1 bytes at next.
ConcatOk(len) ==
  LET t == Times(len) IN
  /\ data = "live"
  /\ NewSize(t) <= MaxSize
  /\ size' = IF t = 0 THEN size ELSE NewSize(t)
  /\ next' = next + len
  /\ UNCHANGED <<data, dropped>>

\* u_buf_resize failing (no data, or realloc returning NULL): u_buf_concat_va
\* logs and returns 1, u_buf_concat ignores it and the statement is lost.
ConcatResizeFails(len) ==
  /\ data # "freed"
  /\ Times(len) > 0
  /\ dropped' = TRUE
  /\ UNCHANGED <<size, next, data>>

\* u_buf_reset: data[0] = 0, next = 0 (the allocation is kept).
Reset ==
  /\ data = "live"
  /\ next' = 0
  /\ UNCHANGED <<size, data, dropped>>

\* u_buf_clean: free(data) without clearing the pointer.
Clean ==
  /\ data # "freed"
  /\ size' = 0
  /\ next' = 0
  /\ data' = IF data = "live" THEN "freed" ELSE "null"
  /\ UNCHANGED dropped

Init ==
  /\ size = 0
  /\ next = 0
  /\ data = "null"
  /\ dropped = FALSE

Next ==
  \/ Create
  \/ \E len \in Lens : ConcatOk(len) \/ ConcatResizeFails(len)
  \/ Reset
  \/ Clean

Spec == Init /\ [][Next]_vars

TypeOK ==
  /\ size \in 0..MaxSize
  /\ next \in 0..MaxSize
  /\ data \in {"null", "live", "freed"}
  /\ dropped \in BOOLEAN

\* After every append the text and its terminating NUL lie inside the
\* allocation: u_buf_concat_va grows the buffer whenever next + len
\* reaches size, so vsnprintf(pnext, len + 1, ...) never writes past it.
NulInBounds == data = "live" => next < size
=============================================================================
