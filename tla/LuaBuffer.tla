------------------------------ MODULE LuaBuffer ------------------------------
(***************************************************************************)
(* The string buffer of lauxlib.c: what does not fit into its array goes   *)
(* to the stack in pieces, which are concatenated now and then.  The bytes *)
(* that a caller adds are numbered, so that a text shows what became of    *)
(* each.  One action is one call.                                          *)
(***************************************************************************)
EXTENDS Integers, Sequences
LOCAL INSTANCE SequencesExt

CONSTANTS LUAL_BUFFERSIZE, LIMIT,
          MaxText  \* bound: bytes added to one buffer

ASSUME BufferAssumption == LUAL_BUFFERSIZE \in Nat \ {0} /\ LIMIT \in Nat \ {0, 1}

VARIABLE buf  \* buffer: the array up to p; pieces: what lvl counts on the stack

BufStates == {[buffer |-> <<>>, pieces |-> <<>>, added |-> 0, status |-> "open"]}

Pieces == buf.pieces
Bytes(k) == [b \in 1..k |-> buf.added + b]  \* the next k bytes

(* emptybuffer: the array becomes a piece on the stack. *)
Emptied == IF buf.buffer = <<>> THEN Pieces ELSE Append(Pieces, buf.buffer)

(* adjuststack: the pieces on top are concatenated while they are longer *)
(* than the one below, or too many.                                      *)
Lengths(ps, toget) == Len(FlattenSeq(SubSeq(ps, Len(ps) - toget + 1, Len(ps))))
Merges_longer(ps, toget) == Lengths(ps, toget) > Len(ps[Len(ps) - toget])  \* mutant
Merges(ps, toget) == Len(ps) - toget + 1 >= LIMIT \/ Lengths(ps, toget) > Len(ps[Len(ps) - toget])
ToGet(ps) == CHOOSE t \in 1..Len(ps) : /\ \A s \in 1..t - 1 : Merges(ps, s)
                                       /\ t < Len(ps) => ~Merges(ps, t)
AdjustStack(ps) ==
  IF Len(ps) <= 1 THEN ps
  ELSE Append(SubSeq(ps, 1, Len(ps) - ToGet(ps)),
              FlattenSeq(SubSeq(ps, Len(ps) - ToGet(ps) + 1, Len(ps))))

(* luaL_prepbuffer: nothing is adjusted unless something was put there. *)
PrepBuffer == [buf EXCEPT !.buffer = <<>>,
                          !.pieces = IF buf.buffer = <<>> THEN Pieces ELSE AdjustStack(Emptied)]

Fits(k) == buf.status = "open" /\ buf.added + k <= MaxText

(* luaL_addchar, and luaL_addlstring as so many of them. *)
AddChar ==
  /\ Fits(1)
  /\ LET b == IF Len(buf.buffer) < LUAL_BUFFERSIZE THEN buf ELSE PrepBuffer
     IN buf' = [b EXCEPT !.buffer = Append(@, buf.added + 1), !.added = @ + 1]

(* luaL_prepbuffer, and luaL_addsize for what was written there. *)
AddPrepared(k) ==
  /\ Fits(k) /\ k <= LUAL_BUFFERSIZE
  /\ buf' = [PrepBuffer EXCEPT !.buffer = Bytes(k), !.added = @ + k]

(* luaL_addvalue: the value is on top; what the array held goes below it. *)
Below(value) == Append(Emptied, value)
AddValue(k) ==
  /\ Fits(k)
  /\ IF Len(buf.buffer) + k <= LUAL_BUFFERSIZE
     THEN buf' = [buf EXCEPT !.buffer = @ \o Bytes(k), !.added = @ + k]
     ELSE buf' = [buf EXCEPT !.buffer = <<>>, !.pieces = AdjustStack(Below(Bytes(k))), !.added = @ + k]

(* luaL_pushresult: one string is left. *)
PushResult ==
  /\ buf.status = "open"
  /\ buf' = [buf EXCEPT !.buffer = <<>>, !.pieces = <<FlattenSeq(Emptied)>>, !.status = "done"]

BufNext == AddChar \/ PushResult \/ \E k \in 0..LUAL_BUFFERSIZE + 2 : AddPrepared(k) \/ AddValue(k)
BufSpec == buf \in BufStates /\ [][BufNext]_buf

------------------------------------------------------------------------------
(* A buffer holds what was added, in order, however it is split between the *)
(* array and the stack.                                                     *)
TextKept == FlattenSeq(buf.pieces) \o buf.buffer = [b \in 1..buf.added |-> b]

(* The pieces a buffer leaves on its user's stack are fewer than LIMIT, half *)
(* of what a function may use without asking.                                *)
PiecesBounded == Len(buf.pieces) < LIMIT /\ Len(buf.buffer) <= LUAL_BUFFERSIZE

(* Both: merging pieces in time neither loses nor exchanges a byte. *)
BufferKept == TextKept /\ PiecesBounded
==============================================================================
