------------------------------- MODULE LuaDump -------------------------------
(***************************************************************************)
(* Precompiled chunks: ldump.c writes a function as a stream, lundump.c    *)
(* reads it back and has the code checked.  The stream is a sequence whose *)
(* items are the blocks the writer is given; the header, line numbers and  *)
(* the sizes of machine words are left out.                                *)
(***************************************************************************)
EXTENDS LuaVerify

NullString == "(null)"
UnknownSource == "=?"
TNil == 0
TBoolean == 1
TNumber == 3
TString == 4

DumpString(s) == IF s = NullString THEN <<0>> ELSE <<Len(s) + 1, s>>
DumpVector(items) == <<Len(items)>> \o items
DumpAll(items, dump(_)) ==
  <<Len(items)>> \o FlattenSeq([i \in DOMAIN items |-> dump(items[i])])

DumpConstant(v) == CASE v.t = "nil" -> <<TNil>>
                     [] v.t = "boolean" -> <<TBoolean, IF v.b THEN 1 ELSE 0>>
                     [] v.t = "number" -> <<TNumber, v.n>>
                     [] v.t = "string" -> <<TString>> \o DumpString(v.s)

DumpLocVar(v) == DumpString(v.name) \o <<v.startpc, v.endpc>>

DumpDebug(f, strip) ==
  IF strip THEN <<0, 0>>
  ELSE DumpAll(f.locvars, DumpLocVar) \o DumpAll(f.upvalues, DumpString)

(* A function of the same source as the one around it does not repeat it. *)
RECURSIVE DumpFunction(_, _, _)
DumpFunction(f, parent, strip) ==
  DumpString(IF f.source = parent \/ strip THEN NullString ELSE f.source)
  \o <<f.nups, f.numparams, f.vararg, f.maxstack>>
  \o DumpVector(f.code)
  \o DumpAll(f.k, DumpConstant)
  \o DumpAll(f.p, LAMBDA g : DumpFunction(g, f.source, strip))
  \o DumpDebug(f, strip)

Dump(f, strip) == DumpFunction(f, NullString, strip)

------------------------------------------------------------------------------
(* A reader: the stream, the position in it, the last value read, and ok,  *)
(* which is FALSE after an error ("unexpected end" or "bad code").         *)
Reader(in) == [in |-> in, pos |-> 1, v |-> 0, ok |-> TRUE]

LoadBlock(r) == IF r.ok /\ r.pos \in DOMAIN r.in
                THEN [r EXCEPT !.pos = @ + 1, !.v = r.in[r.pos]]
                ELSE [r EXCEPT !.v = 0, !.ok = FALSE]

LoadString(r) == LET size == LoadBlock(r)
                 IN IF size.v = 0 THEN [size EXCEPT !.v = NullString] ELSE LoadBlock(size)

LoadItems(r, n, load(_)) ==
  FoldLeft(LAMBDA s, i : LET x == load(s) IN [x EXCEPT !.v = Append(s.v, x.v)],
           [r EXCEPT !.v = <<>>], [i \in 1..n |-> i])
LoadVector(r, load(_)) == LET n == LoadBlock(r) IN LoadItems(n, n.v, load)

LoadConstant(r) ==
  LET t == LoadBlock(r)
      x == IF t.v = TString THEN LoadString(t) ELSE LoadBlock(t)
  IN CASE t.v = TNil -> [t EXCEPT !.v = Nil]
       [] t.v = TBoolean -> [x EXCEPT !.v = Bool(x.v # 0)]
       [] t.v = TNumber -> [x EXCEPT !.v = Num(x.v)]
       [] t.v = TString -> [x EXCEPT !.v = Str(x.v)]

LoadLocVar(r) ==
  LET name == LoadString(r)
      startpc == LoadBlock(name)
      endpc == LoadBlock(startpc)
  IN [endpc EXCEPT !.v = [name |-> name.v, startpc |-> startpc.v, endpc |-> endpc.v]]

RECURSIVE LoadFunction(_, _)
LoadFunction(r, parent) ==
  LET s == LoadString(r)
      source == IF s.v = NullString THEN parent ELSE s.v
      sizes == LoadItems(s, 4, LoadBlock)
      code == LoadVector(sizes, LoadBlock)
      k == LoadVector(code, LoadConstant)
      p == LoadVector(k, LAMBDA x : LoadFunction(x, source))
      locvars == LoadVector(p, LoadLocVar)
      upvalues == LoadVector(locvars, LoadString)
      f == [source |-> source, nups |-> sizes.v[1], numparams |-> sizes.v[2],
            vararg |-> sizes.v[3], maxstack |-> sizes.v[4], code |-> code.v, k |-> k.v,
            p |-> p.v, locvars |-> locvars.v, upvalues |-> upvalues.v, ok |-> TRUE]
  IN [upvalues EXCEPT !.v = f, !.ok = @ /\ CheckCode(f)]

Undump(stream) == LoadFunction(Reader(stream), UnknownSource)
==============================================================================
