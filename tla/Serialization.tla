--------------------------- MODULE Serialization ----------------------------
(* Values written to a buffer and read back, in another runtime            *)
(* (quickjs.c 31743-33345: JS_WriteObject, JS_ReadObject), as qjsc writes  *)
(* a program and js_std_eval_binary reads it. The unit of the buffer is a  *)
(* byte, but a character, the 8 bytes of a float64, a byte of pc2line and  *)
(* an operand of an instruction are one unit each. Not: other byte orders, *)
(* numbers of the bignum extension, getters of array elements (which could *)
(* change what is being written), a shortage of memory.                    *)
EXTENDS Computation, Integers, Sequences, FiniteSets
LOCAL INSTANCE SequencesExt
LOCAL INSTANCE Functions
LOCAL INSTANCE TLC

CONSTANTS
  Predefined,     \* the names of the predefined atoms, in their order
  ObjectCalls     \* what is written, and the two runtimes

JS_ATOM_END == Len(Predefined) + 1

-----------------------------------------------------------------------------
(* Numbers: 7 bits in a byte, the low ones first; the sign in the low bit. *)

RECURSIVE leb128(_)
leb128(v) == IF v < 128 THEN <<v>> ELSE <<(v % 128) + 128>> \o leb128(v \div 128)
sleb128(v) == leb128(IF v >= 0 THEN 2 * v ELSE -2 * v - 1)

(* bc_set_flags: fields of a given width, the first in the low bits.       *)
bc_set_flags(r, fields) ==
  FoldLeft(LAMBDA n, i : n + r[fields[i][1]] * 2 ^ FoldLeft(LAMBDA k, j : k + fields[j][2], 0, [j \in 1 .. i - 1 |-> j]),
           0, [i \in DOMAIN fields |-> i])
bc_get_flags(n, fields) ==
  [f \in {fields[i][1] : i \in DOMAIN fields} |->
     LET i == CHOOSE j \in DOMAIN fields : fields[j][1] = f
         at == FoldLeft(LAMBDA k, j : k + fields[j][2], 0, [j \in 1 .. i - 1 |-> j])
     IN (n \div 2 ^ at) % 2 ^ fields[i][2]]

FunctionFlags == << <<"has_prototype", 1>>, <<"has_simple_parameter_list", 1>>,
  <<"is_derived_class_constructor", 1>>, <<"need_home_object", 1>>, <<"func_kind", 2>>,
  <<"new_target_allowed", 1>>, <<"super_call_allowed", 1>>, <<"super_allowed", 1>>,
  <<"arguments_allowed", 1>>, <<"has_debug", 1>> >>
VarFlags == << <<"var_kind", 4>>, <<"is_func_var", 1>>, <<"is_const", 1>>, <<"is_lexical", 1>>,
  <<"is_captured", 1>> >>
ClosureFlags == << <<"is_local", 1>>, <<"is_arg", 1>>, <<"is_const", 1>>, <<"is_lexical", 1>>,
  <<"var_kind", 4>> >>

(* The tag of a value is the place of its kind here.                       *)
BcTags == <<"null", "undefined", "bool_false", "bool_true", "int32", "float64", "string", "object",
  "array", "big_int", "big_float", "template_object", "function_bytecode", "module">>
Atomic == {"null", "undefined", "bool_false", "bool_true", "int32", "float64", "string"}
TagNumber(kind) == CHOOSE i \in DOMAIN BcTags : BcTags[i] = kind

-----------------------------------------------------------------------------
(* The writer: the buffer, the atoms met so far, the objects marked and    *)
(* whether an error was thrown. A key is an integer or a name; the number  *)
(* of an atom is its place among the names of the runtime.                 *)

JS_AtomOf(names, name) == CHOOSE n \in DOMAIN names : names[n] = name
first_atom(bytecode) == IF bytecode THEN JS_ATOM_END ELSE 1

Put(w, units) == [w EXCEPT !.buf = @ \o units]
Fail(w, why) == [w EXCEPT !.err = why]

bc_atom_to_idx(w, atom) ==
  IF atom < w.first \/ atom \in ToSet(w.idx_to_atom) THEN w ELSE [w EXCEPT !.idx_to_atom = Append(@, atom)]
IdxOf(w, atom) ==
  IF atom < w.first THEN atom ELSE w.first - 1 + CHOOSE i \in DOMAIN w.idx_to_atom : w.idx_to_atom[i] = atom

bc_put_atom(w, key) ==
  IF key.int THEN Put(w, leb128(2 * key.n + 1))
  ELSE LET atom == JS_AtomOf(w.names, key.name)
           x == bc_atom_to_idx(w, atom)
       IN Put(x, leb128(2 * IdxOf(x, atom)))

JS_WriteString(str) == leb128(2 * Len(str.chars) + str.is_wide_char) \o str.chars

(* What JS_WriteObjectRec writes of a value of each kind, in its order: a  *)
(* field of the value and how it is written.                               *)
WriteVar == << <<"var_name", "atom">>, <<"scope_level", "leb128">>, <<"scope_next", "leb128+1">>,
  <<"flags", "bits8", VarFlags>> >>
WriteClosure == << <<"var_name", "atom">>, <<"var_idx", "leb128">>, <<"flags", "bits8", ClosureFlags>> >>
WriteDebug == << <<"filename", "atom">>, <<"line_num", "leb128">>, <<"pc2line_len", "leb128">>, <<"pc2line_buf", "buf">> >>
WriteFunction == << <<"flags", "bits16", FunctionFlags>>, <<"js_mode", "u8">>, <<"func_name", "atom">>,
  <<"arg_count", "leb128">>, <<"var_count", "leb128">>, <<"defined_arg_count", "leb128">>,
  <<"stack_size", "leb128">>, <<"closure_var_count", "leb128">>, <<"cpool_count", "leb128">>,
  <<"byte_code_len", "leb128">>, <<"local_count", "leb128">>, <<"vardefs", "each", WriteVar>>,
  <<"closure_var", "each", WriteClosure>>, <<"byte_code", "code">>, <<"debug", "debug">>, <<"cpool", "values">> >>
WriteExport(type) ==
  IF type = 0 THEN << <<"var_idx", "leb128">>, <<"export_name", "atom">> >>
  ELSE << <<"req_module_idx", "leb128">>, <<"local_name", "atom">>, <<"export_name", "atom">> >>
WriteModule == << <<"module_name", "atom">>, <<"req_count", "leb128">>, <<"reqs", "each", << <<"module_name", "atom">> >> >>,
  <<"export_count", "leb128">>, <<"exports", "each", << <<"export_type", "u8">>, <<"u", "export">> >> >>,
  <<"star_count", "leb128">>, <<"stars", "each", << <<"req_module_idx", "leb128">> >> >>, <<"import_count", "leb128">>,
  <<"imports", "each", << <<"var_idx", "leb128">>, <<"import_name", "atom">>, <<"req_module_idx", "leb128">> >> >>,
  <<"func_obj", "value">> >>
WriteArray == << <<"len", "leb128">>, <<"elems", "values">> >>
WriteProps == << <<"prop_count", "leb128">>, <<"props", "each", << <<"key", "atom">>, <<"value", "value">> >> >> >>
WriteLayout(kind) ==
  CASE kind = "int32" -> << <<"n", "sleb128">> >>
    [] kind = "float64" -> << <<"u64", "u8">> >>
    [] kind = "string" -> << <<"str", "string">> >>
    [] kind = "object" -> WriteProps
    [] kind = "array" -> WriteArray
    [] kind = "template_object" -> Append(WriteArray, <<"raw", "value">>)
    [] kind = "function_bytecode" -> WriteFunction
    [] kind = "module" -> WriteModule
    [] OTHER -> <<>>

(* An operand that is an atom is replaced by its index; the tag of an      *)
(* integer is the sign here.                                               *)
HasAtom(op) == op >= 200
JS_WriteFunctionBytecode(w, code) ==
  FoldLeft(LAMBDA x, i :
    IF ~HasAtom(i.op) THEN Put(x, <<i.op>>)
    ELSE IF i.atom.int THEN Put(x, <<i.op, -1 - i.atom.n>>)
    ELSE LET atom == JS_AtomOf(x.names, i.atom.name)
             y == bc_atom_to_idx(x, atom)
         IN Put(y, <<i.op, IdxOf(y, atom)>>), w, code)

RECURSIVE JS_WriteObjectRec(_, _), WriteFields(_, _, _)

WriteField(w, r, f) ==
  LET v == r[f[1]]
      as == f[2]
  IN CASE as = "u8" -> Put(w, <<v>>)
       [] as = "leb128" -> Put(w, leb128(v))
       [] as = "leb128+1" -> Put(w, leb128(v + 1))
       [] as = "sleb128" -> Put(w, sleb128(v))
       [] as = "atom" -> bc_put_atom(w, v)
       [] as = "buf" -> Put(w, v)
       [] as = "string" -> Put(w, JS_WriteString(v))
       [] as \in {"bits8", "bits16"} ->
            LET n == bc_set_flags(v, f[3]) IN Put(w, IF as = "bits8" THEN <<n>> ELSE <<n % 256, n \div 256>>)
       [] as = "code" -> JS_WriteFunctionBytecode(w, v)
       [] as = "debug" -> IF r.flags.has_debug = 0 THEN w ELSE WriteFields(w, v, WriteDebug)
       [] as = "export" -> WriteFields(w, v, WriteExport(r.export_type))
       [] as = "each" -> FoldLeft(LAMBDA x, e : WriteFields(x, e, f[3]), w, v)
       [] as = "values" -> FoldLeft(JS_WriteObjectRec, w, v)
       [] as = "value" -> JS_WriteObjectRec(w, v)
WriteFields(w, r, fields) == FoldLeft(LAMBDA x, f : WriteField(x, r, f), w, fields)

Written(props) == SelectSeq(props, LAMBDA p : p.enumerable /\ ~p.symbol)
KindOf(c, o) ==
  IF o.class = "array" /\ c.bytecode /\ ~o.extensible THEN "template_object" ELSE o.class
Contents(o) ==
  IF o.class = "array" THEN [len |-> Len(o.elems), elems |-> o.elems, raw |-> o.raw]
  ELSE [prop_count |-> Len(Written(o.props)), props |-> Written(o.props)]

(* The mark is taken off again after an error too ...                      *)
Unmark(w, o) == [w EXCEPT !.marks = @ \ {o}]

(* ... but not when a property is an accessor.                             *)
WriteObject(w, n) ==
  LET o == w.heap[n]
      kind == KindOf(w, o)
      marked == [w EXCEPT !.marks = @ \cup {n}]
  IN IF o.class \notin {"array", "object"} THEN Fail(w, "unsupported object class")
     ELSE IF n \in w.marks THEN Fail(w, "circular reference")
     ELSE IF kind = "object" /\ \E p \in ToSet(Written(o.props)) : p.accessor
       THEN Fail(marked, "only value properties are supported")
     ELSE Unmark(WriteFields(Put(marked, <<TagNumber(kind)>>), Contents(o), WriteLayout(kind)), n)

JS_WriteObjectRec(w, v) ==
  LET kind == IF v.tag = "hole" THEN "undefined" ELSE v.tag
  IN IF w.err # "" THEN w
     ELSE IF kind = "object" THEN WriteObject(w, v.o)
     ELSE IF kind \in Atomic \/ (w.bytecode /\ kind \in {"function_bytecode", "module"})
       THEN WriteFields(Put(w, <<TagNumber(kind)>>), v.of, WriteLayout(kind))
     ELSE Fail(w, "unsupported tag")

(* The names of the atoms go to the front.                                 *)
JS_WriteObjectAtoms(w) ==
  [w EXCEPT !.buf =
     <<1>> \o leb128(Len(w.idx_to_atom))
     \o FlattenSeq([i \in DOMAIN w.idx_to_atom |->
          JS_WriteString([is_wide_char |-> 0, chars |-> w.names[w.idx_to_atom[i]]])]) \o @]

-----------------------------------------------------------------------------
(* The reader: where it is in the buffer, the atoms of the table, the      *)
(* names of its runtime, the value read last and the first error thrown.   *)

Failed(r) == r.err # ""

ReadUnit(r, n, v) == [r EXCEPT !.ptr = @ + n, !.val = v]
bc_read_error_end(r) == [r EXCEPT !.err = IF Failed(r) THEN @ ELSE "read after the end", !.val = 0]
Left(r) == Len(r.buf) - r.ptr

bc_get_u8(r) == IF Failed(r) \/ Left(r) < 1 THEN bc_read_error_end(r) ELSE ReadUnit(r, 1, r.buf[r.ptr + 1])
bc_get_u16(r) ==
  IF Failed(r) \/ Left(r) < 2 THEN bc_read_error_end(r)
  ELSE ReadUnit(r, 2, r.buf[r.ptr + 1] + 256 * r.buf[r.ptr + 2])
bc_get_leb128(r) ==
  LET ends == {n \in 1 .. 5 : n <= Left(r) /\ r.buf[r.ptr + n] < 128}
      n == CHOOSE i \in ends : \A j \in ends : i <= j
  IN IF Failed(r) \/ ends = {} THEN bc_read_error_end(r)
     ELSE ReadUnit(r, n, FoldLeft(LAMBDA v, i : v + (r.buf[r.ptr + i] % 128) * 128 ^ (i - 1), 0, [i \in 1 .. n |-> i]))
bc_get_sleb128(r) ==
  LET x == bc_get_leb128(r)
  IN [x EXCEPT !.val = IF @ % 2 = 0 THEN @ \div 2 ELSE -(@ \div 2) - 1]
bc_get_buf(r, n) ==
  IF Failed(r) \/ Left(r) < n THEN bc_read_error_end(r) ELSE ReadUnit(r, n, SubSeq(r.buf, r.ptr + 1, r.ptr + n))

Key(r, n) == [int |-> FALSE, name |-> r.names[n]]
(* Slip: the index is not moved past the predefined atoms. *)
Slip_IdxToAtom(r, idx) ==
  IF idx \in DOMAIN r.idx_to_atom THEN [r EXCEPT !.val = Key(r, r.idx_to_atom[idx])]
  ELSE Fail(r, "invalid atom index")
bc_idx_to_atom(r, idx) ==
  IF idx < r.first THEN [r EXCEPT !.val = Key(r, idx)]
  ELSE IF idx - r.first >= Len(r.idx_to_atom) THEN Fail(r, "invalid atom index")
  ELSE [r EXCEPT !.val = Key(r, r.idx_to_atom[idx - r.first + 1])]
AtomOf(r) ==
  IF Failed(r) THEN r ELSE IF r.val % 2 = 1 THEN [r EXCEPT !.val = [int |-> TRUE, n |-> @ \div 2]]
  ELSE bc_idx_to_atom(r, r.val \div 2)
bc_get_atom(r) == AtomOf(bc_get_leb128(r))
StringOfLength(r) ==
  IF Failed(r) THEN r
  ELSE [bc_get_buf(r, r.val \div 2) EXCEPT !.val = [is_wide_char |-> r.val % 2, chars |-> @]]
JS_ReadString(r) == StringOfLength(bc_get_leb128(r))

(* n things read one after the other.                                      *)
All(acc) == [acc[1] EXCEPT !.val = acc[2]]
Times(r, n, Read(_)) ==
  LET Longer(x, got) == <<x, Append(got, x.val)>>
      Step(acc, i) == Longer(Read(acc[1]), acc[2])
  IN All(FoldLeft(Step, <<r, <<>> >>, [i \in 1 .. IF Failed(r) THEN 0 ELSE n |-> i]))

(* What JS_ReadObjectRec reads of a value of each kind.                    *)
ReadVar == << <<"var_name", "atom">>, <<"scope_level", "leb128">>, <<"scope_next", "leb128-1">>,
  <<"flags", "bits8", VarFlags>> >>
ReadClosure == << <<"var_name", "atom">>, <<"var_idx", "leb128">>, <<"flags", "bits8", ClosureFlags>> >>
ReadDebug == << <<"filename", "atom">>, <<"line_num", "leb128">>, <<"pc2line_len", "leb128">>,
  <<"pc2line_buf", "buf", "pc2line_len">> >>
ReadFunction == << <<"flags", "bits16", FunctionFlags>>, <<"js_mode", "u8">>, <<"func_name", "atom">>,
  <<"arg_count", "leb128">>, <<"var_count", "leb128">>, <<"defined_arg_count", "leb128">>,
  <<"stack_size", "leb128">>, <<"closure_var_count", "leb128">>, <<"cpool_count", "leb128">>,
  <<"byte_code_len", "leb128">>, <<"local_count", "leb128">>, <<"vardefs", "each", "local_count", ReadVar>>,
  <<"closure_var", "each", "closure_var_count", ReadClosure>>, <<"byte_code", "code">>, <<"debug", "debug">>,
  <<"cpool", "values", "cpool_count">> >>
ReadExport(type) ==
  IF type = 0 THEN << <<"var_idx", "leb128">>, <<"export_name", "atom">> >>
  ELSE << <<"req_module_idx", "leb128">>, <<"local_name", "atom">>, <<"export_name", "atom">> >>
ReadModule == << <<"module_name", "atom">>,
  <<"req_count", "leb128">>, <<"reqs", "each", "req_count", << <<"module_name", "atom">> >> >>,
  <<"export_count", "leb128">>, <<"exports", "each", "export_count", << <<"export_type", "u8">>, <<"u", "export">> >> >>,
  <<"star_count", "leb128">>, <<"stars", "each", "star_count", << <<"req_module_idx", "leb128">> >> >>,
  <<"import_count", "leb128">>, <<"imports", "each", "import_count",
     << <<"var_idx", "leb128">>, <<"import_name", "atom">>, <<"req_module_idx", "leb128">> >> >>, <<"func_obj", "value">> >>
ReadArray == << <<"len", "leb128">>, <<"elems", "values", "len">> >>
ReadProps == << <<"prop_count", "leb128">>, <<"props", "each", "prop_count", << <<"key", "atom">>, <<"value", "value">> >> >> >>
ReadLayout(kind) ==
  CASE kind = "int32" -> << <<"n", "sleb128">> >>
    [] kind = "float64" -> << <<"u64", "u8">> >>
    [] kind = "string" -> << <<"str", "string">> >>
    [] kind = "object" -> ReadProps
    [] kind = "array" -> ReadArray
    [] kind = "template_object" -> Append(ReadArray, <<"raw", "value">>)
    [] kind = "function_bytecode" -> ReadFunction
    [] kind = "module" -> ReadModule
    [] OTHER -> <<>>

(* In data that stays where it is (is_rom_data) atoms are used as they     *)
(* stand.                                                                  *)
Operand(r, idx) ==
  IF idx < 0 THEN [r EXCEPT !.val = [int |-> TRUE, n |-> -1 - idx]]
  ELSE IF r.rom THEN [r EXCEPT !.val = Key(r, idx)] ELSE bc_idx_to_atom(r, idx)
RECURSIVE Instructions(_, _)
Instructions(r, units) ==
  IF Failed(r) \/ units = <<>> THEN [r EXCEPT !.val = <<>>]
  ELSE LET op == Head(units)
           x == IF HasAtom(op) THEN Operand(r, units[2]) ELSE r
           i == IF HasAtom(op) THEN [op |-> op, atom |-> x.val] ELSE [op |-> op]
           rest == Instructions(x, SubSeq(units, IF HasAtom(op) THEN 3 ELSE 2, Len(units)))
       IN [rest EXCEPT !.val = <<i>> \o @]
Decoded(r) == IF Failed(r) THEN r ELSE Instructions(r, r.val)
JS_ReadFunctionBytecode(r, bc_len) == Decoded(bc_get_buf(r, bc_len))

RECURSIVE JS_ReadObjectRec(_), ReadFields(_, _)

ReadField(r, got, f) ==
  LET as == f[2]
      Less1(x) == [x EXCEPT !.val = @ - 1]
      AsFlags(x) == [x EXCEPT !.val = bc_get_flags(@, f[3])]
  IN IF Failed(r) THEN r
     ELSE CASE as = "u8" -> bc_get_u8(r)
            [] as = "leb128" -> bc_get_leb128(r)
            [] as = "leb128-1" -> Less1(bc_get_leb128(r))
            [] as = "sleb128" -> bc_get_sleb128(r)
            [] as = "atom" -> bc_get_atom(r)
            [] as = "buf" -> bc_get_buf(r, got[f[3]])
            [] as = "string" -> JS_ReadString(r)
            [] as = "bits8" -> AsFlags(bc_get_u8(r))
            [] as = "bits16" -> AsFlags(bc_get_u16(r))
            [] as = "code" -> JS_ReadFunctionBytecode(r, got.byte_code_len)
            [] as = "debug" -> IF got.flags.has_debug = 0 THEN [r EXCEPT !.val = <<>>] ELSE ReadFields(r, ReadDebug)
            [] as = "export" -> ReadFields(r, ReadExport(got.export_type))
            [] as = "each" -> Times(r, got[f[3]], LAMBDA x : ReadFields(x, f[4]))
            [] as = "values" -> Times(r, got[f[3]], JS_ReadObjectRec)
            [] as = "value" -> JS_ReadObjectRec(r)
WithField(r, got, name) == <<r, IF Failed(r) THEN got ELSE got @@ (name :> r.val)>>
ReadNext(acc, f) == WithField(ReadField(acc[1], acc[2], f), acc[2], f[1])
ReadFields(r, fields) == All(FoldLeft(ReadNext, <<r, <<>> >>, fields))

Readable(r) == Atomic \cup {"object", "array", "template_object"}
               \cup IF r.bytecode THEN {"function_bytecode", "module"} ELSE {}

(* What had been read of a value is freed after an error. A function       *)
(* already has its memory and its counts once local_count has been read,   *)
(* but each of its three arrays only when its turn comes: until then a     *)
(* count above 0 sends the program to a null pointer. (An instruction that *)
(* names no atom of the table shortens byte_code_len.)                     *)
free_function_bytecode(r) ==
  LET b == r.val
      Read(f) == f \in DOMAIN b
      atoms == b.byte_code_len > 0 /\ ~Read("byte_code") /\ ~(Read("closure_var") /\ r.err = "invalid atom index")
      cpool == b.cpool_count > 0 /\ ~Read("debug")
      closure_var == b.closure_var_count > 0 /\ ~Read("vardefs")
  IN IF Read("local_count") /\ (atoms \/ cpool \/ closure_var) THEN Fail(r, "null pointer") ELSE r

(* A module is freed by js_free_module_def, and then looked at once more,  *)
(* as the value that was to be returned.                                   *)
FreeRead(r, kind) ==
  CASE r.err = "null pointer" -> r
    [] kind = "function_bytecode" -> free_function_bytecode(r)
    [] kind = "module" /\ "module_name" \in DOMAIN r.val -> Fail(r, "use after free")
    [] OTHER -> r

ReadTagged(r) ==
  IF Failed(r) THEN r
  ELSE IF r.val \notin DOMAIN BcTags \/ BcTags[r.val] \notin Readable(r) THEN Fail(r, "invalid tag")
  ELSE LET kind == BcTags[r.val]
           x == ReadFields(r, ReadLayout(kind))
       IN IF Failed(x) THEN FreeRead(x, kind) ELSE [x EXCEPT !.val = [tag |-> kind, of |-> @]]
JS_ReadObjectRec(r) == ReadTagged(bc_get_u8(r))

(* JS_NewAtomStr: the atom the runtime has for a name, or a new one.       *)
JS_NewAtomStr(names, name) ==
  IF \E n \in DOMAIN names : names[n] = name THEN names ELSE Append(names, name)
Relocated(r, table, names) ==
  LET idx_to_atom == [i \in DOMAIN table |-> JS_AtomOf(names, table[i])]
  IN [r EXCEPT !.names = names, !.idx_to_atom = idx_to_atom,
               !.rom = @ /\ \A i \in DOMAIN table : idx_to_atom[i] = i - 1 + r.first]
WithTable(r, table) == Relocated(r, table, FoldLeft(JS_NewAtomStr, r.names, table))
AtTable(r) ==
  IF Failed(r) THEN r
  ELSE IF r.val.version # 1 THEN Fail(r, "invalid version")
  ELSE WithTable(r, [i \in DOMAIN r.val.atoms |-> r.val.atoms[i].name.chars])
JS_ReadObjectAtoms(r) ==
  AtTable(ReadFields(r, << <<"version", "u8">>, <<"idx_to_atom_count", "leb128">>,
                           <<"atoms", "each", "idx_to_atom_count", << <<"name", "string">> >> >> >>))

-----------------------------------------------------------------------------
(* A call: JS_WriteObject, once more after an accessor that was in the way *)
(* has become a value, and JS_ReadObject of the buffer or a part of it.    *)

Writing(c, marks) ==
  [buf |-> <<>>, idx_to_atom |-> <<>>, marks |-> marks, err |-> "", heap |-> c.heap,
   names |-> Predefined \o c.writer, bytecode |-> c.bytecode, first |-> first_atom(c.bytecode)]
Reading(c, buf) ==
  [buf |-> buf, ptr |-> 0, idx_to_atom |-> <<>>, err |-> "", val |-> 0,
   names |-> Predefined \o c.reader, bytecode |-> c.bytecode, first |-> first_atom(c.bytecode), rom |-> c.rom]

SerialInit ==
  state \in {[mode |-> "serial", call |-> c, tries |-> 0, marks |-> {}, err |-> "", buf |-> <<>>, read |-> <<>>] :
             c \in ObjectCalls}

JS_WriteObject ==
  /\ state.mode = "serial" /\ state.tries < 2 /\ state.buf = <<>>
  /\ LET w == JS_WriteObjectRec(Writing(state.call, state.marks), state.call.value)
         buf == IF w.err = "" THEN JS_WriteObjectAtoms(w).buf ELSE <<>>
     IN state' = [state EXCEPT !.tries = @ + 1, !.marks = w.marks, !.err = w.err, !.buf = buf]

Values(o) ==
  IF o.class = "object" THEN [o EXCEPT !.props = [i \in DOMAIN @ |-> [@[i] EXCEPT !.accessor = FALSE]]] ELSE o
DefineValues ==
  /\ state.mode = "serial" /\ state.err # ""
  /\ state' = [state EXCEPT !.call.heap = [n \in DOMAIN @ |-> Values(@[n])]]

AfterAtoms(r) == IF Failed(r) THEN r ELSE JS_ReadObjectRec(r)
JS_ReadObject ==
  /\ state.mode = "serial" /\ state.buf # <<>> /\ state.read = <<>>
  /\ \E n \in 0 .. Len(state.buf) :
     LET r == AfterAtoms(JS_ReadObjectAtoms(Reading(state.call, SubSeq(state.buf, 1, n))))
     IN state' = [state EXCEPT !.read = <<[len |-> n, err |-> r.err, ptr |-> r.ptr, val |-> r.val]>>]

SerialNext == JS_WriteObject \/ DefineValues \/ JS_ReadObject

-----------------------------------------------------------------------------
(* What a value means once it is written: a tree.                          *)

RECURSIVE TreeOf(_, _)
TreeOf(c, v) ==
  CASE v.tag = "hole" -> [tag |-> "undefined", of |-> <<>>]
    [] v.tag = "function_bytecode" -> [v EXCEPT !.of.cpool = [i \in DOMAIN @ |-> TreeOf(c, @[i])]]
    [] v.tag = "module" -> [v EXCEPT !.of.func_obj = TreeOf(c, @)]
    [] v.tag = "object" /\ c.heap[v.o].class = "object" ->
         LET props == Written(c.heap[v.o].props)
         IN [tag |-> "object", of |-> [prop_count |-> Len(props), props |->
              [i \in DOMAIN props |-> [key |-> props[i].key, value |-> TreeOf(c, props[i].value)]]]]
    [] v.tag = "object" /\ c.heap[v.o].class = "array" ->
         LET o == c.heap[v.o]
             array == [len |-> Len(o.elems), elems |-> [i \in DOMAIN o.elems |-> TreeOf(c, o.elems[i])]]
             kind == KindOf(c, o)
         IN [tag |-> kind, of |-> array @@ IF kind = "array" THEN <<>> ELSE [raw |-> TreeOf(c, o.raw)]]
    [] OTHER -> v

(* The objects that are written as part of object n.                       *)
PartsOf(c, n) ==
  LET o == c.heap[n]
      values == CASE o.class = "array" -> ToSet(o.elems) \cup IF KindOf(c, o) = "array" THEN {} ELSE {o.raw}
                  [] o.class = "object" -> {p.value : p \in ToSet(Written(o.props))}
                  [] OTHER -> {}
  IN {v.o : v \in {x \in values : x.tag = "object"}}
RECURSIVE Reached(_, _)
Reached(c, S) == LET T == S \cup UNION {PartsOf(c, n) : n \in S} IN IF T = S THEN S ELSE Reached(c, T)
Objects(c) == IF c.value.tag = "object" THEN Reached(c, {c.value.o}) ELSE {}
Circular(c) == \E n \in Objects(c) : n \in Reached(c, PartsOf(c, n))

(* INVARIANT: what is written is read back as the same tree, in a runtime  *)
(* with other atoms too, up to the last unit of the buffer, and no shorter *)
(* part of the buffer is taken for a value: it is refused with an error    *)
(* (but where functions may be read, freeing the half of a function or a   *)
(* module that was read can end the program first: 32736, 33264). A value  *)
(* without circles is not refused as circular, and no mark stays on an     *)
(* object, unless writing it was refused for an accessor.                  *)
ReadsBack ==
  state.mode = "serial" =>
    /\ \A i \in DOMAIN state.read :
         LET r == state.read[i] IN
         IF r.len = Len(state.buf) THEN ~Failed(r) /\ r.ptr = r.len /\ r.val = TreeOf(state.call, state.call.value)
         ELSE Failed(r) /\ (r.err \in {"null pointer", "use after free"} => state.call.bytecode)
    /\ (state.buf # <<>> => ~Circular(state.call))
    /\ (state.tries = 1 /\ state.err = "circular reference" => Circular(state.call))
    /\ \/ state.marks = {}
       \/ state.tries = 1 /\ state.err = "only value properties are supported"
       \/ state.tries = 2 /\ state.err = "circular reference"
=============================================================================
