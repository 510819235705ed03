--------------------------- MODULE MCInterpreter ---------------------------
(***************************************************************************)
(* Functions as compiled by this quickjs.c, from a DUMP_BYTECODE build:    *)
(* short opcodes in their long form, labels as the number of the           *)
(* instruction, arguments before variables.  Each is the JavaScript in its *)
(* comment.                                                                *)
(***************************************************************************)
EXTENDS Interpreter

\* function forOf(it, f) { for (let x of it) { try { if (f(x)) return x;
\* if (x) break; } finally { f(); } } }
forOf ==
  [args |-> 2, vars |-> 1, stack_size |-> 6, code |-> <<
    <<"set_loc_uninitialized", 3>>, <<"get_loc", 1>>, <<"for_of_start", 0>>,
    <<"goto", 35>>, <<"put_loc", 3>>, <<"catch", 29>>, <<"get_loc", 2>>,
    <<"get_loc_check", 3>>, <<"call", 1>>, <<"if_false", 17>>, <<"get_loc_check", 3>>,
    <<"nip", 0>>, <<"gosub", 31>>, <<"iterator_close_return", 0>>,
    <<"iterator_close", 0>>, <<"return", 0>>, <<"get_loc_check", 3>>,
    <<"if_false", 24>>, <<"drop", 0>>, <<"undefined", 0>>, <<"gosub", 31>>,
    <<"drop", 0>>, <<"goto", 38>>, <<"drop", 0>>, <<"undefined", 0>>, <<"gosub", 31>>,
    <<"drop", 0>>, <<"goto", 35>>, <<"gosub", 31>>, <<"throw", 0>>, <<"get_loc", 2>>,
    <<"call", 0>>, <<"drop", 0>>, <<"ret", 0>>, <<"for_of_next", 0>>, <<"if_false", 5>>,
    <<"drop", 0>>, <<"iterator_close", 0>>, <<"return_undef", 0>>>>,
   closures |-> <<>>]

\* function tryCatch(f) { try { f(); } catch (e) { f(e); return 1; }
\* finally { f(2); } }
tryCatch ==
  [args |-> 1, vars |-> 1, stack_size |-> 4, code |-> <<
    <<"catch", 10>>, <<"get_loc", 1>>, <<"call", 0>>, <<"drop", 0>>, <<"drop", 0>>,
    <<"undefined", 0>>, <<"gosub", 22>>, <<"drop", 0>>, <<"return_undef", 0>>,
    <<"put_loc", 2>>, <<"catch", 20>>, <<"get_loc", 1>>, <<"get_loc", 2>>,
    <<"call", 1>>, <<"drop", 0>>, <<"push_i32", 1>>, <<"nip", 0>>, <<"gosub", 22>>,
    <<"return", 0>>, <<"gosub", 22>>, <<"throw", 0>>, <<"get_loc", 1>>,
    <<"push_i32", 2>>, <<"call", 1>>, <<"drop", 0>>, <<"ret", 0>>, <<"return_undef", 0>>>>,
   closures |-> <<>>]

\* function destructure(it) { var [a, ...b] = it; return b; }
destructure ==
  [args |-> 1, vars |-> 2, stack_size |-> 7, code |-> <<
    <<"undefined", 0>>, <<"dup", 0>>, <<"is_undefined", 0>>, <<"if_true", 21>>,
    <<"for_of_start", 0>>, <<"for_of_next", 0>>, <<"drop", 0>>, <<"put_loc", 2>>,
    <<"array_from", 0>>, <<"push_i32", 0>>, <<"for_of_next", 2>>, <<"if_true", 16>>,
    <<"define_array_el", 0>>, <<"inc", 0>>, <<"goto", 11>>, <<"drop", 0>>,
    <<"drop", 0>>, <<"put_loc", 3>>, <<"iterator_close", 0>>, <<"goto", 24>>,
    <<"drop", 0>>, <<"get_loc", 1>>, <<"goto", 5>>, <<"get_loc", 3>>, <<"return", 0>>>>,
   closures |-> <<>>]

\* function nested(it, jt) { for (const x of it) for (const y of jt) { if
\* (y) return y; } }
nested ==
  [args |-> 2, vars |-> 2, stack_size |-> 8, code |-> <<
    <<"set_loc_uninitialized", 3>>, <<"get_loc", 1>>, <<"for_of_start", 0>>,
    <<"goto", 23>>, <<"put_loc", 3>>, <<"set_loc_uninitialized", 4>>, <<"get_loc", 2>>,
    <<"for_of_start", 0>>, <<"goto", 19>>, <<"put_loc", 4>>, <<"get_loc_check", 4>>,
    <<"if_false", 19>>, <<"get_loc_check", 4>>, <<"iterator_close_return", 0>>,
    <<"iterator_close", 0>>, <<"iterator_close_return", 0>>, <<"iterator_close", 0>>,
    <<"return", 0>>, <<"for_of_next", 0>>, <<"if_false", 10>>, <<"drop", 0>>,
    <<"iterator_close", 0>>, <<"for_of_next", 0>>, <<"if_false", 5>>, <<"drop", 0>>,
    <<"iterator_close", 0>>, <<"return_undef", 0>>>>,
   closures |-> <<>>]

\* function withObject(o, f) { with (o) { x = f(); delete a; b++; c(f);
\* return y; } }
withObject ==
  [args |-> 2, vars |-> 1, stack_size |-> 4, code |-> <<
    <<"get_loc", 1>>, <<"set_loc_uninitialized", 3>>, <<"to_object", 0>>,
    <<"set_loc", 3>>, <<"with_make_ref", 7>>, <<"make_var_ref", 0>>, <<"get_loc", 3>>,
    <<"with_get_ref", 11>>, <<"undefined", 0>>, <<"get_loc", 2>>, <<"call_method", 0>>,
    <<"put_ref_value", 0>>, <<"get_loc", 3>>, <<"with_delete_var", 16>>,
    <<"delete_var", 0>>, <<"drop", 0>>, <<"get_loc", 3>>, <<"with_make_ref", 20>>,
    <<"make_var_ref", 0>>, <<"get_ref_value", 0>>, <<"post_inc", 0>>, <<"perm4", 0>>,
    <<"put_ref_value", 0>>, <<"drop", 0>>, <<"get_loc", 3>>, <<"with_get_ref", 29>>,
    <<"undefined", 0>>, <<"get_var", 0>>, <<"get_loc", 3>>, <<"with_get_var", 32>>,
    <<"get_loc", 2>>, <<"call_method", 1>>, <<"drop", 0>>, <<"get_loc", 3>>,
    <<"with_get_var", 37>>, <<"get_var", 0>>, <<"return", 0>>>>,
   closures |-> <<>>]

\* function* generator(it) { for (let x of it) { try { yield x; } finally
\* { yield 1; } } }
generator ==
  [args |-> 1, vars |-> 1, stack_size |-> 7, code |-> <<
    <<"initial_yield", 0>>, <<"set_loc_uninitialized", 2>>, <<"get_loc", 1>>,
    <<"for_of_start", 0>>, <<"goto", 32>>, <<"put_loc", 2>>, <<"catch", 22>>,
    <<"get_loc_check", 2>>, <<"yield", 0>>, <<"if_false", 16>>, <<"nip", 0>>,
    <<"gosub", 24>>, <<"iterator_close_return", 0>>, <<"iterator_close", 0>>,
    <<"return_async", 0>>, <<"drop", 0>>, <<"drop", 0>>, <<"undefined", 0>>,
    <<"gosub", 24>>, <<"drop", 0>>, <<"goto", 32>>, <<"gosub", 24>>, <<"throw", 0>>,
    <<"push_i32", 1>>, <<"yield", 0>>, <<"if_false", 30>>,
    <<"iterator_close_return", 0>>, <<"iterator_close", 0>>, <<"return_async", 0>>,
    <<"drop", 0>>, <<"ret", 0>>, <<"for_of_next", 0>>, <<"if_false", 6>>, <<"drop", 0>>,
    <<"iterator_close", 0>>, <<"undefined", 0>>, <<"return_async", 0>>>>,
   closures |-> <<>>]

\* function* delegate(it) { var r = yield* it; return r; }
delegate ==
  [args |-> 1, vars |-> 1, stack_size |-> 3, code |-> <<
    <<"initial_yield", 0>>, <<"get_loc", 1>>, <<"for_of_start", 0>>, <<"drop", 0>>,
    <<"yield_star", 0>>, <<"if_false", 8>>, <<"return_async", 0>>, <<"set_loc", 2>>,
    <<"return_async", 0>>>>,
   closures |-> <<>>]

\* async function asyncFunction(m) { try { return await import(m); }
\* finally { await m; } }
asyncFunction ==
  [args |-> 1, vars |-> 0, stack_size |-> 3, code |-> <<
    <<"catch", 8>>, <<"get_loc", 1>>, <<"import", 0>>, <<"await", 0>>, <<"nip", 0>>,
    <<"gosub", 10>>, <<"return_async", 0>>, <<"gosub", 10>>, <<"throw", 0>>,
    <<"get_loc", 1>>, <<"await", 0>>, <<"drop", 0>>, <<"ret", 0>>, <<"undefined", 0>>,
    <<"return_async", 0>>>>,
   closures |-> <<>>]

\* async function forAwait(it) { for await (let x of it) await x; }
forAwait ==
  [args |-> 1, vars |-> 1, stack_size |-> 5, code |-> <<
    <<"set_loc_uninitialized", 2>>, <<"get_loc", 1>>, <<"for_await_of_start", 0>>,
    <<"goto", 9>>, <<"put_loc", 2>>, <<"get_loc_check", 2>>, <<"await", 0>>,
    <<"drop", 0>>, <<"for_await_of_next", 0>>, <<"await", 0>>,
    <<"iterator_get_value_done", 0>>, <<"if_false", 5>>, <<"drop", 0>>,
    <<"iterator_close", 0>>, <<"undefined", 0>>, <<"return_async", 0>>>>,
   closures |-> <<>>]

\* async function* asyncGenerator(it) { yield* it; }
asyncGenerator ==
  [args |-> 1, vars |-> 0, stack_size |-> 6, code |-> <<
    <<"initial_yield", 0>>, <<"get_loc", 1>>, <<"for_await_of_start", 0>>,
    <<"drop", 0>>, <<"undefined", 0>>, <<"undefined", 0>>, <<"async_iterator_next", 0>>,
    <<"await", 0>>, <<"iterator_get_value_done", 0>>, <<"if_true", 43>>, <<"await", 0>>,
    <<"async_yield_star", 0>>, <<"dup", 0>>, <<"if_true", 17>>, <<"drop", 0>>,
    <<"goto", 7>>, <<"push_i32", 2>>, <<"strict_eq", 0>>, <<"if_true", 31>>,
    <<"await", 0>>, <<"async_iterator_get", 0>>, <<"if_true", 26>>, <<"await", 0>>,
    <<"iterator_get_value_done", 0>>, <<"if_false", 12>>, <<"nip", 0>>, <<"nip", 0>>,
    <<"nip", 0>>, <<"await", 0>>, <<"return_async", 0>>, <<"async_iterator_get", 1>>,
    <<"if_true", 38>>, <<"await", 0>>, <<"iterator_get_value_done", 0>>,
    <<"if_false", 12>>, <<"await", 0>>, <<"goto", 43>>, <<"async_iterator_get", 0>>,
    <<"if_true", 41>>, <<"await", 0>>, <<"async_iterator_get", 2>>, <<"drop", 0>>,
    <<"nip", 0>>, <<"nip", 0>>, <<"nip", 0>>, <<"drop", 0>>, <<"undefined", 0>>,
    <<"return_async", 0>>>>,
   closures |-> <<>>]

\* function concat(s, o) { var v; v = s; var g = () => { v = 0; }; v +=
\* o; return v; }
concat ==
  [args |-> 2, vars |-> 2, stack_size |-> 1, code |-> <<
    <<"get_loc", 1>>, <<"put_loc", 3>>, <<"fclosure", 1>>, <<"set_name", 0>>,
    <<"put_loc", 4>>, <<"get_loc", 2>>, <<"add_loc", 3>>, <<"get_loc", 3>>,
    <<"return", 0>>>>,
   closures |-> <<{3}>>]

\* function count(o) { var i = o; var g = () => { i = o; }; i++; i--;
\* return i; }
count ==
  [args |-> 1, vars |-> 2, stack_size |-> 1, code |-> <<
    <<"get_loc", 1>>, <<"put_loc", 2>>, <<"fclosure", 1>>, <<"set_name", 0>>,
    <<"put_loc", 3>>, <<"inc_loc", 2>>, <<"dec_loc", 2>>, <<"get_loc", 2>>,
    <<"return", 0>>>>,
   closures |-> <<{1, 2}>>]

\* function forIn(o) { for (let k in o) { (() => k)(); continue; } }
forIn ==
  [args |-> 1, vars |-> 1, stack_size |-> 3, code |-> <<
    <<"set_loc_uninitialized", 2>>, <<"get_loc", 1>>, <<"close_loc", 2>>,
    <<"for_in_start", 0>>, <<"goto", 11>>, <<"put_loc", 2>>, <<"fclosure", 1>>,
    <<"call", 0>>, <<"drop", 0>>, <<"close_loc", 2>>, <<"for_in_next", 0>>,
    <<"if_false", 6>>, <<"drop", 0>>, <<"drop", 0>>, <<"close_loc", 2>>,
    <<"return_undef", 0>>>>,
   closures |-> <<{2}>>]

\* function spread(f, a) { return f(...a, 1); }
spread ==
  [args |-> 2, vars |-> 0, stack_size |-> 4, code |-> <<
    <<"get_loc", 1>>, <<"array_from", 0>>, <<"push_i32", 0>>, <<"get_loc", 2>>,
    <<"append", 0>>, <<"push_i32", 1>>, <<"define_array_el", 0>>, <<"inc", 0>>,
    <<"drop", 0>>, <<"undefined", 0>>, <<"swap", 0>>, <<"apply", 0>>, <<"return", 0>>>>,
   closures |-> <<>>]

\* function restObject(o) { var {x, ...r} = o; return r; }
restObject ==
  [args |-> 1, vars |-> 2, stack_size |-> 5, code |-> <<
    <<"undefined", 0>>, <<"dup", 0>>, <<"is_undefined", 0>>, <<"if_true", 23>>,
    <<"to_object", 0>>, <<"object", 0>>, <<"swap", 0>>, <<"swap", 0>>, <<"null", 0>>,
    <<"define_field", 0>>, <<"swap", 0>>, <<"dup", 0>>, <<"make_loc_ref", 2>>,
    <<"rot3l", 0>>, <<"get_field", 0>>, <<"put_ref_value", 0>>, <<"object", 0>>,
    <<"copy_data_properties", 0>>, <<"put_loc", 3>>, <<"drop", 0>>, <<"drop", 0>>,
    <<"goto", 26>>, <<"drop", 0>>, <<"get_loc", 1>>, <<"goto", 5>>, <<"get_loc", 3>>,
    <<"return", 0>>>>,
   closures |-> <<>>]

\* function operators(o, k) { o.a += k; o[k] = -o.a; o[k]++; delete o[k];
\* if (k in o && o instanceof k) return typeof o; return !k; }
operators ==
  [args |-> 2, vars |-> 0, stack_size |-> 4, code |-> <<
    <<"get_loc", 1>>, <<"get_field2", 0>>, <<"get_loc", 2>>, <<"add", 0>>,
    <<"put_field", 0>>, <<"get_loc", 1>>, <<"get_loc", 2>>, <<"to_propkey2", 0>>,
    <<"get_loc", 1>>, <<"get_field", 0>>, <<"neg", 0>>, <<"put_array_el", 0>>,
    <<"get_loc", 1>>, <<"get_loc", 2>>, <<"to_propkey2", 0>>, <<"dup2", 0>>,
    <<"get_array_el", 0>>, <<"inc", 0>>, <<"put_array_el", 0>>, <<"get_loc", 1>>,
    <<"get_loc", 2>>, <<"delete", 0>>, <<"drop", 0>>, <<"get_loc", 2>>,
    <<"get_loc", 1>>, <<"in", 0>>, <<"if_false", 35>>, <<"get_loc", 1>>,
    <<"get_loc", 2>>, <<"instanceof", 0>>, <<"if_false", 35>>, <<"get_loc", 1>>,
    <<"typeof", 0>>, <<"return", 0>>, <<"get_loc", 2>>, <<"lnot", 0>>, <<"return", 0>>>>,
   closures |-> <<>>]

\* the initializer of the fields of: class Base { #x = 1; #m() { return
\* this.#x; } set v(k) { this.#x = k; this.#m(); } }
fieldsInit ==
  [args |-> 0, vars |-> 2, stack_size |-> 3, code |-> <<
    <<"special_object", 4>>, <<"put_loc", 2>>, <<"push_this", 0>>, <<"put_loc", 1>>,
    <<"get_loc", 1>>, <<"get_loc", 2>>, <<"add_brand", 0>>, <<"get_loc", 1>>,
    <<"get_var_ref_check", 0>>, <<"push_i32", 1>>, <<"define_private_field", 0>>,
    <<"return_undef", 0>>>>,
   closures |-> <<>>]

\* #m of: class Base { #x = 1; #m() { return this.#x; } set v(k) {
\* this.#x = k; this.#m(); } }
privateGetter ==
  [args |-> 0, vars |-> 1, stack_size |-> 2, code |-> <<
    <<"push_this", 0>>, <<"put_loc", 1>>, <<"get_loc", 1>>, <<"get_var_ref", 0>>,
    <<"get_private_field", 0>>, <<"return", 0>>>>,
   closures |-> <<>>]

\* v of: class Base { #x = 1; #m() { return this.#x; } set v(k) { this.#x
\* = k; this.#m(); } }
privateMethod ==
  [args |-> 1, vars |-> 1, stack_size |-> 4, code |-> <<
    <<"push_this", 0>>, <<"put_loc", 2>>, <<"get_loc", 2>>, <<"get_loc", 1>>,
    <<"insert2", 0>>, <<"get_var_ref", 0>>, <<"put_private_field", 0>>, <<"drop", 0>>,
    <<"get_loc", 2>>, <<"get_var_ref", 0>>, <<"check_brand", 0>>, <<"call_method", 0>>,
    <<"return_undef", 0>>>>,
   closures |-> <<>>]

\* the method of: function classes(B, k) { class A extends B { #x = 1;
\* [k]() { return super[k]; } get #p() { return 1; } } return new A(k); }
superGetter ==
  [args |-> 0, vars |-> 2, stack_size |-> 3, code |-> <<
    <<"special_object", 4>>, <<"put_loc", 2>>, <<"push_this", 0>>, <<"put_loc", 1>>,
    <<"get_loc", 1>>, <<"get_loc", 2>>, <<"get_super", 0>>, <<"get_var_ref", 0>>,
    <<"get_super_value", 0>>, <<"return", 0>>>>,
   closures |-> <<>>]

\* the constructor of: function classes(B, k) { class A extends B { #x =
\* 1; [k]() { return super[k]; } get #p() { return 1; } } return new
\* A(k); }
defaultConstructor ==
  [args |-> 1, vars |-> 3, stack_size |-> 5, code |-> <<
    <<"special_object", 2>>, <<"put_loc", 2>>, <<"special_object", 3>>,
    <<"put_loc", 3>>, <<"set_loc_uninitialized", 4>>, <<"check_ctor", 0>>,
    <<"rest", 0>>, <<"put_loc", 1>>, <<"get_loc", 2>>, <<"get_super_ctor", 0>>,
    <<"get_loc", 3>>, <<"array_from", 0>>, <<"push_i32", 0>>, <<"get_loc", 1>>,
    <<"append", 0>>, <<"drop", 0>>, <<"apply", 1>>, <<"dup", 0>>,
    <<"put_loc_check_init", 4>>, <<"get_var_ref_check", 0>>, <<"dup", 0>>,
    <<"if_false", 26>>, <<"get_loc_check", 4>>, <<"swap", 0>>, <<"call_method", 0>>,
    <<"drop", 0>>, <<"drop", 0>>, <<"get_loc_check", 4>>, <<"return", 0>>>>,
   closures |-> <<>>]

\* function classes(B, k) { class A extends B { #x = 1; [k]() { return
\* super[k]; } get #p() { return 1; } } return new A(k); }
classes ==
  [args |-> 2, vars |-> 5, stack_size |-> 4, code |-> <<
    <<"set_loc_uninitialized", 7>>, <<"set_loc_uninitialized", 3>>, <<"get_loc", 1>>,
    <<"set_loc_uninitialized", 6>>, <<"set_loc_uninitialized", 5>>,
    <<"set_loc_uninitialized", 4>>, <<"push_const", 0>>, <<"define_class", 1>>,
    <<"private_symbol", 0>>, <<"put_loc", 4>>, <<"get_loc", 2>>, <<"fclosure", 2>>,
    <<"define_method_computed", 0>>, <<"fclosure", 3>>, <<"set_home_object", 0>>,
    <<"put_loc", 5>>, <<"fclosure", 4>>, <<"set_home_object", 0>>, <<"put_loc", 6>>,
    <<"drop", 0>>, <<"set_loc", 3>>, <<"close_loc", 6>>, <<"close_loc", 4>>,
    <<"put_loc", 7>>, <<"get_loc_check", 7>>, <<"dup", 0>>, <<"get_loc", 2>>,
    <<"call_constructor", 1>>, <<"return", 0>>>>,
   closures |-> <<{6}, {2}, {}, {4}>>]

\* the constructor of: class Derived extends Base { constructor(k) {
\* super(k); } set(k) { super.z = this.v; } }
derivedConstructor ==
  [args |-> 1, vars |-> 3, stack_size |-> 3, code |-> <<
    <<"special_object", 2>>, <<"put_loc", 2>>, <<"special_object", 3>>,
    <<"put_loc", 3>>, <<"set_loc_uninitialized", 4>>, <<"check_ctor", 0>>,
    <<"get_loc", 2>>, <<"get_super_ctor", 0>>, <<"get_loc", 3>>, <<"get_loc", 1>>,
    <<"call_constructor", 1>>, <<"dup", 0>>, <<"put_loc_check_init", 4>>,
    <<"get_var_ref_check", 0>>, <<"dup", 0>>, <<"if_false", 20>>,
    <<"get_loc_check", 4>>, <<"swap", 0>>, <<"call_method", 0>>, <<"drop", 0>>,
    <<"drop", 0>>, <<"get_loc_check", 4>>, <<"return", 0>>>>,
   closures |-> <<>>]

\* set of: class Derived extends Base { constructor(k) { super(k); }
\* set(k) { super.z = this.v; } }
superSetter ==
  [args |-> 1, vars |-> 2, stack_size |-> 5, code |-> <<
    <<"special_object", 4>>, <<"put_loc", 3>>, <<"push_this", 0>>, <<"put_loc", 2>>,
    <<"get_loc", 2>>, <<"get_loc", 3>>, <<"get_super", 0>>, <<"push_atom_value", 0>>,
    <<"to_propkey", 0>>, <<"get_loc", 2>>, <<"get_field", 0>>, <<"insert4", 0>>,
    <<"put_super_value", 0>>, <<"return_undef", 0>>>>,
   closures |-> <<>>]

\* function strict(f) { 'use strict'; zz = f; var t = `a${f}b`; if (t)
\* throw new Error(t); return /a/.test(t); }
strict ==
  [args |-> 1, vars |-> 1, stack_size |-> 4, code |-> <<
    <<"check_var", 0>>, <<"get_loc", 1>>, <<"put_var_strict", 0>>,
    <<"push_atom_value", 0>>, <<"get_field2", 0>>, <<"get_loc", 1>>,
    <<"push_atom_value", 0>>, <<"call_method", 2>>, <<"set_loc", 2>>,
    <<"if_false", 16>>, <<"get_var", 0>>, <<"dup", 0>>, <<"get_loc", 2>>,
    <<"call_constructor", 1>>, <<"throw", 0>>, <<"push_const", 0>>, <<"push_const", 0>>,
    <<"regexp", 0>>, <<"get_field2", 0>>, <<"get_loc", 2>>, <<"tail_call_method", 1>>>>,
   closures |-> <<>>]

\* function evaluate(t) { var u = eval(t); return eval(...u); }
evaluate ==
  [args |-> 1, vars |-> 5, stack_size |-> 4, code |-> <<
    <<"special_object", 3>>, <<"put_loc", 5>>, <<"push_this", 0>>, <<"put_loc", 4>>,
    <<"special_object", 1>>, <<"put_loc", 6>>, <<"special_object", 5>>,
    <<"put_loc", 3>>, <<"get_loc", 3>>, <<"with_get_var", 12>>, <<"get_var", 0>>,
    <<"get_loc", 1>>, <<"eval", 1>>, <<"put_loc", 2>>, <<"get_loc", 3>>,
    <<"with_get_var", 18>>, <<"get_var", 0>>, <<"array_from", 0>>, <<"push_i32", 0>>,
    <<"get_loc", 2>>, <<"append", 0>>, <<"drop", 0>>, <<"apply_eval", 0>>,
    <<"return", 0>>>>,
   closures |-> <<>>]

\* function literal(k) { return { __proto__: k, [k]: 1, get a() { return
\* 1; }, [k]() { return super.f; }, f: function () {} }; }
literal ==
  [args |-> 1, vars |-> 0, stack_size |-> 3, code |-> <<
    <<"object", 0>>, <<"get_loc", 1>>, <<"set_proto", 0>>, <<"get_loc", 1>>,
    <<"push_i32", 1>>, <<"define_array_el", 0>>, <<"drop", 0>>, <<"fclosure", 1>>,
    <<"define_method", 0>>, <<"get_loc", 1>>, <<"fclosure", 1>>,
    <<"define_method_computed", 0>>, <<"fclosure", 1>>, <<"set_name", 0>>,
    <<"define_field", 0>>, <<"return", 0>>>>,
   closures |-> <<{}>>]

\* function globals(f) { aa = 1; return f(aa, typeof ab, delete ac); }
globals ==
  [args |-> 1, vars |-> 0, stack_size |-> 4, code |-> <<
    <<"push_i32", 1>>, <<"dup", 0>>, <<"put_var", 0>>, <<"drop", 0>>, <<"get_loc", 1>>,
    <<"get_var", 0>>, <<"get_var_undef", 0>>, <<"typeof", 0>>, <<"delete_var", 0>>,
    <<"tail_call", 3>>>>,
   closures |-> <<>>]

\* function closures(k) { let x = k; { let y = () => x; y(); } return
\* arguments; }
closures ==
  [args |-> 1, vars |-> 3, stack_size |-> 1, code |-> <<
    <<"special_object", 1>>, <<"put_loc", 4>>, <<"set_loc_uninitialized", 2>>,
    <<"get_loc", 1>>, <<"put_loc", 2>>, <<"set_loc_uninitialized", 3>>,
    <<"fclosure", 1>>, <<"set_name", 0>>, <<"put_loc", 3>>, <<"get_loc_check", 3>>,
    <<"call", 0>>, <<"drop", 0>>, <<"get_loc", 4>>, <<"return", 0>>>>,
   closures |-> <<{2}>>]

\* the closure of: function outer() { let i = 1; return () => { i++; i =
\* i; return outer; }; }
outerVariables ==
  [args |-> 0, vars |-> 0, stack_size |-> 2, code |-> <<
    <<"get_var_ref_check", 0>>, <<"post_inc", 0>>, <<"put_var_ref_check", 0>>,
    <<"drop", 0>>, <<"get_var_ref_check", 0>>, <<"dup", 0>>, <<"put_var_ref_check", 0>>,
    <<"drop", 0>>, <<"get_var", 0>>, <<"return", 0>>>>,
   closures |-> <<>>]

\* function outer() { let i = 1; return () => { i++; i = i; return outer;
\* }; }
outer ==
  [args |-> 0, vars |-> 1, stack_size |-> 1, code |-> <<
    <<"set_loc_uninitialized", 1>>, <<"push_i32", 1>>, <<"put_loc", 1>>,
    <<"fclosure", 1>>, <<"return", 0>>>>,
   closures |-> <<{1}>>]

\* async function* both(it) { for await (const x of it) { try { yield x;
\* } catch (e) { return e; } } }
both ==
  [args |-> 1, vars |-> 2, stack_size |-> 6, code |-> <<
    <<"initial_yield", 0>>, <<"set_loc_uninitialized", 2>>, <<"get_loc", 1>>,
    <<"for_await_of_start", 0>>, <<"goto", 35>>, <<"put_loc", 2>>, <<"catch", 23>>,
    <<"get_loc_check", 2>>, <<"await", 0>>, <<"yield", 0>>, <<"if_false", 20>>,
    <<"nip", 0>>, <<"iterator_close_return", 0>>, <<"async_iterator_close", 0>>,
    <<"if_true", 17>>, <<"await", 0>>, <<"drop", 0>>, <<"await", 0>>,
    <<"return_async", 0>>, <<"drop", 0>>, <<"drop", 0>>, <<"goto", 35>>,
    <<"put_loc", 3>>, <<"catch", 34>>, <<"get_loc", 3>>, <<"nip", 0>>,
    <<"iterator_close_return", 0>>, <<"async_iterator_close", 0>>, <<"if_true", 31>>,
    <<"await", 0>>, <<"drop", 0>>, <<"await", 0>>, <<"return_async", 0>>,
    <<"throw", 0>>, <<"for_await_of_next", 0>>, <<"await", 0>>,
    <<"iterator_get_value_done", 0>>, <<"if_false", 6>>, <<"drop", 0>>,
    <<"iterator_close", 0>>, <<"undefined", 0>>, <<"return_async", 0>>>>,
   closures |-> <<>>]

\* function bits(a, b) { return ~a & b | a ^ b << 1; }
bits ==
  [args |-> 2, vars |-> 0, stack_size |-> 4, code |-> <<
    <<"get_loc", 1>>, <<"not", 0>>, <<"get_loc", 2>>, <<"and", 0>>, <<"get_loc", 1>>,
    <<"get_loc", 2>>, <<"push_i32", 1>>, <<"shl", 0>>, <<"xor", 0>>, <<"or", 0>>,
    <<"return", 0>>>>,
   closures |-> <<>>]

\* function compare(a, b) { for (;;) { if (a < b || a == b) continue; if
\* (a === null || typeof b == 'function') break; } return +a; }
compare ==
  [args |-> 2, vars |-> 0, stack_size |-> 2, code |-> <<
    <<"get_loc", 1>>, <<"get_loc", 2>>, <<"lt", 0>>, <<"dup", 0>>, <<"if_true", 10>>,
    <<"drop", 0>>, <<"get_loc", 1>>, <<"get_loc", 2>>, <<"eq", 0>>, <<"if_true", 1>>,
    <<"get_loc", 1>>, <<"is_null", 0>>, <<"dup", 0>>, <<"if_true", 18>>, <<"drop", 0>>,
    <<"get_loc", 2>>, <<"is_function", 0>>, <<"if_true", 20>>, <<"goto", 1>>,
    <<"get_loc", 1>>, <<"plus", 0>>, <<"return", 0>>>>,
   closures |-> <<>>]

\* function elements(a, k) { var v = a[k]--; a[k](v); return a.length; }
elements ==
  [args |-> 2, vars |-> 1, stack_size |-> 4, code |-> <<
    <<"get_loc", 1>>, <<"get_loc", 2>>, <<"to_propkey2", 0>>, <<"dup2", 0>>,
    <<"get_array_el", 0>>, <<"post_dec", 0>>, <<"perm4", 0>>, <<"put_array_el", 0>>,
    <<"put_loc", 3>>, <<"get_loc", 1>>, <<"get_loc", 2>>, <<"get_array_el2", 0>>,
    <<"get_loc", 3>>, <<"call_method", 1>>, <<"drop", 0>>, <<"get_loc", 1>>,
    <<"get_length", 0>>, <<"return", 0>>>>,
   closures |-> <<>>]

\* function computed(k) { return { [k]: class { static x = 1; [k] = 2; }
\* }; }
computed ==
  [args |-> 1, vars |-> 2, stack_size |-> 5, code |-> <<
    <<"object", 0>>, <<"get_loc", 1>>, <<"undefined", 0>>,
    <<"set_loc_uninitialized", 3>>, <<"set_loc_uninitialized", 2>>, <<"push_const", 0>>,
    <<"define_class_computed", 1>>, <<"swap", 0>>, <<"swap", 0>>, <<"get_loc", 1>>,
    <<"to_propkey", 0>>, <<"put_loc", 2>>, <<"fclosure", 2>>, <<"set_home_object", 0>>,
    <<"put_loc", 3>>, <<"drop", 0>>, <<"dup", 0>>, <<"fclosure", 3>>,
    <<"set_home_object", 0>>, <<"call_method", 0>>, <<"drop", 0>>, <<"close_loc", 3>>,
    <<"close_loc", 2>>, <<"define_array_el", 0>>, <<"drop", 0>>, <<"return", 0>>>>,
   closures |-> <<{3}, {2}, {}>>]

\* function sequence(k) { switch (k) { case 1: try { throw 1; } catch {
\* return true; } case 2: const c = 1; c = 2; default: return false; } }
sequence ==
  [args |-> 1, vars |-> 1, stack_size |-> 3, code |-> <<
    <<"get_loc", 1>>, <<"set_loc_uninitialized", 2>>, <<"dup", 0>>, <<"push_i32", 1>>,
    <<"strict_eq", 0>>, <<"if_false", 16>>, <<"catch", 10>>, <<"push_i32", 1>>,
    <<"throw", 0>>, <<"drop", 0>>, <<"catch", 15>>, <<"push_true", 0>>, <<"nip", 0>>,
    <<"return", 0>>, <<"throw", 0>>, <<"dup", 0>>, <<"push_i32", 2>>,
    <<"strict_eq", 0>>, <<"if_false", 23>>, <<"push_i32", 1>>, <<"put_loc", 2>>,
    <<"throw_var", 0>>, <<"push_false", 0>>, <<"return", 0>>>>,
   closures |-> <<>>]

\* function assign(a, b) { [a, [b]] = b; }
assign ==
  [args |-> 2, vars |-> 0, stack_size |-> 11, code |-> <<
    <<"goto", 18>>, <<"dup", 0>>, <<"for_of_start", 0>>, <<"make_loc_ref", 1>>,
    <<"for_of_next", 2>>, <<"drop", 0>>, <<"put_ref_value", 0>>, <<"for_of_next", 0>>,
    <<"drop", 0>>, <<"for_of_start", 0>>, <<"make_loc_ref", 2>>, <<"for_of_next", 2>>,
    <<"drop", 0>>, <<"put_ref_value", 0>>, <<"iterator_close", 0>>,
    <<"iterator_close", 0>>, <<"return_undef", 0>>, <<"get_loc", 2>>, <<"goto", 2>>>>,
   closures |-> <<>>]

\* function early(k) { let y = x; let x = k; x = y; return () => x++; }
early ==
  [args |-> 1, vars |-> 2, stack_size |-> 2, code |-> <<
    <<"set_loc_uninitialized", 3>>, <<"set_loc_uninitialized", 2>>,
    <<"get_loc_check", 3>>, <<"put_loc", 2>>, <<"get_loc", 1>>, <<"put_loc", 3>>,
    <<"get_loc_check", 2>>, <<"dup", 0>>, <<"put_loc_check", 3>>, <<"drop", 0>>,
    <<"fclosure", 1>>, <<"return", 0>>>>,
   closures |-> <<{3}>>]

\* var o = { update(k) { super[k] += 1; super.v--; } };
superUpdate ==
  [args |-> 1, vars |-> 2, stack_size |-> 6, code |-> <<
    <<"special_object", 4>>, <<"put_loc", 3>>, <<"push_this", 0>>, <<"put_loc", 2>>,
    <<"get_loc", 2>>, <<"get_loc", 3>>, <<"get_super", 0>>, <<"get_loc", 1>>,
    <<"to_propkey", 0>>, <<"dup3", 0>>, <<"get_super_value", 0>>, <<"push_i32", 1>>,
    <<"add", 0>>, <<"insert4", 0>>, <<"put_super_value", 0>>, <<"drop", 0>>,
    <<"get_loc", 2>>, <<"get_loc", 3>>, <<"get_super", 0>>, <<"push_atom_value", 0>>,
    <<"to_propkey", 0>>, <<"dup3", 0>>, <<"get_super_value", 0>>, <<"post_dec", 0>>,
    <<"perm5", 0>>, <<"put_super_value", 0>>, <<"return_undef", 0>>>>,
   closures |-> <<>>]

\* class Returns extends Object { constructor(k) { if (k) return k;
\* super(); } }
returnsObject ==
  [args |-> 1, vars |-> 3, stack_size |-> 3, code |-> <<
    <<"special_object", 2>>, <<"put_loc", 3>>, <<"special_object", 3>>,
    <<"put_loc", 4>>, <<"set_loc_uninitialized", 2>>, <<"check_ctor", 0>>,
    <<"get_loc", 1>>, <<"if_false", 15>>, <<"get_loc", 1>>, <<"check_ctor_return", 0>>,
    <<"if_false", 14>>, <<"drop", 0>>, <<"get_loc_check", 2>>, <<"return", 0>>,
    <<"get_loc", 3>>, <<"get_super_ctor", 0>>, <<"get_loc", 4>>,
    <<"call_constructor", 0>>, <<"dup", 0>>, <<"put_loc_check_init", 2>>,
    <<"get_var_ref_check", 0>>, <<"dup", 0>>, <<"if_false", 27>>,
    <<"get_loc_check", 2>>, <<"swap", 0>>, <<"call_method", 0>>, <<"drop", 0>>,
    <<"drop", 0>>, <<"get_loc_check", 2>>, <<"return", 0>>>>,
   closures |-> <<>>]

\* class Counter { set v(k) { this.k = k; } } let one = 1; function
\* add(a) { return a; } var two = add(one); two;
evalScript ==
  [args |-> 0, vars |-> 3, stack_size |-> 3, code |-> <<
    <<"check_define_var", 0>>, <<"check_define_var", 0>>, <<"check_define_var", 0>>,
    <<"check_define_var", 0>>, <<"define_var", 0>>, <<"define_var", 0>>,
    <<"fclosure", 1>>, <<"define_func", 0>>, <<"define_var", 0>>,
    <<"set_loc_uninitialized", 2>>, <<"undefined", 0>>, <<"set_loc_uninitialized", 3>>,
    <<"push_const", 0>>, <<"define_class", 2>>, <<"fclosure", 1>>,
    <<"define_method", 0>>, <<"undefined", 0>>, <<"put_loc", 3>>, <<"drop", 0>>,
    <<"set_loc", 2>>, <<"close_loc", 3>>, <<"put_var_init", 0>>, <<"push_i32", 1>>,
    <<"put_var_init", 0>>, <<"get_var", 0>>, <<"get_var", 0>>, <<"call", 1>>,
    <<"dup", 0>>, <<"put_var", 0>>, <<"drop", 0>>, <<"get_var", 0>>, <<"set_loc", 1>>,
    <<"return", 0>>>>,
   closures |-> <<{}, {3}>>]

CompiledFunctions ==
  [forOf |-> forOf, tryCatch |-> tryCatch, destructure |-> destructure,
   nested |-> nested, withObject |-> withObject, generator |-> generator,
   delegate |-> delegate, asyncFunction |-> asyncFunction, forAwait |-> forAwait,
   asyncGenerator |-> asyncGenerator, concat |-> concat, count |-> count,
   forIn |-> forIn, spread |-> spread, restObject |-> restObject,
   operators |-> operators, fieldsInit |-> fieldsInit,
   privateGetter |-> privateGetter, privateMethod |-> privateMethod,
   superGetter |-> superGetter, defaultConstructor |-> defaultConstructor,
   classes |-> classes, derivedConstructor |-> derivedConstructor,
   superSetter |-> superSetter, strict |-> strict, evaluate |-> evaluate,
   literal |-> literal, globals |-> globals, closures |-> closures,
   outerVariables |-> outerVariables, outer |-> outer, both |-> both,
   bits |-> bits, compare |-> compare, elements |-> elements,
   computed |-> computed, sequence |-> sequence, assign |-> assign,
   early |-> early, superUpdate |-> superUpdate, returnsObject |-> returnsObject,
   evalScript |-> evalScript]
=============================================================================
