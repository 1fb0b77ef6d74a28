-------------------------------- MODULE Matrix --------------------------------
(***************************************************************************)
(* nuhal_all/src/matrix.c: fixed-size matrices with a transpose flag, some *)
(* of whose operations heed the flag.  A program calls the operations in   *)
(* any order on a few variables, which may be passed twice in a call: each *)
(* output element is written before the next is computed.                  *)
(*                                                                         *)
(* An element is a number modulo RingSize: the operations add and multiply *)
(* and do nothing else.  A vector is a matrix of one column.               *)
(***************************************************************************)
EXTENDS Integers

CONSTANTS RingSize,
          Start,            \* what each variable holds at first
          Given,            \* what matrix_init is called with
          MaxCalls          \* bound on the calls of a program

Mat3 == {"A", "B"}
Vec3 == {"x", "y", "z"}
Shape == [ A |-> <<3, 3>>, B |-> <<3, 3>>, x |-> <<3, 1>>, y |-> <<3, 1>>, z |-> <<3, 1>>,
           F |-> <<4, 3>>, u |-> <<4, 1>>, S |-> <<6, 6>>, p |-> <<6, 1>>, q |-> <<6, 1>> ]
Names == DOMAIN Shape
Cells(name) == (1 .. Shape[name][1]) \X (1 .. Shape[name][2])

ASSUME RingAssumption == RingSize \in Nat \ {0} /\ MaxCalls \in Nat

ASSUME ContentsAssumption ==
    /\ Start = [n \in Names |-> Start[n]] /\ DOMAIN Given = {"A", "F", "S"}
    /\ \A n \in Names : Start[n] \in [Cells(n) -> 0 .. RingSize - 1]
    /\ \A n \in DOMAIN Given : Given[n] \in [Cells(n) -> 0 .. RingSize - 1]

VARIABLES mx_data, mx_transpose,    \* of each variable
          mx_calls, mx_error,
          mx_meant,     \* history: the value the calls so far are documented to give it
          mx_clean      \* history: the variables reached by no call of the wrong kind

mx_vars == <<mx_data, mx_transpose, mx_calls, mx_error, mx_meant, mx_clean>>

(***************************************************************************)
(* The mathematics: what matrix.h says of each operation.                  *)
(***************************************************************************)
SumOf(term, n) ==
    LET sum[k \in 0 .. n] == IF k = 0 THEN 0 ELSE sum[k - 1] + term[k] IN sum[n]
Transposed(M) == [e \in { <<d[2], d[1]>> : d \in DOMAIN M } |-> M[<<e[2], e[1]>>]]
Product(M, N, n) ==
    [e \in { d[1] : d \in DOMAIN M } \X { d[2] : d \in DOMAIN N } |->
        SumOf([k \in 1 .. n |-> M[<<e[1], k>>] * N[<<k, e[2]>>]], n) % RingSize]
Cross(v, w) ==
    LET i(k) == (k % 3) + 1
        j(k) == ((k + 1) % 3) + 1
    IN  [e \in DOMAIN v |-> (v[<<i(e[1]), 1>>] * w[<<j(e[1]), 1>>] - v[<<j(e[1]), 1>>] * w[<<i(e[1]), 1>>]) % RingSize]

Meaning(name) == IF mx_transpose[name] THEN Transposed(mx_data[name]) ELSE mx_data[name]

(***************************************************************************)
(* The code: the cells of out are assigned row by row, each computed from  *)
(* what memory then holds.                                                 *)
(***************************************************************************)
(* Row times column.  The mutant does not heed the flag.                   *)
RowOfData(memory, A, row, k) == memory[A][<<row, k>>]
RowOf(memory, A, row, k) ==
    IF mx_transpose[A] THEN memory[A][<<k, row>>] ELSE memory[A][<<row, k>>]

Inner(call) == Shape[call.right][1]
Computed(call, memory, e) ==
    LET left(row, col) == memory[call.left][<<row, col>>]
        right(row, col) == memory[call.right][<<row, col>>]
    IN  CASE call.op = "transpose" -> left(e[2], e[1])
          [] call.op = "flagged" ->
               SumOf([k \in 1 .. Inner(call) |-> RowOf(memory, call.left, e[1], k) * right(k, e[2])],
                     Inner(call)) % RingSize
          [] call.op = "plain" ->
               SumOf([k \in 1 .. Inner(call) |-> left(e[1], k) * right(k, e[2])],
                     Inner(call)) % RingSize
          [] call.op = "cross" ->
               ( CASE e[1] = 1 -> left(2, 1) * right(3, 1) - right(2, 1) * left(3, 1)
                   [] e[1] = 2 -> right(1, 1) * left(3, 1) - left(1, 1) * right(3, 1)
                   [] e[1] = 3 -> left(1, 1) * right(2, 1) - right(1, 1) * left(2, 1) ) % RingSize

Size(name) == Shape[name][1] * Shape[name][2]
RowMajor(name, k) ==
    <<((k - 1) \div Shape[name][2]) + 1, ((k - 1) % Shape[name][2]) + 1>>
Stored(call, memory, e) == [memory EXCEPT ![call.out][e] = Computed(call, memory, e)]
Assigned(call) ==
    LET memory[k \in 0 .. Size(call.out)] ==
          IF k = 0 THEN mx_data ELSE Stored(call, memory[k - 1], RowMajor(call.out, k))
    IN  memory[Size(call.out)]

(* A call that gives out the documented value, and whether it is a clean   *)
(* one: its operands are, and the rules it needs are kept.                 *)
Call(op, left, right, out, meant, rules) ==
    /\ mx_calls < MaxCalls /\ ~mx_error
    /\ mx_calls' = mx_calls + 1
    /\ mx_data' = Assigned([op |-> op, left |-> left, right |-> right, out |-> out])
    /\ mx_meant' = [mx_meant EXCEPT ![out] = meant]
    /\ mx_clean' = IF {left, right} \subseteq mx_clean /\ out \notin {left, right} /\ rules
                   THEN mx_clean \cup {out} ELSE mx_clean \ {out}
    /\ UNCHANGED <<mx_transpose, mx_error>>

Fail == /\ mx_calls < MaxCalls /\ ~mx_error /\ mx_error' = TRUE
        /\ UNCHANGED <<mx_data, mx_transpose, mx_calls, mx_meant, mx_clean>>

MxInit ==
    /\ mx_data = Start
    /\ mx_meant = mx_data /\ mx_clean = Names
    /\ mx_transpose = [n \in Names |-> FALSE]
    /\ mx_calls = 0 /\ mx_error = FALSE

matrix_init(m) ==
    /\ mx_calls < MaxCalls /\ ~mx_error
    /\ mx_calls' = mx_calls + 1
    /\ mx_data' = [mx_data EXCEPT ![m] = Given[m]]
    /\ mx_transpose' = [mx_transpose EXCEPT ![m] = FALSE]
    /\ mx_meant' = [mx_meant EXCEPT ![m] = Given[m]]
    /\ mx_clean' = mx_clean \cup {m}
    /\ UNCHANGED mx_error

matrix_transpose(m) ==
    /\ mx_calls < MaxCalls /\ ~mx_error
    /\ mx_calls' = mx_calls + 1
    /\ mx_transpose' = [mx_transpose EXCEPT ![m] = ~@]
    /\ mx_meant' = [mx_meant EXCEPT ![m] = Transposed(@)]
    /\ UNCHANGED <<mx_data, mx_error, mx_clean>>

(* Neither flag is looked at, and the output's stays as it was.            *)
matrix_3x3_return_transpose(m, out) ==
    Call("transpose", m, m, out, Transposed(mx_meant[m]),
         ~mx_transpose[m] /\ ~mx_transpose[out])

TimesVector(A, x, out, n) ==
    Call("flagged", A, x, out, Product(mx_meant[A], mx_meant[x], n), TRUE)

matrix_3x3_multiply_vector(A, x, out) == TimesVector(A, x, out, 3)
matrix_4x3_3x1_multiply_vector(x) ==
    IF mx_transpose["F"] THEN Fail ELSE TimesVector("F", x, "u", 3)
matrix_4x3T_4x1_multiply_vector(out) ==
    IF ~mx_transpose["F"] THEN Fail ELSE TimesVector("F", "u", out, 4)
matrix_6x6_multiply_vector(x, out) ==
    Call("plain", "S", x, out, Product(mx_meant["S"], mx_meant[x], 6), TRUE)

matrix_3x1_cross(w, v, out) ==
    Call("cross", w, v, out, Cross(mx_meant[w], mx_meant[v]), TRUE)

(* Neither flag is looked at, and the output's stays as it was.            *)
matrix_3x3_multiply_matrix(A, B, out) ==
    Call("plain", A, B, out, Product(mx_meant[A], mx_meant[B], 3),
         \A m \in {A, B, out} : ~mx_transpose[m])

MxNext ==
    \/ \E m \in {"A", "F", "S"} : matrix_init(m)
    \/ \E m \in Mat3 \cup {"F"} : matrix_transpose(m)
    \/ \E m, out \in Mat3 : matrix_3x3_return_transpose(m, out)
    \/ \E A \in Mat3, x, out \in Vec3 : matrix_3x3_multiply_vector(A, x, out)
    \/ \E x \in Vec3 : matrix_4x3_3x1_multiply_vector(x)
    \/ \E out \in Vec3 : matrix_4x3T_4x1_multiply_vector(out)
    \/ \E x, out \in {"p", "q"} : matrix_6x6_multiply_vector(x, out)
    \/ \E w, v, out \in Vec3 : matrix_3x1_cross(w, v, out)
    \/ \E A, B, out \in Mat3 : matrix_3x3_multiply_matrix(A, B, out)

MxSpec == MxInit /\ [][MxNext]_mx_vars

------------------------------------------------------------------------------
(* Every variable means what the documentation of the calls that led to it *)
(* says, provided no call was given its output as an operand too, and no   *)
(* transposed matrix reached an operation that ignores the flag.           *)
MxMeans == \A n \in mx_clean : Meaning(n) = mx_meant[n]

(* "If true the data should be treated as transposed" (matrix.h:18): what  *)
(* matrix_3x3_return_transpose copies out is the transpose of the matrix.  *)
MxFlagHeeded ==
    [][ \A m, out \in Mat3 :
          m # out /\ matrix_3x3_return_transpose(m, out)
          => Meaning(out)' = Transposed(Meaning(m)) ]_mx_vars
===============================================================================
