------------------------------ MODULE MCProtocol ------------------------------
(***************************************************************************)
(* Messages of every type whose fields have eight different digits, or the *)
(* largest or smallest value of their type.                                *)
(***************************************************************************)
EXTENDS Protocol

Digits(w) == GetUnsigned([i \in 1 .. w |-> i % Radix])
U64 == {Digits(8) + 1, Weight[8] - 1}
U32 == {Digits(4), Weight[4] - 1}
I64 == {Digits(8), -1, -(Weight[8] \div 2), Weight[8] \div 2 - 1}
Symbols == {<<1, 2, 3, 4, 0, 0, 0, 0>>, <<7, 6, 5, 4, 3, 2, 1, 7>>}

SampleMessages ==
  [type : {"AddOrder"}, seq_num : U64, order_id : U64, symbol : Symbols, side : {0, 1},
   price : I64, quantity : U32, timestamp : {Digits(8)}]
  \cup [type : {"CancelOrder"}, seq_num : U64, order_id : U64, timestamp : U64]
  \cup [type : {"ExecuteOrder"}, seq_num : U64, order_id : U64, executed_quantity : U32,
        timestamp : U64]
  \cup [type : {"ReplaceOrder"}, seq_num : {Digits(8)}, old_order_id : U64, new_order_id : U64,
        price : I64, quantity : U32, timestamp : U64]

RoomSizes == {-1, 0, 2}
=============================================================================
