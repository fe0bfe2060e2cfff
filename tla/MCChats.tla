------------------------------ MODULE MCChats ------------------------------
(* Three people, two requests at once, two messages and room for one pin.  *)
(* SetToSeq gives the receipts that are there at first an order that       *)
(* Permutations would change; nothing depends on it.                       *)
EXTENDS Chats, TLC

Alike ==
  Permutations(Users) \union Permutations(Request) \union Permutations(Message)
    \union Permutations(Emoji)

(* Pins need a promotion or two before they meet a demotion, and an unpin  *)
(* a pin before it meets a deletion.                                       *)
MCTopics ==
  {[ops |-> {"promote", "demote", "remove", "pin", "unpin"}, most |-> 3, delivered |-> FALSE],
   [ops |-> {"edit", "delete", "react", "unreact"}, most |-> 2, delivered |-> FALSE],
   [ops |-> {"react", "unreact"}, most |-> 3, delivered |-> FALSE],
   [ops |-> {"pin", "unpin", "delete"}, most |-> 3, delivered |-> FALSE]}
  \union [ops : {{"delivered", "read", "edit", "delete"}}, most : {2}, delivered : BOOLEAN]
=============================================================================
