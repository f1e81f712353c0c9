---------------------------- MODULE MCTextRequests ----------------------------
(* Two callers ask for the same background answer, one for another, and one    *)
(* for an interactive one.  A chat stream starts and stops as it likes.         *)
EXTENDS TextRequests

CONSTANTS lore, recap, reply

MCCallers == {"ada", "bob", "cleo", "dan"}
Mixed == [c \in MCCallers |->
            CASE c = "cleo" -> recap [] c = "dan" -> reply [] OTHER -> lore]
===============================================================================
