-------------------------- MODULE MCChainDatabase --------------------------
(* Small block trees for TLC. *)
EXTENDS ChainDatabase

(*  base <- root <- a1 <- a2 {1}       the first chain, a1 ahead of the clock
            root <- c1 <- d2 <- d3 {3} a fork
                    c1 <- c2           a block that does not pass verify_header
    c2 claims a higher number than its place gives it.  All three transactions
    withdraw from x, which covers two of them; 2 also withdraws what 3 deposits.  *)
CONSTANTS base, root, a1, a2, c1, c2, d2, d3

TreePrev ==
  [b \in Blocks |-> CASE b = root -> base
                      [] b \in {a1, c1} -> root
                      [] b = a2 -> a1
                      [] b \in {c2, d2} -> c1
                      [] b = d3 -> d2]

TreeNum ==
  [b \in Ids |-> CASE b = base -> 1
                   [] b = root -> 2
                   [] b \in {a1, c1} -> 3
                   [] b \in {a2, d2} -> 4
                   [] b = d3 -> 5
                   [] b = c2 -> 6]

TreeTrx ==
  [b \in Blocks |-> CASE b = a2 -> <<1>>
                      [] b = d3 -> <<3>>
                      [] OTHER -> << >>]

Amounts(C) == [c \in Coins |-> IF c \in C THEN 1 ELSE 0]

TreeTakes == <<Amounts({"x"}), Amounts({"x", "w"}), Amounts({"x"})>>

TreeGives == <<Amounts({"z"}), Amounts({"v"}), Amounts({"w"})>>

TreeFunded == [c \in Coins |-> IF c = "x" THEN 2 ELSE 0]
=============================================================================
