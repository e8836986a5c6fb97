----------------------------- MODULE MCStartup -----------------------------
(***************************************************************************)
(* Arguments for TLC: lists that are accepted, with fields too many, odd    *)
(* counts and none; lists that are not; and directories with up to three    *)
(* files, with one that cannot be opened, with a directory inside, and with *)
(* . and .. in other places: with the same first two files in one order,    *)
(* and also with the two the other way round, with others, with a different *)
(* number of rows, and with one only.                                       *)
(***************************************************************************)
EXTENDS Startup

Dot == Entry(".", TRUE, 0)
Dots == Entry("..", TRUE, 0)
A == Entry("a", TRUE, 2)
B == Entry("b", TRUE, 1)
C == Entry("c", TRUE, 3)
C2 == Entry("c", TRUE, 2)
Closed == Entry("closed", FALSE, 3)
Sub == Entry("sub", TRUE, 0)

MCLists == {<<0>>, <<1, 4>>, <<2, 3, 1>>, <<3, 1, 2, 2>>, <<5, 1, 1, 2, 1, 3>>,
            <<2, 3, 1, 7>>, <<2, 3>>, <<2, 0, 1>>, <<2, 3, 0>>, <<-1, 2>>}

MCDirs == {<<<<Dot, Dots>>, <<Dots, Dot>>>>,
           <<<<Dot, A, Dots>>, <<A, Dot, Dots>>>>,
           <<<<A, Dot, B, Dots>>, <<Dot, Dots, A, B>>>>,
           <<<<Dot, Closed, B, Dots, A>>, <<B, Dots, A, Closed, Dot>>>>,
           <<<<Dot, Sub, Dots, B>>, <<Sub, B, Dot, Dots>>>>,
           <<<<Dot, Dots, C, B, A>>, <<C, B, A, Dots, Dot>>>>,
           <<<<A, B, C, Dots, Dot>>, <<A, Dot, B, Dots>>>>,
           <<<<A, C, Dot, Dots>>, <<A, C2, Dot, Dots>>>>,
           <<<<Dot, A, Dots, B>>, <<Dots, Closed, Dot, B>>>>}

(* The same files, in other orders. *)
MCOrders == {<<<<Dot, A, B, Dots>>, <<Dot, B, A, Dots>>>>,
             <<<<Dot, Dots, A, C, B>>, <<Dot, Dots, A, B, C>>>>}

Paths(dirs) == {[kind |-> "path", dir |-> [p \in Proxies |-> d[p + 1]]] : d \in dirs}
MCArguments ==
    {[kind |-> "none"]}
        \cup {[kind |-> "list", fields |-> l] : l \in MCLists}
        \cup Paths(MCDirs \cup MCOrders)
=============================================================================
