----------------------------- MODULE MCWriteRequest -----------------------------
(* Messages of up to four parts for TLC. *)
EXTENDS WriteRequest

\* Every list of up to three parts that an application may hand over, and longer ones that
\* begin with more empty parts than one call of sendmsg() takes.
Elements == [store : {"js", "owned"}, length : 0..3]
Empty == [store |-> "js", length |-> 0]
AllLists ==
    UNION {[1..n -> Elements] : n \in 1..3} \cup
    {<<Empty, Empty, e, f>> : e, f \in Elements} \cup {<<e, Empty, Empty, f>> : e, f \in Elements}
=============================================================================
