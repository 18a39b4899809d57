------------------------------ MODULE MCAccounts ------------------------------
(* Two users, two accounts and two names, for TLC. *)
EXTENDS Accounts, TLC

\* Everything and nothing by name, or the family library alone.
BeforeDef == {[admin |-> FALSE, all |-> TRUE, enabled |-> {}],
              [admin |-> FALSE, all |-> FALSE, enabled |-> {Family}]}
WantedDef == <<"movie">>
Symmetric == UNION {Permutations(Users), Permutations(Accounts), Permutations(Names),
                    Permutations(Requests)}
=============================================================================
