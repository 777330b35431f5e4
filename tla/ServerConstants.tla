-------------------------- MODULE ServerConstants --------------------------
(***************************************************************************)
(* The parameters of the concurrent TCP servers: Serv05, Serv08, Prefork    *)
(* and ForkServer.                                                          *)
(***************************************************************************)
EXTENDS Integers, FiniteSets

CONSTANTS
  nchildren,   \* children or threads made at the start
  Threads,     \* the threads of serv08's pool
  MAXNCLI,     \* size of serv08's ring clifd (32 in pthread08.h)
  MaxConns,    \* bound: connections that clients make to serv05 and serv08
  NConns       \* bound: connections that clients make to the others

ASSUME nchildrenAssumption == nchildren \in Nat \ {0}
ASSUME ThreadsAssumption == IsFiniteSet(Threads) /\ Threads # {}
ASSUME MAXNCLIAssumption == MAXNCLI \in Nat \ {0, 1}
ASSUME MaxConnsAssumption == MaxConns \in Nat
ASSUME NConnsAssumption == NConns \in Nat

\* The holder of connections that is not a worker: main, or the parent.
Acceptor == 0
=============================================================================
