------------------------- MODULE ConfiguredRepository -------------------------
(***************************************************************************)
(* The ExampleRepository that ExampleModule makes: one of the two          *)
(* implementations, as the configuration says.  Its callers cannot tell    *)
(* which, so what they may rely on is what both keep.  The variables of    *)
(* DynamoDBExampleRepository are this module's own; those of               *)
(* InMemoryExampleRepository have names of their own here.                 *)
(***************************************************************************)
EXTENDS DynamoDBExampleRepository

VARIABLES
  useInMemoryRepository,  \* config.app.useInMemoryRepository
  order, mapItem, mapWrites, mapPc, mapScope, mapPos, mapFound, mapResult, mapOwed,
  mapSince

memory == <<order, mapItem, mapWrites, mapPc, mapScope, mapPos, mapFound, mapResult,
            mapOwed, mapSince>>

Memory == INSTANCE InMemoryExampleRepository WITH
  item <- mapItem, writes <- mapWrites, pc <- mapPc, scope <- mapScope, pos <- mapPos,
  found <- mapFound, result <- mapResult, owed <- mapOwed, since <- mapSince

(* The factory; the class that it does not make an instance of stays as it  *)
(* is here.                                                                 *)
UseFactory ==
  /\ useInMemoryRepository \in BOOLEAN
  /\ Init
  /\ Memory!Init

RepositoryStep ==
  \/ ~useInMemoryRepository /\ Next /\ UNCHANGED <<useInMemoryRepository, memory>>
  \/ useInMemoryRepository /\ Memory!Next /\ UNCHANGED <<useInMemoryRepository, vars>>

ConfiguredSpec ==
  /\ UseFactory /\ [][RepositoryStep]_<<useInMemoryRepository, memory, vars>>
  /\ \A q \in Queries :
       /\ WF_vars((FetchPage(q) \/ Yield(q) \/ PageDone(q))
                  /\ UNCHANGED <<useInMemoryRepository, memory>>)
       /\ WF_memory((Memory!Deliver(q) \/ Memory!Delivered(q)
                     \/ Memory!Yield(q) \/ Memory!IterationDone(q))
                    /\ UNCHANGED <<useInMemoryRepository, vars>>)

--------------------------------------------------------------------------------
(* Of the Map's side what findAll has yielded lies behind its iterator, one *)
(* entry each, and what a query owes its caller ahead of it: a store, of a  *)
(* new key or a known one, moves no entry from one side to the other.       *)
MapInv == Memory!IInv

(* With either repository nothing that was there is missed or repeated,     *)
(* whatever is written while a query is read.                               *)
BothImplementRepository == ImplementsRepository /\ Memory!ImplementsRepository

(* With either a query ends: however its pages are cut, and although the    *)
(* Map that it iterates over grows.                                         *)
BothEnd ==
  /\ QueryEnds
  /\ \A q \in Queries : mapPc[q] \in Memory!Running ~> mapPc[q] \notin Memory!Running
================================================================================
