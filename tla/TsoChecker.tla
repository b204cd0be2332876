----------------------------- MODULE TsoChecker -----------------------------
(***************************************************************************)
(* The timestamp-ordered bank checker of db/tidb/bank.go (bankTsoChecker)  *)
(* as operators.  The checker pairs the call and return events of a        *)
(* history, keeps the operations that carry a start timestamp, sorts them  *)
(* by it and replays them: per account it keeps the list of transfers that *)
(* may or may not have happened (possibleEvents) and confirms or refutes   *)
(* them from the balances later operations saw.                            *)
(*                                                                         *)
(* A tsoEvent is a record; the checker holds events by pointer, so one     *)
(* transfer sits in the lists of both its accounts and its Unknown flag    *)
(* is shared.  The model keeps the events in one table (ck.evs) and the    *)
(* lists as sequences of indices into it.  Accounts are 1..AccountNum.     *)
(***************************************************************************)
EXTENDS Integers, Sequences, FiniteSets, SequencesExt

CONSTANTS
    AccountNum,     \* accountNum: the number of accounts (5 in the source)
    InitBalance,    \* initBalance: what every account starts with
    Amount          \* the amount of every transfer (NextRequest: r.Amount = 5)

ASSUME AccountNum \in Nat \ {0, 1}
ASSUME InitBalance \in Nat /\ Amount \in Nat \ {0}

Accounts == 1 .. AccountNum

Read     == 0       \* bankRequest.Op
Transfer == 1

NoTso == 0          \* the zero Tso of a response that never got one

(***************************************************************************)
(* The checker's state: the table of events, Unknown flags included, and   *)
(* possibleEvents.                                                         *)
(***************************************************************************)
NewChecker(tEvents) ==
    [evs |-> tEvents, possible |-> [a \in Accounts |-> <<>>]]

\* The balance of account index before and after transfer e.
GetBalances(e, index) ==
    IF index = e.From
        THEN [cur |-> e.FromBalance, next |-> e.FromBalance - Amount]
        ELSE [cur |-> e.ToBalance,   next |-> e.ToBalance + Amount]

\* lastEvent.Unknown = false, seen through every list that holds the event.
Confirm(ck, id) == [ck EXCEPT !.evs[id].Unknown = FALSE]

-----------------------------------------------------------------------------
(***************************************************************************)
(* Mutated forms of checkBalance and checkTransferEvents.                  *)
(***************************************************************************)
checkBalance_OnlyNext(ck, index, events, curBalance) ==
    LET hit(i) == GetBalances(ck.evs[events[i]], index).next = curBalance
        last   == SelectLastInSeq([i \in DOMAIN events |-> hit(i)], LAMBDA h : h)
    IN  IF events = <<>> THEN [ok |-> curBalance = InitBalance, ck |-> ck]
        ELSE IF last = 0 THEN [ok |-> FALSE, ck |-> ck]
        ELSE [ok |-> TRUE, ck |-> Confirm(ck, events[last])]

checkTransferEvents_NoChain(ck, index, events) ==
    LET known == {i \in DOMAIN events : ~ck.evs[events[i]].Unknown}
    IN  [err |-> FALSE, lastIndex |-> IF known = {} THEN 1 ELSE Max(known)]

-----------------------------------------------------------------------------
(***************************************************************************)
(* checkBalance: may an operation have seen curBalance on account index,   *)
(* given the account's list?  The list is searched from its end; the first *)
(* event found whose balance after it is curBalance is thereby known to    *)
(* have happened, one whose balance before it is curBalance proves nothing.*)
(***************************************************************************)
checkBalance(ck, index, events, curBalance) ==
    LET bal(i) == GetBalances(ck.evs[events[i]], index)
        hit(i) == curBalance \in {bal(i).cur, bal(i).next}
        last   == SelectLastInSeq([i \in DOMAIN events |-> hit(i)], LAMBDA h : h)
    IN  IF events = <<>> THEN [ok |-> curBalance = InitBalance, ck |-> ck]
        ELSE IF last = 0 THEN [ok |-> FALSE, ck |-> ck]
        ELSE [ok |-> TRUE,
              ck |-> IF bal(last).next = curBalance
                        THEN Confirm(ck, events[last]) ELSE ck]

(***************************************************************************)
(* checkTransferEvents: the events of the list that are known to have      *)
(* happened must form a chain, each starting from the balance the one      *)
(* before it left.  Gives the position of the last of them, the first      *)
(* position when there is none.                                            *)
(***************************************************************************)
checkTransferEvents(ck, index, events) ==
    LET known   == {i \in DOMAIN events : ~ck.evs[events[i]].Unknown}
        bal(i)  == GetBalances(ck.evs[events[i]], index)
        follows(i, j) == i < j /\ ~\E k \in known : i < k /\ k < j
    IN  [err |-> \E i, j \in known : follows(i, j) /\ bal(i).next # bal(j).cur,
         lastIndex |-> IF known = {} THEN 1 ELSE Max(known)]

\* Mutated form of mergeTransferEvents: the call of checkBalance is left out.
mergeTransferEvents_NoBalance(ck, index, id) ==
    LET events == Append(ck.possible[index], id)
        chain  == checkTransferEvents(ck, index, events)
    IN  IF chain.err THEN [ok |-> FALSE, ck |-> ck]
        ELSE [ok |-> TRUE,
              ck |-> [ck EXCEPT !.possible[index] =
                         SubSeq(events, chain.lastIndex, Len(events))]]

\* Mutated form of mergeTransferEvents: the list is never cut.
mergeTransferEvents_NoCut(ck, index, id) ==
    LET seen    == checkBalance(ck, index, ck.possible[index],
                                GetBalances(ck.evs[id], index).cur)
        events  == Append(ck.possible[index], id)
        chain   == checkTransferEvents(seen.ck, index, events)
    IN  IF ~seen.ok \/ chain.err
            THEN [ok |-> FALSE, ck |-> seen.ck]
            ELSE [ok |-> TRUE, ck |-> [seen.ck EXCEPT !.possible[index] = events]]

\* Mutated form of mergeTransferEvents: the cut starts after the last known
\* event (events[lastIdx+1:]).
mergeTransferEvents_CutsOneLate(ck, index, id) ==
    LET seen    == checkBalance(ck, index, ck.possible[index],
                                GetBalances(ck.evs[id], index).cur)
        events  == Append(ck.possible[index], id)
        chain   == checkTransferEvents(seen.ck, index, events)
    IN  IF ~seen.ok \/ chain.err
            THEN [ok |-> FALSE, ck |-> seen.ck]
            ELSE [ok |-> TRUE,
                  ck |-> [seen.ck EXCEPT !.possible[index] =
                             SubSeq(events, chain.lastIndex + 1, Len(events))]]

(***************************************************************************)
(* mergeTransferEvents: add transfer id to the list of account index, and  *)
(* forget what came before the last event known to have happened.          *)
(***************************************************************************)
mergeTransferEvents(ck, index, id) ==
    LET seen    == checkBalance(ck, index, ck.possible[index],
                                GetBalances(ck.evs[id], index).cur)
        events  == Append(ck.possible[index], id)
        chain   == checkTransferEvents(seen.ck, index, events)
    IN  IF ~seen.ok \/ chain.err
            THEN [ok |-> FALSE, ck |-> seen.ck]
            ELSE [ok |-> TRUE,
                  ck |-> [seen.ck EXCEPT !.possible[index] =
                             SubSeq(events, chain.lastIndex, Len(events))]]

(***************************************************************************)
(* verifyReadEvent: a read that is not unknown must have seen, on every    *)
(* account, a balance its list allows, and the balances must add up.       *)
(* checkBalance reads no Unknown flag, so the order of the accounts is     *)
(* immaterial and the confirmations are applied one account after another. *)
(***************************************************************************)
verifyReadEvent(ck, id) ==
    LET e == ck.evs[id]
        seen(c, i) == checkBalance(c, i, c.possible[i], e.Balances[i])
        index == [i \in DOMAIN e.Balances |-> i]
        confirmed == FoldLeft(LAMBDA c, i : seen(c, i).ck, ck, index)
    IN  IF e.Unknown THEN [ok |-> TRUE, ck |-> ck]
        ELSE [ok |-> /\ \A i \in DOMAIN e.Balances : seen(ck, i).ok
                     /\ FoldLeft(+, 0, e.Balances) = Len(e.Balances) * InitBalance,
              ck |-> confirmed]

(***************************************************************************)
(* One turn of the loop of verifyTsoEvents, on event id.                   *)
(***************************************************************************)
verifyEvent(ck, id) ==
    LET e == ck.evs[id]
        from == mergeTransferEvents(ck, e.From, id)
        to   == mergeTransferEvents(from.ck, e.To, id)
    IN  IF e.Op = Read THEN verifyReadEvent(ck, id)
        ELSE IF ~from.ok THEN from ELSE to

\* verifyTsoEvents: the replay of the sorted events; false at the first that fails.
verifyTsoEvents(tEvents) ==
    LET turn(st, id) == IF st.ok THEN verifyEvent(st.ck, id) ELSE st
    IN  FoldLeft(turn, [ok |-> TRUE, ck |-> NewChecker(tEvents)],
                 [i \in DOMAIN tEvents |-> i]).ok

-----------------------------------------------------------------------------
(***************************************************************************)
(* generateTsoEvents: a return event is paired with the call of its Id     *)
(* (mapEvents holds the calls not yet paired); a response without a Tso is *)
(* dropped; what is left is sorted by Tso.                                 *)
(***************************************************************************)
tsoEvent(request, response) ==
    IF request.Op = Read
        THEN [Tso |-> response.Tso, Op |-> Read, Unknown |-> response.Unknown,
              Balances |-> response.Balances]
        ELSE [Tso |-> response.Tso, Op |-> Transfer, Unknown |-> response.Unknown,
              From |-> request.From, To |-> request.To,
              FromBalance |-> response.FromBalance,
              ToBalance |-> response.ToBalance]

\* Mutated form of generateTsoEvents: a response without a Tso is kept.
generateTsoEvents_KeepsNoTso(events) ==
    LET same(j)   == {i \in 1 .. j - 1 : events[i].Id = events[j].Id}
        callOf(j) == IF same(j) = {} THEN 0 ELSE Max(same(j))
        paired    == {j \in DOMAIN events : /\ events[j].Kind = "return"
                                            /\ callOf(j) # 0
                                            /\ events[callOf(j)].Kind = "call"}
    IN  SetToSortSeq({tsoEvent(events[callOf(j)].Value, events[j].Value) : j \in paired},
                     LAMBDA a, b : a.Tso < b.Tso)

generateTsoEvents(events) ==
    LET same(j)   == {i \in 1 .. j - 1 : events[i].Id = events[j].Id}
        callOf(j) == IF same(j) = {} THEN 0 ELSE Max(same(j))
        paired    == {j \in DOMAIN events :
                        /\ events[j].Kind = "return"
                        /\ callOf(j) # 0
                        /\ events[callOf(j)].Kind = "call"
                        /\ events[j].Value.Tso # NoTso}
    IN  SetToSortSeq({tsoEvent(events[callOf(j)].Value, events[j].Value) : j \in paired},
                     LAMBDA a, b : a.Tso < b.Tso)

\* bankTsoChecker.Check, on the events of a history.
Check(events) == verifyTsoEvents(generateTsoEvents(events))
=============================================================================
