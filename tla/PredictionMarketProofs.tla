------------------------ MODULE PredictionMarketProofs ------------------------
(***************************************************************************)
(* Proofs about PredictionMarket for any number of users and positions,    *)
(* any amounts, prices and times, and any rates and limits its assumptions *)
(* allow: the types, what the pool promises each position and each share,  *)
(* that the counters and the registers are the sums of what the accounts   *)
(* hold, and that the market implements MarketLedger.                      *)
(***************************************************************************)
EXTENDS MarketLedger, SettlementMathProofs, FiniteSetTheorems, WellFoundedInduction

-----------------------------------------------------------------------------
(***************************************************************************)
(* Sums over finite sets.  The fold takes the elements in the order that   *)
(* CHOOSE gives them; that the order does not matter follows from counting *)
(* units, one pair <<element, i>> for each unit i of an element's number.  *)
(***************************************************************************)

\* The units of the numbers that f gives the elements of S, as pairs <<element, i>>.
Units(f, S) == {x \in S \X Nat : x[2] \in 1..f[x[1]]}

\* One more number adds its units.
LEMMA UnitsSplit ==
  ASSUME NEW f, NEW S, IsFiniteSet(Units(f, S)), NEW e, e \notin S, f[e] \in Nat
  PROVE  /\ IsFiniteSet(Units(f, S \cup {e}))
         /\ Cardinality(Units(f, S \cup {e})) = f[e] + Cardinality(Units(f, S))
<1> DEFINE c == f[e]
           own == {e} \X (1..c)
<1>1. IsFiniteSet({e}) /\ Cardinality({e}) = 1
  BY FS_Singleton
<1>2. IsFiniteSet(1..c) /\ Cardinality(1..c) = c
  <2>1. c \in Nat
    OBVIOUS
  <2> HIDE DEF c
  <2>2. IsFiniteSet(1..c) /\ Cardinality(1..c) = IF 1 > c THEN 0 ELSE c - 1 + 1
    BY <2>1, FS_Interval
  <2>. QED BY <2>1, <2>2
<1>3. IsFiniteSet(own) /\ Cardinality(own) = 1 * c
  BY <1>1, <1>2, FS_Product
<1>4. Units(f, S \cup {e}) = Units(f, S) \cup own
  BY DEF Units
<1>5. Units(f, S) \cap own = {}
  BY DEF Units
<1> HIDE DEF own
<1>6. Cardinality({}) = 0 /\ Cardinality(Units(f, S)) \in Nat
  BY FS_EmptySet, FS_CardinalityType
<1>7. /\ IsFiniteSet(Units(f, S) \cup own)
      /\ Cardinality(Units(f, S) \cup own)
           = Cardinality(Units(f, S)) + Cardinality(own) - Cardinality(Units(f, S) \cap own)
  BY <1>3, FS_Union
<1>8. Cardinality(Units(f, S) \cup own) = Cardinality(Units(f, S)) + (1 * c) - 0
  BY <1>3, <1>5, <1>6, <1>7, Zenon
<1>9. Cardinality(Units(f, S)) + (1 * c) - 0 = c + Cardinality(Units(f, S))
  BY <1>6
<1>. QED BY <1>4, <1>7, <1>8, <1>9

\* Finitely many numbers have finitely many units.
LEMMA UnitsFinite ==
  ASSUME NEW S, IsFiniteSet(S), NEW f, \A x \in S : f[x] \in Nat
  PROVE  IsFiniteSet(Units(f, S))
<1> DEFINE own == [x \in S |-> {x} \X (1..f[x])]
           all == {own[x] : x \in S}
<1>1. IsFiniteSet(all)
  <2>1. own \in Surjection(S, all)
    BY DEF Surjection
  <2> HIDE DEF own, all
  <2>. QED BY <2>1, FS_Surjection
<1>2. ASSUME NEW T \in all PROVE IsFiniteSet(T)
  <2>1. PICK x \in S : T = {x} \X (1..f[x])
    BY <1>2
  <2>2. 1 \in Int /\ f[x] \in Int
    OBVIOUS
  <2>3. IsFiniteSet({x}) /\ IsFiniteSet(1..f[x])
    BY <2>2, FS_Singleton, FS_Interval
  <2>. QED BY <2>1, <2>3, FS_Product
<1>3. IsFiniteSet(UNION all)
  <2> HIDE DEF all
  <2>. QED BY <1>1, <1>2, FS_UNION
<1>4. Units(f, S) \subseteq UNION all
  <2>1. ASSUME NEW z \in Units(f, S) PROVE z \in own[z[1]] /\ z[1] \in S
    <3>1. z \in S \X Nat /\ z[2] \in 1..f[z[1]]
      BY DEF Units
    <3>2. z = <<z[1], z[2]>> /\ z[1] \in S
      BY <3>1
    <3>. QED BY <3>1, <3>2
  <2>. QED BY <2>1
<1>. QED BY <1>3, <1>4, FS_Subset

\* A sum is the number of the units of what it adds up, in whatever order the fold
\* takes them.
LEMMA SumCounts ==
  ASSUME NEW S, IsFiniteSet(S), NEW f, \A x \in S : f[x] \in Nat
  PROVE  SumFunctionOnSet(f, S) = Cardinality(Units(f, S))
<1> DEFINE pick(s)  == CHOOSE x \in s : TRUE
           body(g) == [s \in SUBSET S |->
                         IF s = {} THEN 0 ELSE f[pick(s)] + g[s \ {pick(s)}]]
           iter  == CHOOSE g : g = body(g)
           count == [s \in SUBSET S |-> Cardinality(Units(f, s))]
<1>1. SumFunctionOnSet(f, S) = iter[S]
  BY DEF SumFunctionOnSet, FoldFunctionOnSet, MapThenFoldSet
\* The count satisfies the equation of the fold.
<1>2. ASSUME NEW s \in SUBSET S, s # {}
      PROVE  /\ pick(s) \in s
             /\ Cardinality(Units(f, s)) = f[pick(s)] + Cardinality(Units(f, s \ {pick(s)}))
  <2>1. pick(s) \in s
    BY <1>2
  <2> DEFINE e == pick(s)
             r == s \ {e}
  <2> HIDE DEF pick
  <2>2. s = r \cup {e} /\ e \notin r /\ f[e] \in Nat /\ IsFiniteSet(r)
    BY <2>1, FS_Subset
  <2>3. IsFiniteSet(Units(f, r))
    BY <2>2, UnitsFinite
  <2> HIDE DEF e, r
  <2>4. Cardinality(Units(f, r \cup {e})) = f[e] + Cardinality(Units(f, r))
    BY <2>2, <2>3, UnitsSplit
  <2>. QED BY <2>1, <2>2, <2>4 DEF e, r
<1>3. Cardinality(Units(f, {})) = 0
  <2>1. Units(f, {}) = {}
    BY DEF Units
  <2>. QED BY <2>1, FS_EmptySet
<1> HIDE DEF pick
<1>4. count = body(count)
  BY <1>2, <1>3
<1>5. iter = body(iter)
  <2> HIDE DEF body, count
  <2>. QED BY <1>4, Zenon
\* So it is what the fold computes: there is no smallest set at which they differ.
<1> HIDE DEF iter
<1> DEFINE Differ == {T \in FiniteSubsetsOf(S) : iter[T] # Cardinality(Units(f, T))}
<1>6. S \in FiniteSubsetsOf(S)
  BY DEF FiniteSubsetsOf
<1>7. SUFFICES ASSUME Differ # {} PROVE FALSE
  BY <1>1, <1>6
<1>8. PICK T \in Differ : \A U \in Differ : ~(<<U, T>> \in StrictSubsetOrdering(S))
  <2>1. IsWellFoundedOn(StrictSubsetOrdering(S), FiniteSubsetsOf(S))
    BY FS_StrictSubsetOrderingWellFounded
  <2>2. Differ \subseteq FiniteSubsetsOf(S)
    OBVIOUS
  <2> HIDE DEF Differ
  <2> QED  BY <1>7, <2>1, <2>2, WFMin
<1>9. T \in SUBSET S /\ iter[T] # Cardinality(Units(f, T))
  BY <1>8 DEF FiniteSubsetsOf
<1>10. T # {}
  BY <1>3, <1>5, <1>9
<1> DEFINE e == pick(T)
           U == T \ {e}
<1>11. e \in T /\ Cardinality(Units(f, T)) = f[e] + Cardinality(Units(f, U))
  BY <1>2, <1>9, <1>10
<1>12. iter[T] = f[e] + iter[U]
  BY <1>5, <1>9, <1>10
<1>13. U \in SUBSET S /\ U \in FiniteSubsetsOf(S) /\ <<U, T>> \in StrictSubsetOrdering(S)
  BY <1>9, <1>11, FS_Subset DEF StrictSubsetOrdering, FiniteSubsetsOf
<1> HIDE DEF e, U
<1>14. U \notin Differ
  BY <1>8, <1>13
<1>15. iter[U] = Cardinality(Units(f, U))
  BY <1>13, <1>14
<1>. QED BY <1>9, <1>11, <1>12, <1>15

\* A sum of naturals is a natural, nothing sums to nothing, and each element can be
\* taken out of the sum.
LEMMA SumFacts ==
  ASSUME NEW S, IsFiniteSet(S), NEW f, \A x \in S : f[x] \in Nat
  PROVE  /\ SumFunctionOnSet(f, S) \in Nat
         /\ SumFunctionOnSet(f, {}) = 0
         /\ \A e \in S :
              /\ SumFunctionOnSet(f, S \ {e}) \in Nat
              /\ SumFunctionOnSet(f, S) = f[e] + SumFunctionOnSet(f, S \ {e})
<1>1. ASSUME NEW T \in SUBSET S
      PROVE  /\ IsFiniteSet(T) /\ IsFiniteSet(Units(f, T))
             /\ SumFunctionOnSet(f, T) = Cardinality(Units(f, T))
             /\ SumFunctionOnSet(f, T) \in Nat
  <2>1. IsFiniteSet(T) /\ \A x \in T : f[x] \in Nat
    BY FS_Subset
  <2>2. IsFiniteSet(Units(f, T)) /\ SumFunctionOnSet(f, T) = Cardinality(Units(f, T))
    BY <2>1, UnitsFinite, SumCounts
  <2>. QED BY <2>1, <2>2, FS_CardinalityType
<1>2. SumFunctionOnSet(f, {}) = 0
  <2>1. Units(f, {}) = {}
    BY DEF Units
  <2>. QED BY <1>1, <2>1, FS_EmptySet
<1>3. ASSUME NEW e \in S
      PROVE  SumFunctionOnSet(f, S) = f[e] + SumFunctionOnSet(f, S \ {e})
  <2> DEFINE r == S \ {e}
  <2>1. S = r \cup {e} /\ e \notin r /\ r \in SUBSET S
    OBVIOUS
  <2> HIDE DEF r
  <2>2. Cardinality(Units(f, r \cup {e})) = f[e] + Cardinality(Units(f, r))
    BY <1>1, <2>1, UnitsSplit
  <2>. QED BY <1>1, <2>1, <2>2 DEF r
<1>. QED BY <1>1, <1>2, <1>3

\* Functions that agree have the same sum.
LEMMA SumAgrees ==
  ASSUME NEW S, IsFiniteSet(S), NEW f, NEW g,
         \A x \in S : f[x] \in Nat /\ g[x] = f[x]
  PROVE  SumFunctionOnSet(g, S) = SumFunctionOnSet(f, S)
<1>1. Units(g, S) = Units(f, S)
  BY DEF Units
<1>. QED BY <1>1, SumCounts

\* Where one entry changes, the sum changes by as much.
LEMMA SumChanges ==
  ASSUME NEW S, IsFiniteSet(S), NEW f, NEW g, NEW e \in S, g[e] \in Nat, f[e] \in Nat,
         \A x \in S \ {e} : f[x] \in Nat /\ g[x] = f[x]
  PROVE  SumFunctionOnSet(g, S) = SumFunctionOnSet(f, S) - f[e] + g[e]
<1>1. IsFiniteSet(S \ {e})
  BY FS_Subset
<1>2. SumFunctionOnSet(g, S \ {e}) = SumFunctionOnSet(f, S \ {e})
  BY <1>1, SumAgrees
<1>3. /\ \A x \in S : f[x] \in Nat
      /\ \A x \in S : g[x] \in Nat
  OBVIOUS
<1>4. /\ SumFunctionOnSet(f, S) = f[e] + SumFunctionOnSet(f, S \ {e})
      /\ SumFunctionOnSet(f, S \ {e}) \in Nat
  BY <1>3, SumFacts
<1>5. SumFunctionOnSet(g, S) = g[e] + SumFunctionOnSet(g, S \ {e})
  BY <1>3, SumFacts
<1>6. f[e] \in Nat /\ g[e] \in Nat
  OBVIOUS
<1>. QED BY <1>2, <1>4, <1>5, <1>6

-----------------------------------------------------------------------------
(***************************************************************************)
(* What an instruction's inputs and a run's terms are.                     *)
(***************************************************************************)

\* The sets the instructions draw their amounts from hold naturals.
LEMMA InputTypes ==
  /\ Collaterals \subseteq Nat /\ Allowances \subseteq Nat /\ Deposits \subseteq Nat
  /\ Donations \subseteq Nat /\ ShareAmounts \subseteq Nat /\ Minimums \subseteq Nat
  /\ FeeAmounts \subseteq Nat
  BY InputsAssumption

\* So is the width of the nonces a natural.
LEMMA NonceWidth == U32_MAX \in Nat
  BY InputsAssumption

\* An update that qualifies has a price a position can be settled with.
LEMMA QualifyingPrice ==
  ASSUME NEW update \in OracleUpdates, QualifyingSample(update)
  PROVE  update.price \in Nat \ {0}
<1>1. update.price \in Int
  BY InputsAssumption
<1>. QED BY <1>1 DEF QualifyingSample

\* A refund and a settlement pay natural amounts, together never more than the
\* stake and the capped profit.
LEMMA TermsBounds ==
  ASSUME NEW p \in CompactPosition
  PROVE  /\ RefundTerms(p).payout = p.collateral
         /\ RefundTerms(p).platform_fee = 0
         /\ RefundTerms(p).outcome = "Refunded"
         /\ p.collateral <= p.collateral * (1 + MAX_GROSS_PROFIT_MULTIPLIER)
         /\ \A update \in OracleUpdates :
              QualifyingSample(update) =>
                LET terms == SettlementTerms(p, update)
                IN  /\ terms.payout \in Nat
                    /\ terms.platform_fee \in Nat
                    /\ terms.outcome \in PositionOutcome \ {"Refunded"}
                    /\ terms.payout + terms.platform_fee
                         <= p.collateral * (1 + MAX_GROSS_PROFIT_MULTIPLIER)
<1>1. /\ p.collateral \in Nat \ {0} /\ p.entry_price \in Nat \ {0} /\ p.direction \in Direction
  BY DEF CompactPosition
<1>2. p.collateral <= p.collateral * (1 + MAX_GROSS_PROFIT_MULTIPLIER)
  BY <1>1, RatesAssumption
<1>3. ASSUME NEW update \in OracleUpdates, QualifyingSample(update)
      PROVE  LET terms == SettlementTerms(p, update)
             IN  /\ terms.payout \in Nat
                 /\ terms.platform_fee \in Nat
                 /\ terms.outcome \in PositionOutcome \ {"Refunded"}
                 /\ terms.payout + terms.platform_fee
                      <= p.collateral * (1 + MAX_GROSS_PROFIT_MULTIPLIER)
  <2> DEFINE amounts ==
        CalculateSettlement(p.collateral, p.entry_price, update.price, p.direction)
  <2>1. update.price \in Nat
    BY <1>3, QualifyingPrice
  <2>2. /\ amounts.user_payout \in Nat /\ amounts.protocol_fee \in Nat
        /\ amounts.user_payout + amounts.protocol_fee
             <= p.collateral * (1 + MAX_GROSS_PROFIT_MULTIPLIER)
    BY <1>1, <2>1, SettlementBounds
  <2> HIDE DEF amounts
  <2>3. Outcome(amounts) \in PositionOutcome \ {"Refunded"}
    BY DEF Outcome, PositionOutcome
  <2>4. SettlementTerms(p, update) =
          [payout |-> amounts.user_payout, platform_fee |-> amounts.protocol_fee,
           outcome |-> Outcome(amounts)]
    BY DEF SettlementTerms, amounts
  <2>. QED BY <2>2, <2>3, <2>4
<1>. QED BY <1>2, <1>3 DEF RefundTerms

-----------------------------------------------------------------------------
(***************************************************************************)
(* Type correctness.                                                       *)
(***************************************************************************)

\* The Market starts empty.
LEMMA TypeInit == Init => TypeOK
<1> SUFFICES ASSUME Init PROVE TypeOK
  OBVIOUS
<1>1. U32_MAX \in Nat /\ InitialWallet \in [Users -> Nat]
  BY InputsAssumption
<1>2. Unopened \in LogEntry
  BY DEF Unopened, LogEntry
<1>3. EmptyEntry \in MarketLiquidity
  BY DEF EmptyEntry, MarketLiquidity
<1>. QED BY <1>1, <1>2, <1>3 DEF Init, TypeOK, MarketMode

\* What is left of a task after a run is a task.
LEMMA TypeUseIteration ==
  ASSUME TypeOK, NEW t \in tasks, UseIteration(t)
  PROVE  tasks' \in SUBSET ScheduledTask
<1> DEFINE left == t.iterations - 1
           next == now + SETTLEMENT_TASK_INTERVAL
           r    == [t EXCEPT !.iterations = left, !.due = next]
<1>1. t \in ScheduledTask /\ next \in Nat
  BY TimingAssumption DEF TypeOK
<1>2. left \in Nat
  BY <1>1 DEF ScheduledTask
<1>3. tasks' = (tasks \ {t}) \cup {x \in {r} : x.iterations > 0}
  BY DEF UseIteration
<1> HIDE DEF left, next
<1>4. r.iterations = left
  BY <1>1, <1>2 DEF ScheduledTask
<1>5. left # 0 => r \in ScheduledTask
  BY <1>1, <1>2 DEF ScheduledTask
<1> HIDE DEF r
<1>. QED BY <1>2, <1>3, <1>4, <1>5 DEF TypeOK

\* Closing a position keeps the types, whatever terms a run may have.
LEMMA TypeClose ==
  ASSUME TypeOK,
         NEW u \in Users, NEW p \in user_positions[u], NEW terms, NEW usable \in BOOLEAN,
         terms.payout \in Nat, terms.platform_fee \in Nat, terms.outcome \in PositionOutcome,
         ClosePosition(u, p, terms, usable), NEW t \in tasks, UseIteration(t)
  PROVE  TypeOK'
<1>1. p \in CompactPosition /\ p.collateral \in Nat /\ p.nonce \in Nonces
  BY DEF TypeOK, CompactPosition
<1>2. /\ now' \in Nat /\ total_shares' \in Nat /\ risk_epoch_equity' \in Nat
      /\ next_position_nonce' \in 0..U32_MAX /\ mode' \in MarketMode
      /\ withdrawn_fees' \in Nat /\ user_liquidity' \in [Users -> MarketLiquidity]
  BY DEF TypeOK, ClosePosition
<1>3. open_collateral' \in Nat /\ active_positions' \in Nat
  BY <1>1 DEF TypeOK, ClosePosition, CanClose, ReleaseRisk
<1>4. pool' \in Nat /\ fees' \in Nat
  BY DEF TypeOK, ClosePosition, CanClose
<1>5. wallet' \in [Users -> Nat] /\ escrow' \in [Users -> Nat]
  BY DEF TypeOK, ClosePosition, PayUser
<1>6. user_positions' \in [Users -> SUBSET CompactPosition]
  BY DEF TypeOK, ClosePosition
<1>7. log' \in [Nonces -> LogEntry]
  <2>1. log' = [log EXCEPT ![p.nonce] =
                  [status |-> terms.outcome, collateral |-> log[p.nonce].collateral,
                   payout |-> terms.payout, platform_fee |-> terms.platform_fee]]
    BY <1>1 DEF ClosePosition, TypeOK
  <2>2. log[p.nonce].collateral \in Nat
    BY <1>1 DEF TypeOK, LogEntry
  <2>3. [status |-> terms.outcome, collateral |-> log[p.nonce].collateral,
         payout |-> terms.payout, platform_fee |-> terms.platform_fee] \in LogEntry
    BY <2>2 DEF LogEntry
  <2>. QED BY <1>1, <2>1, <2>3 DEF TypeOK
<1>8. tasks' \in SUBSET ScheduledTask
  BY TypeUseIteration
<1>. QED BY <1>2, <1>3, <1>4, <1>5, <1>6, <1>7, <1>8 DEF TypeOK


\* No instruction, scheduler run or step of the environment leaves the types.
LEMMA TypeStep == TypeOK /\ [Next]_vars => TypeOK'
<1> SUFFICES ASSUME TypeOK, [Next]_vars PROVE TypeOK'
  OBVIOUS
<1>1. CASE Trade
  <2> PICK u \in Users, task_salt \in TaskSalts, direction \in Direction,
           collateral \in Collaterals, window \in PriceWindows, delegated \in Allowances,
           update \in OracleUpdates :
             OpenPosition(u, next_position_nonce, task_salt, direction, collateral, window,
                          delegated, update)
    BY <1>1 DEF Trade
  <2> DEFINE nonce == next_position_nonce
             position == [nonce |-> nonce, task_salt |-> task_salt,
                          collateral |-> collateral, entry_price |-> update.price,
                          expires_at |-> now + POSITION_DURATION_SECONDS,
                          direction |-> direction]
             task == [user |-> u, nonce |-> nonce, task_salt |-> task_salt,
                      iterations |-> SETTLEMENT_TASK_ITERATIONS, due |-> now]
             entry == [status |-> "Open", collateral |-> collateral,
                       payout |-> 0, platform_fee |-> 0]
  <2>1. collateral \in Nat \ {0} /\ wallet[u] >= collateral
    BY InputTypes, LimitsAssumption DEF OpenPosition, AdmitsPosition, CollateralInBounds
  <2>2. nonce \in Nonces /\ nonce + 1 \in 0..U32_MAX
    <3>1. nonce \in 0..U32_MAX /\ nonce < U32_MAX
      BY DEF OpenPosition, TypeOK
    <3>. QED BY <3>1, NonceWidth DEF Nonces
  <2>3. update.price \in Nat \ {0}
    BY QualifyingPrice DEF OpenPosition
  <2>4. position \in CompactPosition
    BY <2>1, <2>2, <2>3, TimingAssumption DEF CompactPosition, TypeOK
  <2>5. task \in ScheduledTask
    BY <2>2, TimingAssumption DEF ScheduledTask, TypeOK
  <2>6. entry \in LogEntry
    BY <2>1 DEF LogEntry
  <2>7. /\ user_positions' = [user_positions EXCEPT ![u] = @ \cup {position}]
        /\ tasks' = tasks \cup {task}
        /\ log' = [log EXCEPT ![nonce] = entry]
    BY DEF OpenPosition, ScheduleTask
  <2> HIDE DEF position, task, entry, nonce
  <2>8. EpochEquity \in Nat
    BY LimitsAssumption DEF EpochEquity, BoundedRiskEpochEquity, Lesser, TypeOK
  <2>9. /\ user_positions' \in [Users -> SUBSET CompactPosition]
        /\ tasks' \in SUBSET ScheduledTask
        /\ log' \in [Nonces -> LogEntry]
    BY <2>2, <2>4, <2>5, <2>6, <2>7 DEF TypeOK
  <2>10. /\ now' \in Nat /\ total_shares' \in Nat /\ mode' \in MarketMode
         /\ user_liquidity' \in [Users -> MarketLiquidity]
         /\ fees' \in Nat /\ withdrawn_fees' \in Nat /\ escrow' \in [Users -> Nat]
    BY DEF OpenPosition, TypeOK
  <2>11. /\ open_collateral' \in Nat /\ active_positions' \in Nat /\ pool' \in Nat
         /\ risk_epoch_equity' \in Nat
         /\ wallet' \in [Users -> Nat]
    BY <2>1, <2>8 DEF OpenPosition, TypeOK
  <2>12. next_position_nonce' \in 0..U32_MAX
    BY <2>2 DEF OpenPosition, nonce
  <2>. QED BY <2>9, <2>10, <2>11, <2>12 DEF TypeOK
<1>2. CASE ProvideLiquidity
  <2> PICK u \in Users :
         \/ \E amount \in Deposits, minimum \in Minimums : DepositLiquidity(u, amount, minimum)
         \/ \E shares \in ShareAmounts, minimum \in Minimums : RequestWithdrawal(u, shares, minimum)
         \/ CancelWithdrawal(u)
         \/ ExecuteWithdrawal(u)
    BY <1>2 DEF ProvideLiquidity
  <2>1. user_liquidity[u] \in MarketLiquidity
    BY DEF TypeOK
  <2>2. ASSUME NEW amount \in Deposits, NEW minimum \in Minimums,
               DepositLiquidity(u, amount, minimum)
        PROVE  TypeOK'
    <3>1. amount \in Nat /\ wallet[u] >= amount
      BY <2>2, InputTypes DEF DepositLiquidity
    <3>2. SharesForDeposit(amount, pool, total_shares) \in Nat
      <4>1. CASE total_shares = 0
        BY <3>1, <4>1 DEF SharesForDeposit, TypeOK
      <4>2. CASE total_shares # 0
        BY <2>2, <3>1, <4>2, DepositKeepsPrice DEF DepositLiquidity, TypeOK
      <4>. QED BY <4>1, <4>2
    <3>. QED BY <2>1, <2>2, <3>1, <3>2 DEF DepositLiquidity, TypeOK, MarketLiquidity, positionVars
  <2>3. ASSUME NEW shares \in ShareAmounts, NEW minimum \in Minimums,
               RequestWithdrawal(u, shares, minimum)
        PROVE  TypeOK'
    <3>1. shares \in Nat /\ minimum \in Nat
      BY InputTypes
    <3>. QED
      BY <2>1, <2>3, <3>1
      DEF RequestWithdrawal, TypeOK, MarketLiquidity, marketVars, balanceVars, positionVars
  <2>4. CASE CancelWithdrawal(u)
    BY <2>1, <2>4
    DEF CancelWithdrawal, TypeOK, MarketLiquidity, marketVars, balanceVars, positionVars
  <2>5. CASE ExecuteWithdrawal(u)
    <3> DEFINE shares == user_liquidity[u].pending_withdrawal_shares
               assets == AssetsForShares(shares, pool, total_shares)
    <3>1. /\ shares \in Nat /\ total_shares - shares \in Nat
          /\ user_liquidity[u].shares - shares \in Nat
      BY <2>1, <2>5 DEF ExecuteWithdrawal, RedeemsShares, MarketLiquidity, TypeOK
    <3>2. assets \in Nat /\ pool - assets \in Nat
      BY <2>5, <3>1, WithdrawalKeepsPrice DEF ExecuteWithdrawal, TypeOK
    <3>3. EntryAfterWithdrawal(user_liquidity[u], shares) \in MarketLiquidity
      BY <3>1 DEF EntryAfterWithdrawal, MarketLiquidity
    <3> HIDE DEF shares, assets
    <3>4. /\ pool' = pool - assets
          /\ wallet' = [wallet EXCEPT ![u] = @ + assets]
          /\ total_shares' = total_shares - shares
          /\ user_liquidity' = [user_liquidity EXCEPT
                                  ![u] = EntryAfterWithdrawal(user_liquidity[u], shares)]
      BY <2>5 DEF ExecuteWithdrawal, shares, assets, TypeOK
    <3>. QED
      BY <2>5, <3>1, <3>2, <3>3, <3>4 DEF ExecuteWithdrawal, TypeOK, positionVars
  <2>. QED BY <2>2, <2>3, <2>4, <2>5
<1>3. ASSUME NEW t \in tasks, RunTask(t) PROVE TypeOK'
  <2>1. t.user \in Users
    BY DEF TypeOK, ScheduledTask
  <2>2. ASSUME NEW usable \in BOOLEAN, RefundRun(t, usable) PROVE TypeOK'
    <3>1. PICK p \in user_positions[t.user] :
            UseIteration(t) /\ ClosePosition(t.user, p, RefundTerms(p), usable)
      BY <2>2 DEF RefundRun
    <3>2. p \in CompactPosition
      BY <2>1 DEF TypeOK
    <3>3. /\ RefundTerms(p).payout \in Nat /\ RefundTerms(p).platform_fee \in Nat
          /\ RefundTerms(p).outcome \in PositionOutcome
      BY <3>2, TermsBounds DEF CompactPosition, PositionOutcome
    <3>. QED BY <2>1, <3>1, <3>3, TypeClose
  <2>3. ASSUME NEW update \in OracleUpdates, NEW usable \in BOOLEAN,
               SettlementRun(t, update, usable)
        PROVE  TypeOK'
    <3>1. PICK p \in user_positions[t.user] :
            /\ SettlesAt(t, p, update)
            /\ UseIteration(t)
            /\ ClosePosition(t.user, p, SettlementTerms(p, update), usable)
      BY <2>3 DEF SettlementRun
    <3>2. p \in CompactPosition /\ QualifyingSample(update)
      BY <2>1, <3>1 DEF TypeOK, SettlesAt
    <3>3. /\ SettlementTerms(p, update).payout \in Nat
          /\ SettlementTerms(p, update).platform_fee \in Nat
          /\ SettlementTerms(p, update).outcome \in PositionOutcome
      BY <3>2, TermsBounds
    <3>. QED BY <2>1, <3>1, <3>3, TypeClose
  <2>4. ASSUME NEW update \in OracleUpdates, IdleRun(t, update) PROVE TypeOK'
    <3>1. tasks' \in SUBSET ScheduledTask
      BY <2>4, TypeUseIteration DEF IdleRun
    <3>. QED BY <2>4, <3>1 DEF IdleRun, TypeOK, marketVars, balanceVars
  <2>. QED BY <1>3, <2>2, <2>3, <2>4 DEF RunTask
<1>4. ASSUME NEW u \in Users, ClaimFallbackPayout(u) PROVE TypeOK'
  BY <1>4 DEF ClaimFallbackPayout, TypeOK, marketVars, positionVars
<1>5. CASE Administer
  <2>1. ASSUME NEW amount \in FeeAmounts, WithdrawProtocolFees(amount) PROVE TypeOK'
    BY <2>1, InputTypes DEF WithdrawProtocolFees, TypeOK, marketVars, positionVars
  <2>2. ASSUME NEW m \in MarketMode, SetMarketMode(m) PROVE TypeOK'
    BY <2>2 DEF SetMarketMode, TypeOK, balanceVars, positionVars
  <2>. QED BY <1>5, <2>1, <2>2 DEF Administer
<1>6. CASE Environment
  <2>1. CASE Tick
    BY <2>1 DEF Tick, TypeOK, marketVars, balanceVars, positionVars
  <2>2. ASSUME NEW u \in Users, NEW amount \in Donations, Donate(u, amount) PROVE TypeOK'
    BY <2>2, InputTypes DEF Donate, TypeOK, marketVars, positionVars
  <2>. QED BY <1>6, <2>1, <2>2 DEF Environment
<1>7. CASE UNCHANGED vars
  BY <1>7 DEF vars, marketVars, balanceVars, positionVars, TypeOK
<1>. QED BY <1>1, <1>2, <1>3, <1>4, <1>5, <1>6, <1>7 DEF Next

\* Every reachable state has its types: no counter, balance or share count of the
\* program ever needs a negative value.
THEOREM TypeCorrect == Spec => []TypeOK
  BY TypeInit, TypeStep, PTL DEF Spec

-----------------------------------------------------------------------------
(***************************************************************************)
(* Solvency.  An open is admitted against the pool before it, so the       *)
(* reserve it needs is already there; a close takes from the pool no more  *)
(* than it takes from the reserve; liquidity moves only when nothing is    *)
(* open.  The buffer left by the last open survives every close.           *)
(***************************************************************************)

Reserve(stake) == stake * (1 + MAX_GROSS_PROFIT_MULTIPLIER)

Solvent == SafetyBufferIntact /\ SharesBacked

\* The reserve of a sum is the sum of the reserves.
LEMMA ReserveArithmetic ==
  ASSUME NEW a \in Nat, NEW b \in Nat
  PROVE  /\ Reserve(a) \in Nat
         /\ Reserve(a + b) = Reserve(a) + Reserve(b)
         /\ Reserve(a + b) = a + b + (a + b) * MAX_GROSS_PROFIT_MULTIPLIER
         /\ Reserve(0) = 0
  BY RatesAssumption DEF Reserve

\* A larger pool has no smaller buffer, and the smallest has one.
LEMMA BufferMonotone ==
  /\ SafetyBuffer(MIN_MARKET_EQUITY) \in Nat \ {0}
  /\ \A equity \in Nat :
       equity >= MIN_MARKET_EQUITY =>
         /\ SafetyBuffer(equity) \in Nat
         /\ SafetyBuffer(equity) >= SafetyBuffer(MIN_MARKET_EQUITY)
<1>1. SAFETY_BUFFER_BPS \in Nat /\ BPS \in Nat \ {0} /\ MIN_MARKET_EQUITY \in Nat
  BY RatesAssumption, LimitsAssumption
<1>2. ASSUME NEW equity \in Nat, equity >= MIN_MARKET_EQUITY
      PROVE  /\ SafetyBuffer(equity) \in Nat
             /\ SafetyBuffer(equity) >= SafetyBuffer(MIN_MARKET_EQUITY)
  <2>1. /\ equity * SAFETY_BUFFER_BPS \in Nat
        /\ MIN_MARKET_EQUITY * SAFETY_BUFFER_BPS \in Nat
        /\ MIN_MARKET_EQUITY * SAFETY_BUFFER_BPS <= equity * SAFETY_BUFFER_BPS
    BY <1>1, <1>2
  <2>2. /\ (equity * SAFETY_BUFFER_BPS) \div BPS \in Nat
        /\ (MIN_MARKET_EQUITY * SAFETY_BUFFER_BPS) \div BPS
             <= (equity * SAFETY_BUFFER_BPS) \div BPS
    BY <1>1, <2>1, DivMonotone, DivBounds
  <2>. QED BY <2>2 DEF SafetyBuffer
<1>3. MIN_MARKET_EQUITY * SAFETY_BUFFER_BPS \in Nat
  BY <1>1
<1>4. (MIN_MARKET_EQUITY * SAFETY_BUFFER_BPS) \div BPS \in Nat
  BY <1>1, <1>3, DivBounds
<1>5. SafetyBuffer(MIN_MARKET_EQUITY) \in Nat \ {0}
  BY <1>4, BufferAssumption DEF SafetyBuffer
<1>. QED BY <1>2, <1>5

\* A close within its reserve keeps the reserve of the others, and the buffer.
LEMMA SolventClose ==
  ASSUME TypeOK, Solvent,
         NEW u \in Users, NEW p \in user_positions[u], NEW terms, NEW usable \in BOOLEAN,
         terms.payout \in Nat, terms.platform_fee \in Nat,
         terms.payout + terms.platform_fee <= Reserve(p.collateral),
         ClosePosition(u, p, terms, usable)
  PROVE  Solvent'
<1>1. p.collateral \in Nat \ {0}
  BY DEF TypeOK, CompactPosition
<1>2. /\ open_collateral \in Nat /\ open_collateral' \in Nat /\ open_collateral > 0
      /\ open_collateral = open_collateral' + p.collateral
  BY <1>1 DEF TypeOK, ClosePosition, CanClose, ReleaseRisk
<1>3. Reserve(open_collateral) = Reserve(open_collateral') + Reserve(p.collateral)
  BY <1>1, <1>2, ReserveArithmetic
<1>4. /\ pool \in Nat
      /\ pool >= Reserve(open_collateral) + SafetyBuffer(MIN_MARKET_EQUITY)
  BY <1>2 DEF TypeOK, Solvent, SafetyBufferIntact, Reserve
<1>5. pool' = pool - terms.platform_fee - terms.payout
  BY DEF ClosePosition
<1>6. /\ Reserve(open_collateral') \in Nat /\ Reserve(p.collateral) \in Nat
      /\ SafetyBuffer(MIN_MARKET_EQUITY) \in Nat \ {0}
  BY <1>1, <1>2, ReserveArithmetic, BufferMonotone
<1>7. pool' >= Reserve(open_collateral') + SafetyBuffer(MIN_MARKET_EQUITY)
  BY <1>3, <1>4, <1>5, <1>6
<1>8. terms.payout \in Nat /\ terms.platform_fee \in Nat
  OBVIOUS
<1>9. pool' \in Int
  BY <1>4, <1>5, <1>8
<1>10. pool' >= Reserve(open_collateral') /\ pool' > 0
  BY <1>6, <1>7, <1>9
<1>. QED BY <1>7, <1>10 DEF Solvent, SafetyBufferIntact, SharesBacked, Reserve

\* Every step keeps the pool solvent.
LEMMA SolventStep == TypeOK /\ Solvent /\ [Next]_vars => Solvent'
<1> SUFFICES ASSUME TypeOK, Solvent, [Next]_vars PROVE Solvent'
  OBVIOUS
<1>1. /\ pool \in Nat /\ open_collateral \in Nat /\ total_shares \in Nat
  BY DEF TypeOK
\* Where nothing is taken from the pool and nothing is added to what is open or
\* shared, there is nothing to show.
<1>2. ASSUME pool' \in Nat, pool' >= pool, open_collateral' = open_collateral,
             total_shares' = total_shares
      PROVE  Solvent'
  <2>1. Reserve(open_collateral) \in Nat /\ SafetyBuffer(MIN_MARKET_EQUITY) \in Nat
    BY <1>1, ReserveArithmetic, BufferMonotone
  <2>2. pool >= Reserve(open_collateral) /\ (total_shares > 0 => pool > 0)
          /\ (open_collateral > 0 =>
                pool >= Reserve(open_collateral) + SafetyBuffer(MIN_MARKET_EQUITY))
    BY DEF Solvent, SafetyBufferIntact, SharesBacked, Reserve
  <2>3. pool' >= Reserve(open_collateral') /\ (total_shares' > 0 => pool' > 0)
          /\ (open_collateral' > 0 =>
                pool' >= Reserve(open_collateral') + SafetyBuffer(MIN_MARKET_EQUITY))
    BY <1>1, <1>2, <2>1, <2>2
  <2>. QED BY <2>3 DEF Solvent, SafetyBufferIntact, SharesBacked, Reserve
<1>3. CASE Trade
  <2> PICK u \in Users, task_salt \in TaskSalts, direction \in Direction,
           collateral \in Collaterals, window \in PriceWindows, delegated \in Allowances,
           update \in OracleUpdates :
             OpenPosition(u, next_position_nonce, task_salt, direction, collateral, window,
                          delegated, update)
    BY <1>3 DEF Trade
  <2> DEFINE after == open_collateral + collateral
  <2>1. /\ collateral \in Nat /\ after \in Nat
        /\ pool' = pool + collateral /\ open_collateral' = after
        /\ total_shares' = total_shares
    BY <1>1, InputTypes DEF OpenPosition
  <2>2. /\ pool >= MIN_MARKET_EQUITY
        /\ pool >= open_collateral + after * MAX_GROSS_PROFIT_MULTIPLIER + SafetyBuffer(pool)
    BY DEF OpenPosition, AdmitsPosition, OpenLiquidity, PostOpenSolvent
  <2>3. /\ SafetyBuffer(pool) \in Nat /\ SafetyBuffer(MIN_MARKET_EQUITY) \in Nat
        /\ SafetyBuffer(pool) >= SafetyBuffer(MIN_MARKET_EQUITY)
    BY <1>1, <2>2, BufferMonotone
  <2>4. Reserve(after) = after + after * MAX_GROSS_PROFIT_MULTIPLIER /\ Reserve(after) \in Nat
    BY <1>1, <2>1, ReserveArithmetic
  <2>5. after * MAX_GROSS_PROFIT_MULTIPLIER \in Nat
    BY <2>1, RatesAssumption
  <2>6. pool' >= Reserve(after) + SafetyBuffer(MIN_MARKET_EQUITY)
    BY <1>1, <2>1, <2>2, <2>3, <2>4, <2>5
  <2>7. total_shares' > 0 => pool' > 0
    BY <1>1, <2>1 DEF Solvent, SharesBacked
  <2>8. pool' >= Reserve(after)
    BY <1>1, <2>1, <2>3, <2>4, <2>6
  <2>. QED BY <2>1, <2>6, <2>7, <2>8 DEF Solvent, SafetyBufferIntact, SharesBacked, Reserve
<1>4. ASSUME NEW u \in Users, NEW amount \in Deposits, NEW minimum \in Minimums,
             DepositLiquidity(u, amount, minimum)
      PROVE  Solvent'
  <2>1. /\ amount \in Nat \ {0} /\ pool' = pool + amount
        /\ open_collateral' = open_collateral /\ open_collateral = 0
    BY <1>4, InputTypes DEF DepositLiquidity, MintsShares, IsNoRisk
  <2>2. pool' > 0 /\ pool' >= Reserve(open_collateral')
    BY <1>1, <2>1, ReserveArithmetic
  <2>. QED BY <2>1, <2>2 DEF Solvent, SafetyBufferIntact, SharesBacked, Reserve
<1>5. ASSUME NEW u \in Users, ExecuteWithdrawal(u)
      PROVE  Solvent'
  <2> DEFINE shares == user_liquidity[u].pending_withdrawal_shares
             assets == AssetsForShares(shares, pool, total_shares)
  <2>1. /\ shares \in Nat /\ RedeemsShares(shares, pool, total_shares)
        /\ shares <= total_shares
        /\ pool' = pool - assets /\ total_shares' = total_shares - shares
        /\ open_collateral' = open_collateral /\ open_collateral = 0
    BY <1>5 DEF ExecuteWithdrawal, RedeemsShares, IsNoRisk, TypeOK, MarketLiquidity
  <2>2. assets \in Nat /\ assets <= pool
          /\ (pool > 0 /\ shares < total_shares => assets < pool)
    BY <1>1, <2>1, WithdrawalKeepsPrice
  <2> HIDE DEF shares, assets
  <2>3. total_shares' > 0 => pool' > 0
    BY <1>1, <2>1, <2>2 DEF Solvent, SharesBacked
  <2>4. pool' >= Reserve(open_collateral')
    BY <1>1, <2>1, <2>2, ReserveArithmetic
  <2>. QED BY <2>1, <2>3, <2>4 DEF Solvent, SafetyBufferIntact, SharesBacked, Reserve
<1>6. ASSUME NEW t \in tasks, RunTask(t) PROVE Solvent'
  <2>1. t.user \in Users
    BY DEF TypeOK, ScheduledTask
  <2>2. ASSUME NEW usable \in BOOLEAN, RefundRun(t, usable) PROVE Solvent'
    <3>1. PICK p \in user_positions[t.user] : ClosePosition(t.user, p, RefundTerms(p), usable)
      BY <2>2 DEF RefundRun
    <3>2. p \in CompactPosition /\ p.collateral \in Nat
      BY <2>1 DEF TypeOK, CompactPosition
    <3>3. /\ RefundTerms(p).payout \in Nat /\ RefundTerms(p).platform_fee \in Nat
          /\ RefundTerms(p).payout + RefundTerms(p).platform_fee <= Reserve(p.collateral)
      BY <3>2, TermsBounds DEF Reserve
    <3>. QED BY <2>1, <3>1, <3>3, SolventClose
  <2>3. ASSUME NEW update \in OracleUpdates, NEW usable \in BOOLEAN,
               SettlementRun(t, update, usable)
        PROVE  Solvent'
    <3>1. PICK p \in user_positions[t.user] :
            /\ SettlesAt(t, p, update)
            /\ ClosePosition(t.user, p, SettlementTerms(p, update), usable)
      BY <2>3 DEF SettlementRun
    <3>2. p \in CompactPosition /\ QualifyingSample(update)
      BY <2>1, <3>1 DEF TypeOK, SettlesAt
    <3>3. /\ SettlementTerms(p, update).payout \in Nat
          /\ SettlementTerms(p, update).platform_fee \in Nat
          /\ SettlementTerms(p, update).payout + SettlementTerms(p, update).platform_fee
               <= Reserve(p.collateral)
      BY <3>2, TermsBounds DEF Reserve
    <3>. QED BY <2>1, <3>1, <3>3, SolventClose
  <2>4. ASSUME NEW update \in OracleUpdates, IdleRun(t, update) PROVE Solvent'
    BY <1>1, <1>2, <2>4 DEF IdleRun, marketVars, balanceVars
  <2>. QED BY <1>6, <2>2, <2>3, <2>4 DEF RunTask
<1>7. ASSUME NEW u \in Users, NEW amount \in Donations, Donate(u, amount) PROVE Solvent'
  BY <1>1, <1>2, <1>7, InputTypes DEF Donate, marketVars
<1>8. ASSUME /\ pool' = pool /\ open_collateral' = open_collateral
             /\ total_shares' = total_shares
      PROVE  Solvent'
  BY <1>1, <1>2, <1>8
<1>9. CASE ProvideLiquidity
  <2>1. ASSUME NEW u \in Users, NEW shares \in ShareAmounts, NEW minimum \in Minimums,
               RequestWithdrawal(u, shares, minimum)
        PROVE  Solvent'
    BY <1>8, <2>1 DEF RequestWithdrawal, marketVars, balanceVars
  <2>2. ASSUME NEW u \in Users, CancelWithdrawal(u) PROVE Solvent'
    BY <1>8, <2>2 DEF CancelWithdrawal, marketVars, balanceVars
  <2>. QED BY <1>4, <1>5, <1>9, <2>1, <2>2 DEF ProvideLiquidity
<1>10. CASE Administer
  BY <1>8, <1>10 DEF Administer, WithdrawProtocolFees, SetMarketMode, marketVars, balanceVars
<1>11. CASE Environment
  BY <1>7, <1>8, <1>11 DEF Environment, Tick, marketVars, balanceVars
<1>12. ASSUME NEW u \in Users, ClaimFallbackPayout(u) PROVE Solvent'
  BY <1>8, <1>12 DEF ClaimFallbackPayout, marketVars
<1>13. CASE UNCHANGED vars
  BY <1>8, <1>13 DEF vars, marketVars, balanceVars
<1>. QED BY <1>3, <1>6, <1>9, <1>10, <1>11, <1>12, <1>13 DEF Next

\* The empty market is solvent.
LEMMA SolventInit == Init => Solvent
  BY RatesAssumption DEF Init, Solvent, SafetyBufferIntact, SharesBacked

\* The pool can always pay every open position its stake and its capped profit, and
\* keeps the smallest market's buffer beside, in whatever order positions open and
\* settle.
THEOREM PoolSolvent == Spec => []SafetyBufferIntact
<1>1. Solvent => SafetyBufferIntact
  BY DEF Solvent
<1>. QED BY <1>1, SolventInit, SolventStep, TypeCorrect, PTL DEF Spec

\* Shares never stand against an empty pool, whatever the positions have won from it.
THEOREM SharesAlwaysBacked == Spec => []SharesBacked
<1>1. Solvent => SharesBacked
  BY DEF Solvent
<1>. QED BY <1>1, SolventInit, SolventStep, TypeCorrect, PTL DEF Spec

-----------------------------------------------------------------------------
(***************************************************************************)
(* The Market's risk counters are sums over its users' accounts, and each  *)
(* instruction changes the account of one user.                            *)
(***************************************************************************)

Stakes(P) == SumFunction([p \in P |-> p.collateral])

Books ==
  /\ \A u \in Users : IsFiniteSet(user_positions[u])
  /\ RiskBooksBalance

\* The stakes of some positions sum to a natural, and each can be taken out.
LEMMA StakesFacts ==
  ASSUME NEW P \in SUBSET CompactPosition, IsFiniteSet(P)
  PROVE  /\ Stakes(P) \in Nat
         /\ P = {} => Stakes(P) = 0
         /\ \A p \in P : /\ p.collateral \in Nat
                         /\ Stakes(P \ {p}) \in Nat
                         /\ Stakes(P) = p.collateral + Stakes(P \ {p})
<1> DEFINE f == [p \in P |-> p.collateral]
<1>1. \A p \in P : f[p] \in Nat /\ f[p] = p.collateral
  BY DEF CompactPosition
<1>2. Stakes(P) = SumFunctionOnSet(f, P)
  BY DEF Stakes, SumFunction
<1>3. ASSUME NEW p \in P PROVE Stakes(P \ {p}) = SumFunctionOnSet(f, P \ {p})
  <2> DEFINE g == [q \in P \ {p} |-> q.collateral]
  <2>1. Stakes(P \ {p}) = SumFunctionOnSet(g, P \ {p})
    BY DEF Stakes, SumFunction
  <2>2. IsFiniteSet(P \ {p}) /\ \A q \in P \ {p} : g[q] = f[q]
    BY FS_Subset
  <2> HIDE DEF g, f
  <2>. QED BY <1>1, <2>1, <2>2, SumAgrees
<1> HIDE DEF f
<1>. QED BY <1>1, <1>2, <1>3, SumFacts

\* What one more position adds.
LEMMA StakesAdd ==
  ASSUME NEW P \in SUBSET CompactPosition, IsFiniteSet(P), NEW p \in CompactPosition, p \notin P
  PROVE  Stakes(P \cup {p}) = Stakes(P) + p.collateral
<1>1. IsFiniteSet(P \cup {p}) /\ P \cup {p} \in SUBSET CompactPosition
  BY FS_AddElement
<1>2. (P \cup {p}) \ {p} = P
  OBVIOUS
<1>. QED BY <1>1, <1>2, StakesFacts

\* A sum over the users, when the number of one of them changes.
LEMMA UsersSum ==
  ASSUME NEW f \in [Users -> Nat]
  PROVE  /\ SumFunction(f) \in Nat
         /\ \A u \in Users : f[u] <= SumFunction(f)
         /\ (\A u \in Users : f[u] = 0) => SumFunction(f) = 0
         /\ \A g \in [Users -> Nat], u \in Users :
              (\A v \in Users \ {u} : g[v] = f[v])
                => SumFunction(g) = SumFunction(f) - f[u] + g[u]
<1>1. \A g \in [Users -> Nat] : SumFunction(g) = SumFunctionOnSet(g, Users)
  BY DEF SumFunction
<1>2. SumFunctionOnSet(f, Users) \in Nat
  BY UsersAssumption, SumFacts
<1>3. ASSUME NEW u \in Users PROVE f[u] <= SumFunctionOnSet(f, Users)
  <2>1. /\ SumFunctionOnSet(f, Users \ {u}) \in Nat
        /\ SumFunctionOnSet(f, Users) = f[u] + SumFunctionOnSet(f, Users \ {u})
    BY UsersAssumption, SumFacts
  <2>2. f[u] \in Nat
    OBVIOUS
  <2>. QED BY <2>1, <2>2
<1>4. ASSUME \A u \in Users : f[u] = 0 PROVE SumFunctionOnSet(f, Users) = 0
  <2>1. Units(f, Users) = {}
    BY <1>4 DEF Units
  <2>. QED BY <2>1, UsersAssumption, SumCounts, FS_EmptySet
<1>5. ASSUME NEW g \in [Users -> Nat], NEW u \in Users, \A v \in Users \ {u} : g[v] = f[v]
      PROVE  SumFunctionOnSet(g, Users) = SumFunctionOnSet(f, Users) - f[u] + g[u]
  BY <1>5, UsersAssumption, SumChanges
<1>. QED BY <1>1, <1>2, <1>3, <1>4, <1>5

\* The two sums the counters keep, of the users' positions.
StakesOf(positions) == [u \in Users |-> Stakes(positions[u])]
CountsOf(positions) == [u \in Users |-> Cardinality(positions[u])]

\* They are numbers as long as no user has infinitely many positions.
LEMMA BookTypes ==
  ASSUME NEW positions \in [Users -> SUBSET CompactPosition],
         \A u \in Users : IsFiniteSet(positions[u])
  PROVE  StakesOf(positions) \in [Users -> Nat] /\ CountsOf(positions) \in [Users -> Nat]
<1>1. \A u \in Users : Stakes(positions[u]) \in Nat
  BY StakesFacts
<1>2. \A u \in Users : Cardinality(positions[u]) \in Nat
  BY FS_CardinalityType
<1>. QED BY <1>1, <1>2 DEF StakesOf, CountsOf

\* While the books balance no refund can fail: the counters hold the position.
LEMMA HeldIsCounted ==
  ASSUME TypeOK, Books, NEW u \in Users, NEW p \in user_positions[u]
  PROVE  active_positions >= 1 /\ open_collateral >= p.collateral
<1>1. /\ user_positions[u] \in SUBSET CompactPosition /\ IsFiniteSet(user_positions[u])
      /\ p.collateral \in Nat
  BY DEF TypeOK, Books, CompactPosition
<1> DEFINE stakes == StakesOf(user_positions)
           counts == CountsOf(user_positions)
<1>2. /\ stakes \in [Users -> Nat] /\ counts \in [Users -> Nat]
      /\ stakes[u] = Stakes(user_positions[u]) /\ counts[u] = Cardinality(user_positions[u])
  BY BookTypes DEF Books, TypeOK, StakesOf, CountsOf
<1>3. open_collateral = SumFunction(stakes) /\ active_positions = SumFunction(counts)
  BY DEF Books, RiskBooksBalance, UserOpenCollateral, StakesOf, CountsOf, Stakes
<1> HIDE DEF stakes, counts
<1>4. stakes[u] <= open_collateral /\ counts[u] <= active_positions
  BY <1>2, <1>3, UsersSum
<1>5. /\ stakes[u] \in Nat /\ counts[u] \in Nat
      /\ open_collateral \in Nat /\ active_positions \in Nat
  BY <1>2 DEF TypeOK
<1>6. stakes[u] >= p.collateral
  <2>1. /\ Stakes(user_positions[u] \ {p}) \in Nat
        /\ Stakes(user_positions[u]) = p.collateral + Stakes(user_positions[u] \ {p})
    BY <1>1, StakesFacts
  <2>. QED BY <1>1, <1>2, <2>1
<1>7. counts[u] >= 1
  <2>1. Cardinality(user_positions[u]) # 0
    BY <1>1, FS_EmptySet
  <2>. QED BY <1>2, <1>5, <2>1
<1>. QED BY <1>1, <1>4, <1>5, <1>6, <1>7

\* When one user's positions become P, and the counters move by as much, the books
\* still balance.
LEMMA BooksChange ==
  ASSUME TypeOK, TypeOK', Books, NEW u \in Users, NEW P, IsFiniteSet(P),
         user_positions' = [user_positions EXCEPT ![u] = P],
         open_collateral' = open_collateral - Stakes(user_positions[u]) + Stakes(P),
         active_positions' = active_positions - Cardinality(user_positions[u]) + Cardinality(P)
  PROVE  Books'
<1>1. \A v \in Users : user_positions'[v] = IF v = u THEN P ELSE user_positions[v]
  BY DEF TypeOK
<1>2. \A v \in Users : IsFiniteSet(user_positions'[v])
  BY <1>1 DEF Books
<1> DEFINE stakes == StakesOf(user_positions)
           counts == CountsOf(user_positions)
           stakes_after == StakesOf(user_positions')
           counts_after == CountsOf(user_positions')
<1>3. /\ stakes \in [Users -> Nat] /\ counts \in [Users -> Nat]
      /\ stakes_after \in [Users -> Nat] /\ counts_after \in [Users -> Nat]
  BY <1>2, BookTypes DEF Books, TypeOK
<1>4. /\ \A v \in Users : /\ stakes[v] = Stakes(user_positions[v])
                          /\ counts[v] = Cardinality(user_positions[v])
                          /\ stakes_after[v] = Stakes(user_positions'[v])
                          /\ counts_after[v] = Cardinality(user_positions'[v])
  BY DEF StakesOf, CountsOf
<1>5. open_collateral = SumFunction(stakes) /\ active_positions = SumFunction(counts)
  BY DEF Books, RiskBooksBalance, UserOpenCollateral, StakesOf, CountsOf, Stakes
<1>6. RiskBooksBalance' <=> /\ open_collateral' = SumFunction(stakes_after)
                            /\ active_positions' = SumFunction(counts_after)
  BY DEF RiskBooksBalance, UserOpenCollateral, StakesOf, CountsOf, Stakes
<1> HIDE DEF stakes, counts, stakes_after, counts_after
<1>7. SumFunction(stakes_after) = SumFunction(stakes) - stakes[u] + stakes_after[u]
  <2>1. \A v \in Users \ {u} : stakes_after[v] = stakes[v]
    BY <1>1, <1>4
  <2>. QED BY <1>3, <2>1, UsersSum
<1>8. SumFunction(counts_after) = SumFunction(counts) - counts[u] + counts_after[u]
  <2>1. \A v \in Users \ {u} : counts_after[v] = counts[v]
    BY <1>1, <1>4
  <2>. QED BY <1>3, <2>1, UsersSum
<1>9. RiskBooksBalance'
  BY <1>1, <1>4, <1>5, <1>6, <1>7, <1>8
<1>. QED BY <1>2, <1>9 DEF Books

\* A close takes exactly its position out of the books.
LEMMA BooksClose ==
  ASSUME TypeOK, TypeOK', Books, NEW u \in Users, NEW p \in user_positions[u], NEW terms,
         NEW usable \in BOOLEAN, ClosePosition(u, p, terms, usable)
  PROVE  Books'
<1> DEFINE P == user_positions[u]
           Q == P \ {p}
<1>1. P \in SUBSET CompactPosition /\ IsFiniteSet(P) /\ p \in P
  BY DEF TypeOK, Books
<1>2. /\ IsFiniteSet(Q) /\ Cardinality(Q) = Cardinality(P) - 1 /\ Cardinality(P) \in Nat
  BY <1>1, FS_RemoveElement, FS_CardinalityType
<1>3. Stakes(P) \in Nat /\ Stakes(Q) \in Nat /\ p.collateral \in Nat
        /\ Stakes(P) = p.collateral + Stakes(Q)
  BY <1>1, StakesFacts
<1>4. /\ user_positions' = [user_positions EXCEPT ![u] = Q]
      /\ open_collateral' = open_collateral - p.collateral
      /\ active_positions' = active_positions - 1
  BY DEF ClosePosition, ReleaseRisk
<1>5. open_collateral \in Nat /\ active_positions \in Nat
  BY DEF TypeOK
<1> HIDE DEF P, Q
<1>6. /\ open_collateral' = open_collateral - Stakes(P) + Stakes(Q)
      /\ active_positions' = active_positions - Cardinality(P) + Cardinality(Q)
  BY <1>2, <1>3, <1>4, <1>5
<1>. QED BY <1>2, <1>4, <1>6, BooksChange DEF P

-----------------------------------------------------------------------------
(***************************************************************************)
(* Coverage.  The position of a task's last run is refunded by that run:   *)
(* the run is not early, since its time covers the refund, and the refund  *)
(* does not fail, since the books hold the position and the pool its       *)
(* stake.  The run of one task leaves the other positions their own tasks, *)
(* since positions are numbered.                                           *)
(***************************************************************************)

Numbered ==
  \A u \in Users : \A p \in user_positions[u] :
    /\ p.nonce < next_position_nonce
    /\ \A v \in Users : \A q \in user_positions[v] : p.nonce = q.nonce => u = v /\ p = q

Covered == Solvent /\ Books /\ Numbered /\ EveryPositionCovered

\* A position that has come to its refund can be refunded.
LEMMA RefundCannotFail ==
  ASSUME TypeOK, Covered, NEW u \in Users, NEW p \in user_positions[u]
  PROVE  CanClose(p, RefundTerms(p))
<1>1. p \in CompactPosition /\ p.collateral \in Nat
  BY DEF TypeOK, CompactPosition
<1>2. active_positions >= 1 /\ open_collateral >= p.collateral
  BY HeldIsCounted DEF Covered
<1>3. /\ pool \in Nat /\ open_collateral \in Nat
      /\ pool >= Reserve(open_collateral)
  BY DEF TypeOK, Covered, Solvent, SafetyBufferIntact, Reserve
<1>4. Reserve(open_collateral) \in Nat /\ Reserve(open_collateral) >= open_collateral
  BY <1>3, RatesAssumption DEF Reserve
<1>5. pool >= p.collateral
  BY <1>1, <1>2, <1>3, <1>4
<1>. QED BY <1>1, <1>2, <1>5, TermsBounds DEF CanClose

\* A run that does not close its position leaves it covered, and every other one.
LEMMA CoverAfterRun ==
  ASSUME TypeOK, Covered, NEW t \in tasks, UseIteration(t), now' = now,
         NEW u \in Users, NEW p \in user_positions[u],
         ~(u = t.user /\ TakesPosition(t, p) /\ now >= RefundAt(p))
  PROVE  \E x \in tasks' : CoveredBy(u, p, x)
<1> DEFINE left == t.iterations - 1
           next == now + SETTLEMENT_TASK_INTERVAL
           r    == [t EXCEPT !.iterations = left, !.due = next]
<1>1. PICK x \in tasks : CoveredBy(u, p, x)
  BY DEF Covered, EveryPositionCovered
<1>2. tasks' = (tasks \ {t}) \cup {y \in {r} : y.iterations > 0}
  BY DEF UseIteration
<1>3. CASE x # t
  BY <1>1, <1>2, <1>3
<1>4. CASE x = t
  <2>1. /\ t \in ScheduledTask /\ left \in Nat /\ next \in Nat /\ now \in Nat /\ t.due \in Nat
        /\ p.expires_at \in Nat /\ SETTLEMENT_TASK_INTERVAL \in Nat
        /\ SETTLEMENT_BUFFER_SECONDS \in Nat
    BY TimingAssumption DEF TypeOK, ScheduledTask, CompactPosition
  <2>2. now >= t.due /\ next = now + SETTLEMENT_TASK_INTERVAL
    BY DEF UseIteration
  <2>3. /\ t.user = u /\ TakesPosition(t, p)
        /\ t.due + left * SETTLEMENT_TASK_INTERVAL >= RefundAt(p)
    BY <1>1, <1>4 DEF CoveredBy
  <2>4. now < RefundAt(p) /\ RefundAt(p) \in Nat
    BY <2>1, <2>3 DEF RefundAt
  <2> HIDE DEF left, next
  <2>5. left # 0
    <3>1. SUFFICES ASSUME left = 0 PROVE FALSE
      OBVIOUS
    <3>2. left * SETTLEMENT_TASK_INTERVAL = 0
      BY <2>1, <3>1
    <3>. QED BY <2>1, <2>2, <2>3, <2>4, <3>2
  <2>6. next + (left - 1) * SETTLEMENT_TASK_INTERVAL >= RefundAt(p)
    <3>1. (left - 1) * SETTLEMENT_TASK_INTERVAL
            = left * SETTLEMENT_TASK_INTERVAL - SETTLEMENT_TASK_INTERVAL
      BY <2>1
    <3>2. left * SETTLEMENT_TASK_INTERVAL \in Nat
      BY <2>1
    <3>. QED BY <2>1, <2>2, <2>3, <2>4, <3>1, <3>2
  <2>7. /\ r.iterations = left /\ r.due = next /\ r.user = t.user /\ r.nonce = t.nonce
        /\ r.task_salt = t.task_salt
    BY <2>1 DEF ScheduledTask
  <2> HIDE DEF r
  <2>8. r \in tasks'
    BY <1>2, <2>1, <2>5, <2>7
  <2>9. CoveredBy(u, p, r)
    BY <2>3, <2>6, <2>7 DEF CoveredBy, TakesPosition
  <2>. QED BY <2>8, <2>9
<1>. QED BY <1>3, <1>4

\* Closing a position leaves the others numbered, counted and covered.
LEMMA CoverClose ==
  ASSUME TypeOK, TypeOK', Covered, NEW t \in tasks, UseIteration(t),
         NEW p \in user_positions[t.user], TakesPosition(t, p), NEW terms,
         NEW usable \in BOOLEAN, ClosePosition(t.user, p, terms, usable)
  PROVE  Books' /\ Numbered' /\ EveryPositionCovered'
<1>1. t.user \in Users
  BY DEF TypeOK, ScheduledTask
<1>2. /\ user_positions' = [user_positions EXCEPT ![t.user] = @ \ {p}]
      /\ next_position_nonce' = next_position_nonce /\ now' = now
  BY DEF ClosePosition
<1>3. ASSUME NEW u \in Users, NEW q \in user_positions'[u]
      PROVE  q \in user_positions[u] /\ ~(u = t.user /\ q = p)
  BY <1>2, <1>3 DEF TypeOK
<1>4. Numbered'
  BY <1>2, <1>3 DEF Covered, Numbered
<1>5. ASSUME NEW u \in Users, NEW q \in user_positions'[u]
      PROVE  \E x \in tasks' : CoveredBy(u, q, x)
  <2>1. ~(u = t.user /\ TakesPosition(t, q) /\ now >= RefundAt(q))
    BY <1>1, <1>3, <1>5 DEF Covered, Numbered, TakesPosition
  <2>. QED BY <1>2, <1>3, <1>5, <2>1, CoverAfterRun
<1>6. EveryPositionCovered'
  BY <1>5 DEF EveryPositionCovered, CoveredBy, TakesPosition, RefundAt
<1>. QED BY <1>1, <1>4, <1>6, BooksClose DEF Covered

\* A new position is numbered apart from the others, counted, and covered by its
\* own task from its first second on.
LEMMA CoverOpen ==
  ASSUME TypeOK, Covered, Trade
  PROVE  Books' /\ Numbered' /\ EveryPositionCovered'
<1> PICK u \in Users, task_salt \in TaskSalts, direction \in Direction,
         collateral \in Collaterals, window \in PriceWindows, delegated \in Allowances,
         update \in OracleUpdates :
           OpenPosition(u, next_position_nonce, task_salt, direction, collateral, window,
                        delegated, update)
  BY DEF Trade
<1> DEFINE nonce == next_position_nonce
           position == [nonce |-> nonce, task_salt |-> task_salt,
                        collateral |-> collateral, entry_price |-> update.price,
                        expires_at |-> now + POSITION_DURATION_SECONDS,
                        direction |-> direction]
           task == [user |-> u, nonce |-> nonce, task_salt |-> task_salt,
                    iterations |-> SETTLEMENT_TASK_ITERATIONS, due |-> now]
<1>1. /\ user_positions' = [user_positions EXCEPT ![u] = @ \cup {position}]
      /\ tasks' = tasks \cup {task}
      /\ next_position_nonce' = nonce + 1
      /\ open_collateral' = open_collateral + collateral
      /\ active_positions' = active_positions + 1
  BY DEF OpenPosition, ScheduleTask
<1>2. TypeOK'
  <2>1. Next
    BY DEF Next
  <2>. QED BY <2>1, TypeStep
<1>3. collateral \in Nat /\ nonce \in Nat /\ now \in Nat
  BY InputTypes DEF TypeOK
<1>4. position.collateral = collateral /\ position.nonce = nonce
        /\ position.task_salt = task_salt
        /\ RefundAt(position) = now + POSITION_DURATION_SECONDS + SETTLEMENT_BUFFER_SECONDS
  BY DEF RefundAt
<1>5. task.user = u /\ task.nonce = nonce /\ task.task_salt = task_salt
        /\ task.iterations = SETTLEMENT_TASK_ITERATIONS /\ task.due = now
  OBVIOUS
<1>6. position \in CompactPosition
  BY <1>1, <1>2 DEF TypeOK
<1> HIDE DEF nonce, position, task
<1>7. position \notin user_positions[u]
  BY <1>3, <1>4 DEF Covered, Numbered, nonce
<1> DEFINE P == user_positions[u]
           Q == P \cup {position}
<1>8. /\ IsFiniteSet(Q) /\ Cardinality(Q) = Cardinality(P) + 1 /\ Cardinality(P) \in Nat
      /\ Stakes(P) \in Nat /\ Stakes(Q) = Stakes(P) + collateral
  <2>1. P \in SUBSET CompactPosition /\ IsFiniteSet(P)
    BY DEF TypeOK, Covered, Books
  <2>. QED
    BY <1>4, <1>6, <1>7, <2>1, FS_AddElement, FS_CardinalityType, StakesFacts, StakesAdd
<1>9. Books'
  <2>1. user_positions' = [user_positions EXCEPT ![u] = Q]
    BY <1>1
  <2>2. open_collateral \in Nat /\ active_positions \in Nat
    BY DEF TypeOK
  <2> HIDE DEF Q, P
  <2>3. /\ open_collateral' = open_collateral - Stakes(P) + Stakes(Q)
        /\ active_positions' = active_positions - Cardinality(P) + Cardinality(Q)
    BY <1>1, <1>3, <1>8, <2>2
  <2>. QED BY <1>2, <1>8, <2>1, <2>3, BooksChange DEF P, Covered
<1> HIDE DEF P, Q
<1>10. ASSUME NEW v \in Users, NEW q \in user_positions'[v]
       PROVE  q \in user_positions[v] \/ (v = u /\ q = position)
  BY <1>1, <1>10 DEF TypeOK
<1>11. \A v \in Users : \A q \in user_positions[v] : q.nonce \in Nat /\ q.nonce < nonce
  BY DEF TypeOK, CompactPosition, Nonces, Covered, Numbered, nonce
<1>12. Numbered'
  BY <1>1, <1>3, <1>4, <1>10, <1>11 DEF Covered, Numbered
<1>13. CoveredBy(u, position, task)
  <2>1. SETTLEMENT_TASK_ITERATIONS \in Nat \ {0} /\ SETTLEMENT_TASK_INTERVAL \in Nat \ {0}
          /\ POSITION_DURATION_SECONDS \in Nat /\ SETTLEMENT_BUFFER_SECONDS \in Nat
    BY TimingAssumption
  <2>2. (SETTLEMENT_TASK_ITERATIONS - 1) * SETTLEMENT_TASK_INTERVAL \in Nat
    BY <2>1
  <2>3. now + (SETTLEMENT_TASK_ITERATIONS - 1) * SETTLEMENT_TASK_INTERVAL
          >= now + POSITION_DURATION_SECONDS + SETTLEMENT_BUFFER_SECONDS
    BY <1>3, <2>1, <2>2, CoverageAssumption
  <2>. QED BY <1>4, <1>5, <2>3 DEF CoveredBy, TakesPosition
<1>14. ASSUME NEW v \in Users, NEW q \in user_positions'[v]
       PROVE  \E x \in tasks' : CoveredBy(v, q, x)
  BY <1>1, <1>10, <1>13, <1>14 DEF Covered, EveryPositionCovered
<1>15. EveryPositionCovered'
  BY <1>14 DEF EveryPositionCovered, CoveredBy, TakesPosition, RefundAt
<1>. QED BY <1>9, <1>12, <1>15

\* Every step keeps the books balanced and the positions covered.
LEMMA CoveredStep == TypeOK /\ Covered /\ [Next]_vars => Covered'
<1> SUFFICES ASSUME TypeOK, Covered, [Next]_vars PROVE Covered'
  OBVIOUS
<1>0. TypeOK'
  BY TypeStep
<1>1. Solvent'
  BY SolventStep DEF Covered
<1>2. SUFFICES Books' /\ Numbered' /\ EveryPositionCovered'
  BY <1>1 DEF Covered
\* No other part of the state is read by the three.
<1>3. ASSUME UNCHANGED <<user_positions, tasks, open_collateral, active_positions,
                         next_position_nonce>>
      PROVE  Books' /\ Numbered' /\ EveryPositionCovered'
  <2>1. Books'
    BY <1>3 DEF Covered, Books, RiskBooksBalance, UserOpenCollateral
  <2>. QED
    BY <1>3, <2>1
    DEF Covered, Numbered, EveryPositionCovered, CoveredBy, TakesPosition, RefundAt
<1>4. CASE Trade
  BY <1>4, CoverOpen
<1>5. CASE ProvideLiquidity
  BY <1>3, <1>5
  DEF ProvideLiquidity, DepositLiquidity, RequestWithdrawal, CancelWithdrawal,
      ExecuteWithdrawal, marketVars, positionVars
<1>6. ASSUME NEW t \in tasks, RunTask(t) PROVE Books' /\ Numbered' /\ EveryPositionCovered'
  <2>1. ASSUME NEW usable \in BOOLEAN, RefundRun(t, usable)
        PROVE  Books' /\ Numbered' /\ EveryPositionCovered'
    BY <1>0, <2>1, CoverClose DEF RefundRun, Refunds
  <2>2. ASSUME NEW update \in OracleUpdates, NEW usable \in BOOLEAN,
               SettlementRun(t, update, usable)
        PROVE  Books' /\ Numbered' /\ EveryPositionCovered'
    BY <1>0, <2>2, CoverClose DEF SettlementRun, SettlesAt
  <2>3. ASSUME NEW update \in OracleUpdates, IdleRun(t, update)
        PROVE  Books' /\ Numbered' /\ EveryPositionCovered'
    <3>1. /\ UseIteration(t) /\ now' = now
          /\ UNCHANGED <<user_positions, open_collateral, active_positions,
                         next_position_nonce>>
      BY <2>3 DEF IdleRun, marketVars
    <3>2. ASSUME NEW u \in Users, NEW p \in user_positions[u]
          PROVE  \E x \in tasks' : CoveredBy(u, p, x)
      <4>1. ~(u = t.user /\ TakesPosition(t, p) /\ now >= RefundAt(p))
        BY <2>3, <3>2, RefundCannotFail DEF IdleRun, Refunds
      <4>. QED BY <3>1, <3>2, <4>1, CoverAfterRun
    <3>3. EveryPositionCovered'
      BY <3>1, <3>2 DEF EveryPositionCovered, CoveredBy, TakesPosition, RefundAt
    <3>4. Books'
      BY <3>1 DEF Covered, Books, RiskBooksBalance, UserOpenCollateral
    <3>. QED BY <3>1, <3>3, <3>4 DEF Covered, Numbered
  <2>. QED BY <1>6, <2>1, <2>2, <2>3 DEF RunTask
<1>7. ASSUME NEW u \in Users, ClaimFallbackPayout(u)
      PROVE  Books' /\ Numbered' /\ EveryPositionCovered'
  BY <1>3, <1>7 DEF ClaimFallbackPayout, marketVars, positionVars
<1>8. CASE Administer
  BY <1>3, <1>8 DEF Administer, WithdrawProtocolFees, SetMarketMode, marketVars, positionVars
<1>9. CASE Environment
  BY <1>3, <1>9 DEF Environment, Tick, Donate, marketVars, positionVars
<1>10. CASE UNCHANGED vars
  BY <1>3, <1>10 DEF vars, marketVars, positionVars
<1>. QED BY <1>4, <1>5, <1>6, <1>7, <1>8, <1>9, <1>10 DEF Next

\* With no position and no task, the books are empty and nothing is uncovered.
LEMMA CoveredInit == Init => Covered
<1> SUFFICES ASSUME Init PROVE Covered
  OBVIOUS
<1> DEFINE none == [u \in Users |-> 0]
<1>1. SumFunction(none) = 0
  BY UsersSum
<1>2. Books
  <2>1. \A u \in Users : user_positions[u] = {}
    BY DEF Init
  <2>2. /\ \A u \in Users : IsFiniteSet(user_positions[u])
        /\ \A u \in Users : Cardinality(user_positions[u]) = 0
        /\ \A u \in Users : UserOpenCollateral(u) = 0
    BY <2>1, FS_EmptySet, StakesFacts DEF UserOpenCollateral, Stakes
  <2>3. /\ [u \in Users |-> UserOpenCollateral(u)] = none
        /\ [u \in Users |-> Cardinality(user_positions[u])] = none
    BY <2>2
  <2> HIDE DEF none
  <2>. QED BY <1>1, <2>2, <2>3 DEF Books, RiskBooksBalance, Init
<1>3. Solvent
  BY SolventInit
<1>. QED BY <1>2, <1>3 DEF Covered, Init, Numbered, EveryPositionCovered

\* Every open position has, at all times, a live task that cannot use its last
\* iteration without refunding it, for any timing in which the iterations of a
\* task span the life of a position.
THEOREM PositionsCovered == Spec => []EveryPositionCovered
<1>1. Covered => EveryPositionCovered
  BY DEF Covered
<1>. QED BY <1>1, CoveredInit, CoveredStep, TypeCorrect, PTL DEF Spec

-----------------------------------------------------------------------------
(***************************************************************************)
(* What follows for the users, the shares and the tokens.                  *)
(***************************************************************************)

\* The Market's counters are the sums of its users' positions at all times, so that
\* no settlement fails on them and no-risk means that nobody holds a position.
THEOREM BooksBalance == Spec => []RiskBooksBalance
<1>1. Covered => RiskBooksBalance
  BY DEF Covered, Books
<1>. QED BY <1>1, CoveredInit, CoveredStep, TypeCorrect, PTL DEF Spec

\* The epoch's equity changes only when nobody holds a position, and a user's stake
\* grows only by an open admitted against it.
LEMMA ExposureStep ==
  TypeOK /\ Covered /\ ExposureLimited /\ [Next]_vars => ExposureLimited'
<1> SUFFICES ASSUME TypeOK, Covered, ExposureLimited, [Next]_vars,
                    NEW v \in Users, user_positions'[v] # {}
             PROVE  Stakes(user_positions'[v]) * BPS
                      <= risk_epoch_equity' * USER_OPEN_COLLATERAL_BPS
  BY DEF ExposureLimited, UserOpenCollateral, Stakes
<1>1. TypeOK'
  BY TypeStep
<1>2. /\ \A u \in Users : user_positions[u] \in SUBSET CompactPosition
      /\ \A u \in Users : IsFiniteSet(user_positions[u])
      /\ BPS \in Nat /\ USER_OPEN_COLLATERAL_BPS \in Nat
      /\ risk_epoch_equity \in Nat
  BY RatesAssumption DEF TypeOK, Covered, Books
<1>3. user_positions[v] # {} =>
        /\ active_positions # 0
        /\ Stakes(user_positions[v]) * BPS <= risk_epoch_equity * USER_OPEN_COLLATERAL_BPS
  <2> SUFFICES ASSUME user_positions[v] # {}
               PROVE  /\ active_positions # 0
                      /\ Stakes(user_positions[v]) * BPS
                           <= risk_epoch_equity * USER_OPEN_COLLATERAL_BPS
    OBVIOUS
  <2>1. PICK p \in user_positions[v] : TRUE
    OBVIOUS
  <2>2. active_positions >= 1
    BY <2>1, HeldIsCounted DEF Covered
  <2>. QED BY <2>2 DEF ExposureLimited, UserOpenCollateral, Stakes
<1>4. CASE /\ user_positions'[v] = user_positions[v]
           /\ risk_epoch_equity' = risk_epoch_equity
  BY <1>3, <1>4
<1>5. CASE Trade
  <2> PICK u \in Users, task_salt \in TaskSalts, direction \in Direction,
           collateral \in Collaterals, window \in PriceWindows, delegated \in Allowances,
           update \in OracleUpdates :
             OpenPosition(u, next_position_nonce, task_salt, direction, collateral, window,
                          delegated, update)
    BY <1>5 DEF Trade
  <2> DEFINE position == [nonce |-> next_position_nonce, task_salt |-> task_salt,
                          collateral |-> collateral, entry_price |-> update.price,
                          expires_at |-> now + POSITION_DURATION_SECONDS,
                          direction |-> direction]
             P == user_positions[u]
  <2>1. /\ user_positions' = [user_positions EXCEPT ![u] = P \cup {position}]
        /\ risk_epoch_equity' = EpochEquity
        /\ position.collateral = collateral /\ position.nonce = next_position_nonce
    BY DEF OpenPosition
  <2>2. CASE v # u
    <3>1. user_positions'[v] = user_positions[v]
      BY <2>1, <2>2 DEF TypeOK
    <3>2. risk_epoch_equity' = risk_epoch_equity
      BY <1>3, <2>1, <3>1 DEF EpochEquity
    <3>. QED BY <1>4, <3>1, <3>2
  <2>3. CASE v = u
    <3>1. user_positions'[v] = P \cup {position}
      BY <2>1, <2>3 DEF TypeOK
    <3>2. position \in CompactPosition
      BY <1>1, <3>1 DEF TypeOK
    <3>3. position \notin P
      BY <2>1 DEF Covered, Numbered, TypeOK
    <3> HIDE DEF position
    <3>4. Stakes(P \cup {position}) = Stakes(P) + collateral
      BY <1>2, <2>1, <3>2, <3>3, StakesAdd
    <3>5. (Stakes(P) + collateral) * BPS <= EpochEquity * USER_OPEN_COLLATERAL_BPS
      BY DEF OpenPosition, AdmitsPosition, UserCollateralFits, UserOpenCollateral, Stakes
    <3>. QED BY <2>1, <3>1, <3>4, <3>5
  <2>. QED BY <2>2, <2>3
<1>6. ASSUME NEW u \in Users, NEW p \in user_positions[u], NEW terms, NEW usable \in BOOLEAN,
             ClosePosition(u, p, terms, usable)
      PROVE  Stakes(user_positions'[v]) * BPS
               <= risk_epoch_equity' * USER_OPEN_COLLATERAL_BPS
  <2>1. /\ user_positions' = [user_positions EXCEPT ![u] = @ \ {p}]
        /\ risk_epoch_equity' = risk_epoch_equity
    BY <1>6 DEF ClosePosition
  <2>2. CASE v # u
    BY <1>4, <2>1, <2>2 DEF TypeOK
  <2>3. CASE v = u
    <3> DEFINE before == Stakes(user_positions[v])
               after  == Stakes(user_positions'[v])
    <3>1. user_positions'[v] = user_positions[v] \ {p} /\ p \in user_positions[v]
      BY <2>1, <2>3 DEF TypeOK
    <3>2. /\ p.collateral \in Nat /\ after \in Nat /\ before = p.collateral + after
      BY <1>2, <3>1, StakesFacts
    <3>3. before * BPS <= risk_epoch_equity * USER_OPEN_COLLATERAL_BPS
      BY <1>3, <3>1
    <3> HIDE DEF before, after
    <3>4. before * BPS = p.collateral * BPS + after * BPS /\ p.collateral * BPS \in Nat
      BY <1>2, <3>2
    <3>5. after * BPS \in Nat /\ risk_epoch_equity * USER_OPEN_COLLATERAL_BPS \in Nat
      BY <1>2, <3>2
    <3>6. after * BPS <= risk_epoch_equity * USER_OPEN_COLLATERAL_BPS
      BY <3>3, <3>4, <3>5
    <3>. QED BY <2>1, <3>6 DEF after
  <2>. QED BY <2>2, <2>3
<1>7. ASSUME NEW t \in tasks, RunTask(t)
      PROVE  Stakes(user_positions'[v]) * BPS
               <= risk_epoch_equity' * USER_OPEN_COLLATERAL_BPS
  <2>1. t.user \in Users
    BY DEF TypeOK, ScheduledTask
  <2>2. CASE \E update \in OracleUpdates : IdleRun(t, update)
    BY <1>4, <2>2 DEF IdleRun, marketVars
  <2>. QED BY <1>6, <1>7, <2>1, <2>2 DEF RunTask, RefundRun, SettlementRun
<1>8. CASE ProvideLiquidity
  BY <1>4, <1>8
  DEF ProvideLiquidity, DepositLiquidity, RequestWithdrawal, CancelWithdrawal,
      ExecuteWithdrawal, marketVars, positionVars
<1>9. ASSUME NEW u \in Users, ClaimFallbackPayout(u)
      PROVE  /\ user_positions'[v] = user_positions[v]
             /\ risk_epoch_equity' = risk_epoch_equity
  BY <1>9 DEF ClaimFallbackPayout, marketVars, positionVars
<1>10. CASE Administer
  BY <1>4, <1>10 DEF Administer, WithdrawProtocolFees, SetMarketMode, marketVars, positionVars
<1>11. CASE Environment
  BY <1>4, <1>11 DEF Environment, Tick, Donate, marketVars, positionVars
<1>12. CASE UNCHANGED vars
  BY <1>4, <1>12 DEF vars, marketVars, positionVars
<1>. QED BY <1>4, <1>5, <1>7, <1>8, <1>9, <1>10, <1>11, <1>12 DEF Next

\* No user's stakes ever exceed their part of the equity the epoch began with, for
\* any number of users, positions and any rate.
THEOREM ExposureBounded == Spec => []ExposureLimited
<1>1. Init => ExposureLimited
  BY DEF Init, ExposureLimited
<1>. QED BY <1>1, ExposureStep, CoveredInit, CoveredStep, TypeCorrect, PTL DEF Spec

SharesOf(liquidity) == [u \in Users |-> liquidity[u].shares]

\* Where one user's entry changes, the register still balances when the supply moves
\* by as much as the user's shares, and the entry asks for no more than it holds.
LEMMA RegisterChange ==
  ASSUME TypeOK, TypeOK', ShareRegisterBalances, NEW u \in Users, NEW entry \in MarketLiquidity,
         user_liquidity' = [user_liquidity EXCEPT ![u] = entry],
         total_shares' = total_shares - user_liquidity[u].shares + entry.shares,
         entry.pending_withdrawal_shares <= entry.shares
  PROVE  ShareRegisterBalances'
<1> DEFINE before == SharesOf(user_liquidity)
           after  == SharesOf(user_liquidity')
<1>1. \A v \in Users : user_liquidity'[v] = IF v = u THEN entry ELSE user_liquidity[v]
  BY DEF TypeOK
<1>2. before \in [Users -> Nat] /\ after \in [Users -> Nat]
  BY DEF SharesOf, TypeOK, MarketLiquidity
<1>3. \A v \in Users : /\ before[v] = user_liquidity[v].shares
                       /\ after[v] = user_liquidity'[v].shares
  BY DEF SharesOf
<1>4. total_shares = SumFunction(before)
  BY DEF ShareRegisterBalances, SharesOf
<1>5. ShareRegisterBalances' <=>
        /\ total_shares' = SumFunction(after)
        /\ \A v \in Users :
             user_liquidity'[v].pending_withdrawal_shares <= user_liquidity'[v].shares
  BY DEF ShareRegisterBalances, SharesOf
<1> HIDE DEF before, after
<1>6. SumFunction(after) = SumFunction(before) - before[u] + after[u]
  <2>1. \A v \in Users \ {u} : after[v] = before[v]
    BY <1>1, <1>3
  <2>. QED BY <1>2, <2>1, UsersSum
<1>. QED BY <1>1, <1>3, <1>4, <1>5, <1>6 DEF ShareRegisterBalances

\* Every step keeps the register of shares balanced.
LEMMA RegisterStep ==
  TypeOK /\ ShareRegisterBalances /\ [Next]_vars => ShareRegisterBalances'
<1> SUFFICES ASSUME TypeOK, ShareRegisterBalances, [Next]_vars PROVE ShareRegisterBalances'
  OBVIOUS
<1>1. TypeOK'
  BY TypeStep
<1>2. ASSUME user_liquidity' = user_liquidity, total_shares' = total_shares
      PROVE  ShareRegisterBalances'
  BY <1>2 DEF ShareRegisterBalances
<1>3. ASSUME NEW u \in Users
      PROVE  /\ user_liquidity[u] \in MarketLiquidity
             /\ user_liquidity[u].shares \in Nat
             /\ user_liquidity[u].pending_withdrawal_shares <= user_liquidity[u].shares
             /\ total_shares \in Nat
  BY DEF TypeOK, MarketLiquidity, ShareRegisterBalances
<1>4. ASSUME NEW u \in Users, NEW amount \in Deposits, NEW minimum \in Minimums,
             DepositLiquidity(u, amount, minimum)
      PROVE  ShareRegisterBalances'
  <2> DEFINE shares == SharesForDeposit(amount, pool, total_shares)
             entry == [user_liquidity[u] EXCEPT !.shares = @ + shares]
  <2>1. /\ user_liquidity' = [user_liquidity EXCEPT ![u] = entry]
        /\ total_shares' = total_shares + shares
    BY <1>4 DEF DepositLiquidity, TypeOK
  <2>2. entry \in MarketLiquidity
    BY <1>1, <2>1 DEF TypeOK
  <2>3. shares \in Nat
    <3>1. amount \in Nat /\ pool \in Nat /\ total_shares \in Nat
      BY InputTypes DEF TypeOK
    <3>2. MintsShares(amount, pool, total_shares)
      BY <1>4 DEF DepositLiquidity
    <3>3. CASE total_shares = 0
      BY <3>1, <3>3 DEF SharesForDeposit
    <3>4. CASE total_shares # 0
      BY <3>1, <3>2, <3>4, DepositKeepsPrice
    <3>. QED BY <3>3, <3>4
  <2> HIDE DEF shares
  <2>4. /\ entry.shares = user_liquidity[u].shares + shares
        /\ entry.pending_withdrawal_shares = user_liquidity[u].pending_withdrawal_shares
        /\ user_liquidity[u].pending_withdrawal_shares \in Nat
    BY <1>3 DEF MarketLiquidity
  <2> HIDE DEF entry
  <2>5. /\ total_shares' = total_shares - user_liquidity[u].shares + entry.shares
        /\ entry.pending_withdrawal_shares <= entry.shares
    BY <1>3, <2>1, <2>3, <2>4
  <2>. QED BY <1>1, <2>1, <2>2, <2>5, RegisterChange
<1>5. ASSUME NEW u \in Users, NEW shares \in ShareAmounts, NEW minimum \in Minimums,
             RequestWithdrawal(u, shares, minimum)
      PROVE  ShareRegisterBalances'
  <2> DEFINE entry == [user_liquidity[u] EXCEPT !.pending_withdrawal_shares = shares,
                                                !.min_assets_out = minimum]
  <2>1. /\ user_liquidity' = [user_liquidity EXCEPT ![u] = entry]
        /\ total_shares' = total_shares
        /\ shares <= user_liquidity[u].shares
    BY <1>5 DEF RequestWithdrawal, TypeOK, marketVars
  <2>2. entry \in MarketLiquidity
    BY <1>1, <2>1 DEF TypeOK
  <2>3. entry.shares = user_liquidity[u].shares /\ entry.pending_withdrawal_shares = shares
    BY <1>3 DEF MarketLiquidity
  <2> HIDE DEF entry
  <2>4. total_shares' = total_shares - user_liquidity[u].shares + entry.shares
    BY <1>3, <2>1, <2>3
  <2>. QED BY <1>1, <2>1, <2>2, <2>3, <2>4, RegisterChange
<1>6. ASSUME NEW u \in Users, CancelWithdrawal(u) PROVE ShareRegisterBalances'
  <2> DEFINE entry == [user_liquidity[u] EXCEPT !.pending_withdrawal_shares = 0,
                                                !.min_assets_out = 0]
  <2>1. /\ user_liquidity' = [user_liquidity EXCEPT ![u] = entry]
        /\ total_shares' = total_shares
    BY <1>6 DEF CancelWithdrawal, TypeOK, marketVars
  <2>2. entry \in MarketLiquidity
    BY <1>1, <2>1 DEF TypeOK
  <2>3. entry.shares = user_liquidity[u].shares /\ entry.pending_withdrawal_shares = 0
    BY <1>3 DEF MarketLiquidity
  <2> HIDE DEF entry
  <2>4. /\ total_shares' = total_shares - user_liquidity[u].shares + entry.shares
        /\ entry.pending_withdrawal_shares <= entry.shares
    BY <1>3, <2>1, <2>3
  <2>. QED BY <1>1, <2>1, <2>2, <2>4, RegisterChange
<1>7. ASSUME NEW u \in Users, ExecuteWithdrawal(u) PROVE ShareRegisterBalances'
  <2> DEFINE shares == user_liquidity[u].pending_withdrawal_shares
             entry == EntryAfterWithdrawal(user_liquidity[u], shares)
  <2>1. /\ user_liquidity' = [user_liquidity EXCEPT ![u] = entry]
        /\ total_shares' = total_shares - shares
    BY <1>7 DEF ExecuteWithdrawal, TypeOK
  <2>2. entry \in MarketLiquidity
    BY <1>1, <2>1 DEF TypeOK
  <2>3. /\ entry.shares = user_liquidity[u].shares - shares
        /\ entry.pending_withdrawal_shares = 0 /\ shares \in Nat
    BY <1>3 DEF EntryAfterWithdrawal, MarketLiquidity
  <2>4. entry.shares \in Nat
    BY <2>2 DEF MarketLiquidity
  <2> HIDE DEF entry, shares
  <2>5. /\ total_shares' = total_shares - user_liquidity[u].shares + entry.shares
        /\ entry.pending_withdrawal_shares <= entry.shares
    BY <1>3, <2>1, <2>3, <2>4
  <2>. QED BY <1>1, <2>1, <2>2, <2>5, RegisterChange
<1>8. CASE Trade
  BY <1>2, <1>8 DEF Trade, OpenPosition
<1>9. ASSUME NEW t \in tasks, RunTask(t) PROVE ShareRegisterBalances'
  BY <1>2, <1>9 DEF RunTask, RefundRun, SettlementRun, IdleRun, ClosePosition, marketVars
<1>10. ASSUME NEW u \in Users, ClaimFallbackPayout(u) PROVE ShareRegisterBalances'
  BY <1>2, <1>10 DEF ClaimFallbackPayout, marketVars
<1>11. CASE Administer
  BY <1>2, <1>11 DEF Administer, WithdrawProtocolFees, SetMarketMode, marketVars
<1>12. CASE Environment
  BY <1>2, <1>12 DEF Environment, Tick, Donate, marketVars
<1>13. CASE UNCHANGED vars
  BY <1>2, <1>13 DEF vars, marketVars
<1>. QED
  BY <1>4, <1>5, <1>6, <1>7, <1>8, <1>9, <1>10, <1>11, <1>12, <1>13 DEF Next, ProvideLiquidity

\* The Market's supply is at all times the sum of its users' shares, and nobody has
\* asked to withdraw shares that are not theirs.
THEOREM RegisterBalances == Spec => []ShareRegisterBalances
<1>1. Init => ShareRegisterBalances
  <2> SUFFICES ASSUME Init PROVE ShareRegisterBalances
    OBVIOUS
  <2>1. \A u \in Users : user_liquidity[u] = EmptyEntry
    BY DEF Init
  <2> DEFINE none == [u \in Users |-> 0]
  <2>2. [u \in Users |-> user_liquidity[u].shares] = none
    BY <2>1 DEF EmptyEntry
  <2>3. SumFunction(none) = 0
    BY UsersSum
  <2> HIDE DEF none
  <2>. QED BY <2>1, <2>2, <2>3 DEF ShareRegisterBalances, Init, EmptyEntry
<1>. QED BY <1>1, RegisterStep, TypeCorrect, PTL DEF Spec

\* Every step moves tokens from one account to another.
LEMMA ConservedStep ==
  TypeOK /\ TokensConserved /\ [Next]_vars => TokensConserved'
<1> SUFFICES ASSUME TypeOK, TokensConserved, [Next]_vars PROVE TokensConserved'
  OBVIOUS
<1>1. TypeOK'
  BY TypeStep
<1>2. /\ pool \in Nat /\ fees \in Nat /\ withdrawn_fees \in Nat
      /\ wallet \in [Users -> Nat] /\ escrow \in [Users -> Nat]
      /\ wallet' \in [Users -> Nat] /\ escrow' \in [Users -> Nat]
      /\ SumFunction(wallet) \in Nat /\ SumFunction(escrow) \in Nat
  <2>1. /\ wallet \in [Users -> Nat] /\ escrow \in [Users -> Nat]
    BY DEF TypeOK
  <2>. QED BY <1>1, <2>1, UsersSum DEF TypeOK
<1>3. \A u \in Users : wallet[u] \in Nat /\ escrow[u] \in Nat
  BY <1>2
<1>4. ASSUME UNCHANGED balanceVars PROVE TokensConserved'
  BY <1>4 DEF balanceVars, TokensConserved
\* Tokens that go from a user's wallet to the pool.
<1>5. ASSUME NEW u \in Users, NEW amount \in Nat,
             wallet' = [wallet EXCEPT ![u] = @ - amount], pool' = pool + amount,
             UNCHANGED <<fees, withdrawn_fees, escrow>>
      PROVE  TokensConserved'
  <2>1. wallet'[u] = wallet[u] - amount /\ \A v \in Users \ {u} : wallet'[v] = wallet[v]
    BY <1>2, <1>5
  <2>2. SumFunction(wallet') = SumFunction(wallet) - wallet[u] + wallet'[u]
    BY <1>2, <2>1, UsersSum
  <2>. QED BY <1>2, <1>3, <1>5, <2>1, <2>2 DEF TokensConserved
\* Tokens that go from the pool or an escrow to a user's wallet.
<1>6. ASSUME NEW u \in Users, NEW amount \in Nat,
             wallet' = [wallet EXCEPT ![u] = @ + amount]
      PROVE  SumFunction(wallet') = SumFunction(wallet) + amount
  <2>1. wallet'[u] = wallet[u] + amount /\ \A v \in Users \ {u} : wallet'[v] = wallet[v]
    BY <1>2, <1>6
  <2>2. SumFunction(wallet') = SumFunction(wallet) - wallet[u] + wallet'[u]
    BY <1>2, <2>1, UsersSum
  <2>. QED BY <1>2, <1>3, <2>1, <2>2
<1>7. ASSUME NEW u \in Users, NEW amount \in Nat, escrow' = [escrow EXCEPT ![u] = @ + amount]
      PROVE  SumFunction(escrow') = SumFunction(escrow) + amount
  <2>1. escrow'[u] = escrow[u] + amount /\ \A v \in Users \ {u} : escrow'[v] = escrow[v]
    BY <1>2, <1>7
  <2>2. SumFunction(escrow') = SumFunction(escrow) - escrow[u] + escrow'[u]
    BY <1>2, <2>1, UsersSum
  <2>. QED BY <1>2, <1>3, <2>1, <2>2
<1>8. ASSUME NEW u \in Users, NEW p \in user_positions[u], NEW terms, NEW usable \in BOOLEAN,
             terms.payout \in Nat, terms.platform_fee \in Nat,
             ClosePosition(u, p, terms, usable)
      PROVE  TokensConserved'
  <2>1. /\ pool' = pool - terms.platform_fee - terms.payout
        /\ fees' = fees + terms.platform_fee /\ withdrawn_fees' = withdrawn_fees
    BY <1>8 DEF ClosePosition
  <2>2. SumFunction(wallet') + SumFunction(escrow')
          = SumFunction(wallet) + SumFunction(escrow) + terms.payout
    <3>1. CASE usable
      <4>1. wallet' = [wallet EXCEPT ![u] = @ + terms.payout] /\ escrow' = escrow
        BY <1>8, <3>1 DEF ClosePosition, PayUser
      <4>2. SumFunction(wallet') = SumFunction(wallet) + terms.payout
        BY <1>6, <1>8, <4>1
      <4>. QED BY <1>2, <1>8, <4>1, <4>2
    <3>2. CASE ~usable
      <4>1. escrow' = [escrow EXCEPT ![u] = @ + terms.payout] /\ wallet' = wallet
        BY <1>8, <3>2 DEF ClosePosition, PayUser
      <4>2. SumFunction(escrow') = SumFunction(escrow) + terms.payout
        BY <1>7, <1>8, <4>1
      <4>. QED BY <1>2, <1>8, <4>1, <4>2
    <3>. QED BY <3>1, <3>2
  <2>3. SumFunction(wallet') \in Nat /\ SumFunction(escrow') \in Nat
    BY <1>2, UsersSum
  <2>. QED BY <1>2, <1>8, <2>1, <2>2, <2>3 DEF TokensConserved
<1>9. CASE Trade
  <2>1. PICK u \in Users, task_salt \in TaskSalts, direction \in Direction,
             collateral \in Collaterals, window \in PriceWindows, delegated \in Allowances,
             update \in OracleUpdates :
               OpenPosition(u, next_position_nonce, task_salt, direction, collateral, window,
                            delegated, update)
    BY <1>9 DEF Trade
  <2>2. collateral \in Nat
    BY InputTypes
  <2>. QED BY <1>5, <2>1, <2>2 DEF OpenPosition
<1>10. ASSUME NEW u \in Users, NEW amount \in Deposits, NEW minimum \in Minimums,
              DepositLiquidity(u, amount, minimum)
       PROVE  TokensConserved'
  <2>1. amount \in Nat
    BY InputTypes
  <2>. QED BY <1>5, <1>10, <2>1 DEF DepositLiquidity
<1>11. ASSUME NEW u \in Users, ExecuteWithdrawal(u) PROVE TokensConserved'
  <2> DEFINE shares == user_liquidity[u].pending_withdrawal_shares
             assets == AssetsForShares(shares, pool, total_shares)
  <2>1. /\ pool' = pool - assets /\ wallet' = [wallet EXCEPT ![u] = @ + assets]
        /\ UNCHANGED <<fees, withdrawn_fees, escrow>>
    BY <1>11 DEF ExecuteWithdrawal
  <2>2. assets \in Nat
    <3>1. /\ shares \in Nat /\ total_shares \in Nat /\ RedeemsShares(shares, pool, total_shares)
      BY <1>11 DEF ExecuteWithdrawal, TypeOK, MarketLiquidity
    <3>. QED BY <1>2, <3>1, WithdrawalKeepsPrice
  <2> HIDE DEF assets
  <2>3. SumFunction(wallet') = SumFunction(wallet) + assets
    BY <1>6, <2>1, <2>2
  <2>. QED BY <1>2, <2>1, <2>2, <2>3 DEF TokensConserved
<1>12. ASSUME NEW u \in Users, \/ \E shares \in ShareAmounts, minimum \in Minimums :
                                    RequestWithdrawal(u, shares, minimum)
                               \/ CancelWithdrawal(u)
       PROVE  TokensConserved'
  BY <1>4, <1>12 DEF RequestWithdrawal, CancelWithdrawal
<1>13. ASSUME NEW t \in tasks, RunTask(t) PROVE TokensConserved'
  <2>1. t.user \in Users
    BY DEF TypeOK, ScheduledTask
  <2>2. ASSUME NEW usable \in BOOLEAN, RefundRun(t, usable) PROVE TokensConserved'
    <3>1. PICK p \in user_positions[t.user] : ClosePosition(t.user, p, RefundTerms(p), usable)
      BY <2>2 DEF RefundRun
    <3>2. p \in CompactPosition
      BY <2>1 DEF TypeOK
    <3>3. RefundTerms(p).payout \in Nat /\ RefundTerms(p).platform_fee \in Nat
      BY <3>2, TermsBounds DEF CompactPosition
    <3>. QED BY <1>8, <2>1, <3>1, <3>3
  <2>3. ASSUME NEW update \in OracleUpdates, NEW usable \in BOOLEAN,
               SettlementRun(t, update, usable)
        PROVE  TokensConserved'
    <3>1. PICK p \in user_positions[t.user] :
            /\ SettlesAt(t, p, update)
            /\ ClosePosition(t.user, p, SettlementTerms(p, update), usable)
      BY <2>3 DEF SettlementRun
    <3>2. p \in CompactPosition /\ QualifyingSample(update)
      BY <2>1, <3>1 DEF TypeOK, SettlesAt
    <3>3. /\ SettlementTerms(p, update).payout \in Nat
          /\ SettlementTerms(p, update).platform_fee \in Nat
      BY <3>2, TermsBounds
    <3>. QED BY <1>8, <2>1, <3>1, <3>3
  <2>4. ASSUME NEW update \in OracleUpdates, IdleRun(t, update) PROVE TokensConserved'
    BY <1>4, <2>4 DEF IdleRun
  <2>. QED BY <1>13, <2>2, <2>3, <2>4 DEF RunTask
<1>14. ASSUME NEW u \in Users, ClaimFallbackPayout(u) PROVE TokensConserved'
  <2>1. /\ wallet' = [wallet EXCEPT ![u] = @ + escrow[u]] /\ escrow' = [escrow EXCEPT ![u] = 0]
        /\ UNCHANGED <<pool, fees, withdrawn_fees>>
    BY <1>14 DEF ClaimFallbackPayout
  <2>2. SumFunction(wallet') = SumFunction(wallet) + escrow[u]
    BY <1>3, <1>6, <2>1
  <2>3. escrow'[u] = 0 /\ \A v \in Users \ {u} : escrow'[v] = escrow[v]
    BY <1>2, <2>1
  <2>4. SumFunction(escrow') = SumFunction(escrow) - escrow[u] + escrow'[u]
    BY <1>2, <2>3, UsersSum
  <2>. QED BY <1>2, <1>3, <2>1, <2>2, <2>3, <2>4 DEF TokensConserved
<1>15. CASE Administer
  <2>1. ASSUME NEW amount \in FeeAmounts, WithdrawProtocolFees(amount) PROVE TokensConserved'
    <3>1. amount \in Nat
      BY InputTypes
    <3>. QED BY <1>2, <2>1, <3>1 DEF WithdrawProtocolFees, TokensConserved
  <2>2. ASSUME NEW m \in MarketMode, SetMarketMode(m) PROVE TokensConserved'
    BY <1>4, <2>2 DEF SetMarketMode
  <2>. QED BY <1>15, <2>1, <2>2 DEF Administer
<1>16. CASE Environment
  <2>1. ASSUME NEW u \in Users, NEW amount \in Donations, Donate(u, amount)
        PROVE  TokensConserved'
    <3>1. amount \in Nat
      BY InputTypes
    <3>. QED BY <1>5, <2>1, <3>1 DEF Donate
  <2>2. CASE Tick
    BY <1>4, <2>2 DEF Tick
  <2>. QED BY <1>16, <2>1, <2>2 DEF Environment
<1>17. CASE UNCHANGED vars
  BY <1>4, <1>17 DEF vars
<1>. QED
  BY <1>9, <1>10, <1>11, <1>12, <1>13, <1>14, <1>15, <1>16, <1>17 DEF Next, ProvideLiquidity

\* No instruction makes or loses a token: the pool, the fees, what was paid of them,
\* and the wallets and escrows of any number of users always add up to what there was.
THEOREM NoTokenLost == Spec => []TokensConserved
<1>1. Init => TokensConserved
  <2> SUFFICES ASSUME Init PROVE TokensConserved
    OBVIOUS
  <2>1. /\ pool = 0 /\ fees = 0 /\ withdrawn_fees = 0
        /\ wallet = InitialWallet /\ escrow = [u \in Users |-> 0]
    BY DEF Init
  <2>2. SumFunction([u \in Users |-> 0]) = 0 /\ SumFunction(InitialWallet) \in Nat
    BY InputsAssumption, UsersSum
  <2>. QED BY <2>1, <2>2 DEF TokensConserved
<1>. QED BY <1>1, ConservedStep, TypeCorrect, PTL DEF Spec

-----------------------------------------------------------------------------
(***************************************************************************)
(* Steps.                                                                  *)
(***************************************************************************)

\* Whoever deposits or withdraws, no remaining share loses value.
THEOREM PriceNeverFalls == Spec => SharePriceNeverFalls
<1> DEFINE Keeps == total_shares' # total_shares /\ total_shares > 0 /\ total_shares' > 0
                      => pool' * total_shares >= pool * total_shares'
<1>1. TypeOK /\ [Next]_vars => [Keeps]_vars
  <2> SUFFICES ASSUME TypeOK, Next, total_shares' # total_shares, total_shares > 0
               PROVE  pool' * total_shares >= pool * total_shares'
    OBVIOUS
  <2>1. pool \in Nat /\ total_shares \in Nat \ {0}
    BY DEF TypeOK
  <2>2. PICK u \in Users :
          \/ \E amount \in Deposits, minimum \in Minimums : DepositLiquidity(u, amount, minimum)
          \/ ExecuteWithdrawal(u)
    <3>1. ~ Trade
      BY DEF Trade, OpenPosition
    <3>2. ~ \E t \in tasks : RunTask(t)
      BY DEF RunTask, RefundRun, SettlementRun, IdleRun, ClosePosition, marketVars
    <3>3. ~ (Administer \/ Environment \/ \E v \in Users : ClaimFallbackPayout(v))
      <4>1. ~ Administer
        BY DEF Administer, WithdrawProtocolFees, SetMarketMode, marketVars
      <4>2. ~ Environment
        BY DEF Environment, Tick, Donate, marketVars
      <4>3. ~ \E v \in Users : ClaimFallbackPayout(v)
        BY DEF ClaimFallbackPayout, marketVars
      <4> QED  BY <4>1, <4>2, <4>3
    <3>4. \A v \in Users :
            /\ \A shares \in ShareAmounts, minimum \in Minimums :
                 ~ RequestWithdrawal(v, shares, minimum)
            /\ ~ CancelWithdrawal(v)
      BY DEF RequestWithdrawal, CancelWithdrawal, marketVars
    <3>. QED BY <3>1, <3>2, <3>3, <3>4 DEF Next, ProvideLiquidity
  <2>3. ASSUME NEW amount \in Deposits, NEW minimum \in Minimums,
               DepositLiquidity(u, amount, minimum)
        PROVE  pool' * total_shares >= pool * total_shares'
    <3>1. /\ amount \in Nat /\ MintsShares(amount, pool, total_shares)
          /\ pool' = pool + amount
          /\ total_shares' = total_shares + SharesForDeposit(amount, pool, total_shares)
      BY <2>3, InputTypes DEF DepositLiquidity
    <3>2. (pool + amount) * total_shares
            >= pool * (total_shares + SharesForDeposit(amount, pool, total_shares))
      BY <2>1, <3>1, DepositKeepsPrice
    <3>. QED BY <3>1, <3>2
  <2>4. CASE ExecuteWithdrawal(u)
    <3> DEFINE shares == user_liquidity[u].pending_withdrawal_shares
    <3>1. /\ shares \in Nat /\ RedeemsShares(shares, pool, total_shares)
          /\ pool' = pool - AssetsForShares(shares, pool, total_shares)
          /\ total_shares' = total_shares - shares
      BY <2>4 DEF ExecuteWithdrawal, TypeOK, MarketLiquidity
    <3>2. (pool - AssetsForShares(shares, pool, total_shares)) * total_shares
            >= pool * (total_shares - shares)
      BY <2>1, <3>1, WithdrawalKeepsPrice
    <3>. QED BY <3>1, <3>2
  <2>. QED BY <2>2, <2>3, <2>4
<1>. QED BY <1>1, TypeCorrect, PTL DEF Spec, SharePriceNeverFalls

\* A position leaves its account by a settlement inside its window or by a refund of
\* the whole stake after it, and in no other way.
THEOREM ClosesInWindow == Spec => SettledInWindow
<1> DEFINE InWindow ==
      \A u \in Users : \A p \in user_positions[u] \ user_positions'[u] :
        LET closed == log'[p.nonce]
        IN  IF closed.status = "Refunded"
            THEN now >= RefundAt(p) /\ closed.payout = p.collateral
            ELSE now >= p.expires_at /\ now < RefundAt(p)
<1>1. TypeOK /\ [Next]_vars => [InWindow]_vars
  <2> SUFFICES ASSUME TypeOK, Next,
                      NEW u \in Users, NEW p \in user_positions[u] \ user_positions'[u]
               PROVE  IF log'[p.nonce].status = "Refunded"
                      THEN now >= RefundAt(p) /\ log'[p.nonce].payout = p.collateral
                      ELSE now >= p.expires_at /\ now < RefundAt(p)
    OBVIOUS
  <2>1. p \in CompactPosition /\ p.nonce \in Nonces
    BY DEF TypeOK, CompactPosition
  <2>2. PICK t \in tasks : RunTask(t)
    <3>1. ~ Trade
      BY DEF Trade, OpenPosition, TypeOK
    <3>2. user_positions' # user_positions
      OBVIOUS
    <3>. QED
      BY <3>1, <3>2
      DEF Next, ProvideLiquidity, DepositLiquidity, RequestWithdrawal, CancelWithdrawal,
          ExecuteWithdrawal, ClaimFallbackPayout, Administer, WithdrawProtocolFees,
          SetMarketMode, Environment, Tick, Donate, positionVars
  \* What closing with some terms does to the position and to the log.
  <2>3. ASSUME NEW q \in user_positions[t.user], NEW terms, NEW usable \in BOOLEAN,
               ClosePosition(t.user, q, terms, usable)
        PROVE  /\ p = q
               /\ log'[p.nonce].status = terms.outcome
               /\ log'[p.nonce].payout = terms.payout
    <3>1. p = q
      BY <2>3 DEF ClosePosition, TypeOK
    <3>2. /\ log' = [log EXCEPT ![p.nonce] =
                       [status |-> terms.outcome, collateral |-> @.collateral,
                        payout |-> terms.payout, platform_fee |-> terms.platform_fee]]
      BY <2>3, <3>1 DEF ClosePosition
    <3>3. log'[p.nonce] = [status |-> terms.outcome, collateral |-> log[p.nonce].collateral,
                           payout |-> terms.payout, platform_fee |-> terms.platform_fee]
      BY <2>1, <3>2 DEF TypeOK
    <3>. QED BY <3>1, <3>3
  <2>4. ASSUME NEW usable \in BOOLEAN, RefundRun(t, usable)
        PROVE  /\ log'[p.nonce].status = "Refunded" /\ now >= RefundAt(p)
               /\ log'[p.nonce].payout = p.collateral
    <3>1. PICK q \in user_positions[t.user] :
            Refunds(t, q) /\ ClosePosition(t.user, q, RefundTerms(q), usable)
      BY <2>4 DEF RefundRun
    <3>2. /\ p = q
          /\ log'[p.nonce].status = RefundTerms(p).outcome
          /\ log'[p.nonce].payout = RefundTerms(p).payout
      BY <2>3, <3>1
    <3>. QED BY <2>1, <3>1, <3>2, TermsBounds DEF Refunds
  <2>5. ASSUME NEW update \in OracleUpdates, NEW usable \in BOOLEAN,
               SettlementRun(t, update, usable)
        PROVE  /\ log'[p.nonce].status # "Refunded"
               /\ now >= p.expires_at /\ now < RefundAt(p)
    <3>1. PICK q \in user_positions[t.user] :
            SettlesAt(t, q, update) /\ ClosePosition(t.user, q, SettlementTerms(q, update), usable)
      BY <2>5 DEF SettlementRun
    <3>2. p = q /\ log'[p.nonce].status = SettlementTerms(p, update).outcome
      BY <2>3, <3>1
    <3>3. SettlementTerms(p, update).outcome # "Refunded"
      BY <2>1, <3>1, <3>2, TermsBounds DEF SettlesAt
    <3>. QED BY <3>1, <3>2, <3>3 DEF SettlesAt
  <2>6. ASSUME NEW update \in OracleUpdates, IdleRun(t, update) PROVE FALSE
    BY <2>6 DEF IdleRun
  <2>. QED BY <2>2, <2>4, <2>5, <2>6 DEF RunTask
<1>. QED BY <1>1, TypeCorrect, PTL DEF Spec, SettledInWindow
-----------------------------------------------------------------------------
(***************************************************************************)
(* PredictionMarket implements PositionLedger.  The ledger counts its open *)
(* positions, the program keeps a counter of them; the ledger remembers    *)
(* what a position took, the program reads it from the position: both      *)
(* agree in every reachable state.                                         *)
(***************************************************************************)

OpenNonces == {n \in Nonces : HeldOpen(n)}

Recorded ==
  /\ \A u \in Users : \A p \in user_positions[u] : log[p.nonce].collateral = p.collateral
  /\ \A n \in Nonces : n >= next_position_nonce => log[n] = Unopened
  /\ IsFiniteSet(OpenNonces)
  /\ Cardinality(OpenNonces) = active_positions

\* What a new position and a closed one change of what the ledger sees.
LedgerOpens(n, collateral) ==
  /\ n = next_position_nonce /\ n \in Nonces /\ ~HeldOpen(n)
  /\ collateral \in Nat \ {0}
  /\ active_positions < MAX_ACTIVE_POSITIONS /\ active_positions' = active_positions + 1
  /\ next_position_nonce' = n + 1
  /\ log' = [log EXCEPT ![n] = [status |-> "Open", collateral |-> collateral,
                                payout |-> 0, platform_fee |-> 0]]
  /\ \A m \in Nonces : HeldOpen(m)' <=> HeldOpen(m) \/ m = n
  /\ \A u \in Users : \A p \in user_positions'[u] :
       p \in user_positions[u] \/ (p.nonce = n /\ p.collateral = collateral)

LedgerCloses(n, terms) ==
  /\ n \in Nonces /\ HeldOpen(n) /\ n < next_position_nonce
  /\ active_positions' = active_positions - 1
  /\ next_position_nonce' = next_position_nonce
  /\ log' = [log EXCEPT ![n] = [status |-> terms.outcome, collateral |-> log[n].collateral,
                                payout |-> terms.payout, platform_fee |-> terms.platform_fee]]
  /\ \A m \in Nonces : HeldOpen(m)' <=> HeldOpen(m) /\ m # n
  /\ \A u \in Users : \A p \in user_positions'[u] : p \in user_positions[u] /\ p.nonce # n
  /\ \/ terms.outcome = "Refunded" /\ terms.payout = log[n].collateral
     \/ /\ terms.outcome # "Refunded"
        /\ terms.payout \in 0..((1 + MAX_GROSS_PROFIT_MULTIPLIER) * log[n].collateral)

\* An open is an open of the ledger's.
LEMMA TradeOpens ==
  ASSUME TypeOK, Covered, Trade
  PROVE  \E n \in Nonces, collateral \in Nat : LedgerOpens(n, collateral)
<1> PICK u \in Users, task_salt \in TaskSalts, direction \in Direction,
         collateral \in Collaterals, window \in PriceWindows, delegated \in Allowances,
         update \in OracleUpdates :
           OpenPosition(u, next_position_nonce, task_salt, direction, collateral, window,
                        delegated, update)
  BY DEF Trade
<1> DEFINE position == [nonce |-> next_position_nonce, task_salt |-> task_salt,
                        collateral |-> collateral, entry_price |-> update.price,
                        expires_at |-> now + POSITION_DURATION_SECONDS,
                        direction |-> direction]
<1>0. PICK n \in Nonces : n = next_position_nonce
  <2>1. next_position_nonce \in 0..U32_MAX /\ next_position_nonce < U32_MAX
    BY DEF OpenPosition, TypeOK
  <2>. QED BY <2>1, NonceWidth DEF Nonces
<1>1. /\ user_positions' = [user_positions EXCEPT ![u] = @ \cup {position}]
      /\ active_positions < MAX_ACTIVE_POSITIONS /\ active_positions' = active_positions + 1
      /\ next_position_nonce' = n + 1
      /\ log' = [log EXCEPT ![n] = [status |-> "Open", collateral |-> collateral,
                                    payout |-> 0, platform_fee |-> 0]]
      /\ position.nonce = n /\ position.collateral = collateral
  BY <1>0 DEF OpenPosition, AdmitsPosition
<1>2. collateral \in Nat \ {0}
  BY InputTypes, LimitsAssumption DEF OpenPosition, AdmitsPosition, CollateralInBounds
<1>3. ~HeldOpen(n)
  BY <1>0 DEF HeldOpen, Covered, Numbered, Nonces
<1> HIDE DEF position
<1>5. \A v \in Users : user_positions'[v] = IF v = u THEN user_positions[v] \cup {position}
                                                     ELSE user_positions[v]
  BY <1>1 DEF TypeOK
<1>6. ASSUME NEW m \in Nonces PROVE HeldOpen(m)' <=> HeldOpen(m) \/ m = n
  <2>1. HeldOpen(m)' => HeldOpen(m) \/ m = n
    BY <1>1, <1>5 DEF HeldOpen
  <2>2. HeldOpen(m) => HeldOpen(m)'
    BY <1>5 DEF HeldOpen
  <2>3. position \in user_positions'[u]
    BY <1>5
  <2>4. m = n => HeldOpen(m)'
    BY <1>1, <2>3 DEF HeldOpen
  <2>. QED BY <2>1, <2>2, <2>4
<1>7. \A v \in Users : \A p \in user_positions'[v] :
        p \in user_positions[v] \/ (p.nonce = n /\ p.collateral = collateral)
  BY <1>1, <1>5
<1>8. LedgerOpens(n, collateral)
  BY <1>0, <1>1, <1>2, <1>3, <1>6, <1>7 DEF LedgerOpens
<1>9. collateral \in Nat
  BY <1>2
<1> HIDE DEF LedgerOpens
<1>. QED BY <1>8, <1>9

\* A close is a settlement or a refund of the ledger's.
LEMMA RunCloses ==
  ASSUME TypeOK, Covered, Recorded, NEW t \in tasks, RunTask(t),
         ~ \E update \in OracleUpdates : IdleRun(t, update)
  PROVE  \E n \in Nonces, terms \in [payout : Nat, platform_fee : Nat,
                                     outcome : PositionOutcome] :
           LedgerCloses(n, terms)
<1>1. t.user \in Users
  BY DEF TypeOK, ScheduledTask
<1>2. ASSUME NEW p \in user_positions[t.user], NEW terms, NEW usable \in BOOLEAN,
             ClosePosition(t.user, p, terms, usable),
             \/ terms.outcome = "Refunded" /\ terms.payout = log[p.nonce].collateral
             \/ /\ terms.outcome # "Refunded"
                /\ terms.payout \in 0..((1 + MAX_GROSS_PROFIT_MULTIPLIER) * log[p.nonce].collateral)
      PROVE  p.nonce \in Nonces /\ LedgerCloses(p.nonce, terms)
  <2> DEFINE n == p.nonce
  <2>1. n \in Nonces /\ n < next_position_nonce
    BY <1>1 DEF TypeOK, CompactPosition, Covered, Numbered
  <2>2. /\ user_positions' = [user_positions EXCEPT ![t.user] = @ \ {p}]
        /\ active_positions' = active_positions - 1
        /\ next_position_nonce' = next_position_nonce
    BY <1>2 DEF ClosePosition, ReleaseRisk
  <2>3. log' = [log EXCEPT ![n] = [status |-> terms.outcome, collateral |-> log[n].collateral,
                                   payout |-> terms.payout,
                                   platform_fee |-> terms.platform_fee]]
    BY <1>2, <2>1 DEF ClosePosition, TypeOK
  <2>4. HeldOpen(n)
    BY <1>1 DEF HeldOpen
  <2>5. \A v \in Users : user_positions'[v] = IF v = t.user THEN user_positions[v] \ {p}
                                                            ELSE user_positions[v]
    BY <2>2 DEF TypeOK
  <2>6. \A v \in Users : \A q \in user_positions[v] : q.nonce = n => v = t.user /\ q = p
    BY <1>1 DEF Covered, Numbered
  <2>7. ASSUME NEW m \in Nonces PROVE HeldOpen(m)' <=> HeldOpen(m) /\ m # n
    <3>1. ASSUME HeldOpen(m)' PROVE HeldOpen(m) /\ m # n
      <4>1. PICK v \in Users : \E q \in user_positions'[v] : q.nonce = m
        BY <3>1 DEF HeldOpen
      <4>2. PICK q \in user_positions'[v] : q.nonce = m
        BY <4>1
      <4>3. q \in user_positions[v] /\ ~(v = t.user /\ q = p)
        BY <2>5
      <4>. QED BY <2>6, <4>2, <4>3 DEF HeldOpen
    <3>2. ASSUME HeldOpen(m), m # n PROVE HeldOpen(m)'
      <4>1. PICK v \in Users : \E q \in user_positions[v] : q.nonce = m
        BY <3>2 DEF HeldOpen
      <4>2. PICK q \in user_positions[v] : q.nonce = m
        BY <4>1
      <4>3. q \in user_positions'[v]
        BY <2>5, <3>2, <4>2
      <4>. QED BY <4>2, <4>3 DEF HeldOpen
    <3>. QED BY <3>1, <3>2
  <2>8. \A v \in Users : \A q \in user_positions'[v] : q \in user_positions[v] /\ q.nonce # n
    BY <2>5, <2>6
  <2>. QED BY <1>2, <2>1, <2>2, <2>3, <2>4, <2>7, <2>8 DEF LedgerCloses
<1>3. ASSUME NEW usable \in BOOLEAN, RefundRun(t, usable)
      PROVE  \E n \in Nonces, terms \in [payout : Nat, platform_fee : Nat,
                                         outcome : PositionOutcome] :
               LedgerCloses(n, terms)
  <2>1. PICK p \in user_positions[t.user] : ClosePosition(t.user, p, RefundTerms(p), usable)
    BY <1>3 DEF RefundRun
  <2>2. p \in CompactPosition /\ log[p.nonce].collateral = p.collateral
    BY <1>1 DEF TypeOK, Recorded
  <2>3. /\ RefundTerms(p).outcome = "Refunded"
        /\ RefundTerms(p).payout = log[p.nonce].collateral
    BY <2>2, TermsBounds
  <2>4. RefundTerms(p) \in [payout : Nat, platform_fee : Nat, outcome : PositionOutcome]
    BY <2>2 DEF RefundTerms, CompactPosition, PositionOutcome
  <2>. QED BY <1>2, <2>1, <2>3, <2>4
<1>4. ASSUME NEW update \in OracleUpdates, NEW usable \in BOOLEAN,
             SettlementRun(t, update, usable)
      PROVE  \E n \in Nonces, terms \in [payout : Nat, platform_fee : Nat,
                                         outcome : PositionOutcome] :
               LedgerCloses(n, terms)
  <2>1. PICK p \in user_positions[t.user] :
          /\ SettlesAt(t, p, update)
          /\ ClosePosition(t.user, p, SettlementTerms(p, update), usable)
    BY <1>4 DEF SettlementRun
  <2> DEFINE terms == SettlementTerms(p, update)
  <2>2. /\ p \in CompactPosition /\ p.collateral \in Nat /\ QualifyingSample(update)
        /\ log[p.nonce].collateral = p.collateral
    BY <1>1, <2>1 DEF TypeOK, Recorded, SettlesAt, CompactPosition
  <2>3. /\ terms.payout \in Nat /\ terms.platform_fee \in Nat
        /\ terms.outcome \in PositionOutcome \ {"Refunded"}
        /\ terms.payout + terms.platform_fee
             <= p.collateral * (1 + MAX_GROSS_PROFIT_MULTIPLIER)
    BY <2>2, TermsBounds
  <2>4. terms \in [payout : Nat, platform_fee : Nat, outcome : PositionOutcome]
    BY <2>3 DEF SettlementTerms
  <2> HIDE DEF terms
  <2>5. terms.payout \in 0..((1 + MAX_GROSS_PROFIT_MULTIPLIER) * log[p.nonce].collateral)
    <3> DEFINE most == p.collateral * (1 + MAX_GROSS_PROFIT_MULTIPLIER)
    <3>1. most \in Nat /\ (1 + MAX_GROSS_PROFIT_MULTIPLIER) * p.collateral = most
      BY <2>2, RatesAssumption
    <3> HIDE DEF most
    <3>2. terms.payout + terms.platform_fee <= most
      BY <2>3 DEF most
    <3>3. terms.payout \in 0..most
      BY <2>3, <3>1, <3>2
    <3>. QED BY <2>2, <3>1, <3>3
  <2>6. ClosePosition(t.user, p, terms, usable)
    BY <2>1 DEF terms
  <2>. QED BY <1>2, <2>3, <2>4, <2>5, <2>6
<1>. QED BY <1>3, <1>4 DEF RunTask

\* Every step opens a position, closes one, or shows the ledger nothing.
LEMMA LedgerSteps ==
  ASSUME TypeOK, Covered, Recorded, [Next]_vars
  PROVE  \/ \E n \in Nonces, collateral \in Nat : LedgerOpens(n, collateral)
         \/ \E n \in Nonces, terms \in [payout : Nat, platform_fee : Nat,
                                        outcome : PositionOutcome] :
              LedgerCloses(n, terms)
         \/ UNCHANGED <<user_positions, log, next_position_nonce, active_positions>>
<1>1. CASE Trade
  BY <1>1, TradeOpens
<1>2. ASSUME NEW t \in tasks, RunTask(t)
      PROVE  \/ \E n \in Nonces, terms \in [payout : Nat, platform_fee : Nat,
                                            outcome : PositionOutcome] :
                  LedgerCloses(n, terms)
             \/ UNCHANGED <<user_positions, log, next_position_nonce, active_positions>>
  <2>1. CASE \E update \in OracleUpdates : IdleRun(t, update)
    BY <2>1 DEF IdleRun, marketVars
  <2>. QED BY <1>2, <2>1, RunCloses
<1>3. CASE ProvideLiquidity
  BY <1>3
  DEF ProvideLiquidity, DepositLiquidity, RequestWithdrawal, CancelWithdrawal,
      ExecuteWithdrawal, marketVars, positionVars
<1>4. ASSUME NEW u \in Users, ClaimFallbackPayout(u)
      PROVE  UNCHANGED <<user_positions, log, next_position_nonce, active_positions>>
  BY <1>4 DEF ClaimFallbackPayout, marketVars, positionVars
<1>5. CASE Administer
  BY <1>5 DEF Administer, WithdrawProtocolFees, SetMarketMode, marketVars, positionVars
<1>6. CASE Environment
  BY <1>6 DEF Environment, Tick, Donate, marketVars, positionVars
<1>7. CASE UNCHANGED vars
  BY <1>7 DEF vars, marketVars, positionVars
<1>. QED BY <1>1, <1>2, <1>3, <1>4, <1>5, <1>6, <1>7 DEF Next

\* Every step keeps the two records of a position the same, and its counter right.
LEMMA RecordedStep == TypeOK /\ Covered /\ Recorded /\ [Next]_vars => Recorded'
<1> SUFFICES ASSUME TypeOK, Covered, Recorded, [Next]_vars PROVE Recorded'
  OBVIOUS
<1>1. /\ log \in [Nonces -> LogEntry] /\ next_position_nonce \in Nat
      /\ \A n \in Nonces : n \in Nat
      /\ \A u \in Users : \A p \in user_positions[u] :
           p.nonce \in Nonces /\ p.nonce < next_position_nonce /\ HeldOpen(p.nonce)
  BY DEF TypeOK, Nonces, CompactPosition, Covered, Numbered, HeldOpen
<1>2. ASSUME NEW n \in Nonces, NEW collateral \in Nat, LedgerOpens(n, collateral)
      PROVE  Recorded'
  <2>1. OpenNonces' = OpenNonces \cup {n} /\ n \notin OpenNonces
    BY <1>2 DEF LedgerOpens, OpenNonces
  <2>2. IsFiniteSet(OpenNonces') /\ Cardinality(OpenNonces') = active_positions'
    BY <1>2, <2>1, FS_AddElement DEF Recorded, LedgerOpens
  <2>3. /\ log'[n].collateral = collateral
        /\ \A m \in Nonces \ {n} : log'[m] = log[m]
    BY <1>1, <1>2 DEF LedgerOpens
  <2>4. \A u \in Users : \A p \in user_positions'[u] : log'[p.nonce].collateral = p.collateral
    BY <1>1, <1>2, <2>3 DEF LedgerOpens, Recorded
  <2>5. \A m \in Nonces : m >= next_position_nonce' => log'[m] = Unopened
    BY <1>1, <1>2, <2>3 DEF LedgerOpens, Recorded
  <2>. QED BY <2>2, <2>4, <2>5 DEF Recorded
<1>3. ASSUME NEW n \in Nonces, NEW terms, LedgerCloses(n, terms) PROVE Recorded'
  <2>1. OpenNonces' = OpenNonces \ {n} /\ n \in OpenNonces
    BY <1>3 DEF LedgerCloses, OpenNonces
  <2>2. IsFiniteSet(OpenNonces') /\ Cardinality(OpenNonces') = active_positions'
    BY <1>3, <2>1, FS_RemoveElement DEF Recorded, LedgerCloses
  <2>3. \A m \in Nonces \ {n} : log'[m] = log[m]
    BY <1>1, <1>3 DEF LedgerCloses
  <2>4. \A u \in Users : \A p \in user_positions'[u] : log'[p.nonce].collateral = p.collateral
    BY <1>1, <1>3, <2>3 DEF LedgerCloses, Recorded
  <2>5. \A m \in Nonces : m >= next_position_nonce' => log'[m] = Unopened
    BY <1>1, <1>3, <2>3 DEF LedgerCloses, Recorded
  <2>. QED BY <2>2, <2>4, <2>5 DEF Recorded
<1>4. ASSUME UNCHANGED <<user_positions, log, next_position_nonce, active_positions>>
      PROVE  Recorded'
  <2>1. OpenNonces' = OpenNonces
    BY <1>4 DEF OpenNonces, HeldOpen
  <2>. QED BY <1>4, <2>1 DEF Recorded
<1>. QED BY <1>2, <1>3, <1>4, LedgerSteps

\* Nothing is recorded before the first position.
LEMMA RecordedInit == Init => Recorded
<1> SUFFICES ASSUME Init PROVE Recorded
  OBVIOUS
<1>1. OpenNonces = {}
  BY DEF Init, OpenNonces, HeldOpen
<1>. QED BY <1>1, FS_EmptySet DEF Recorded, Init

\* The initial states are the ledger's.
LEMMA LedgerStart == Init => Ledger!LedgerInit
<1> SUFFICES ASSUME Init PROVE Ledger!LedgerInit
  OBVIOUS
<1>1. ASSUME NEW n \in Nonces
      PROVE  PhaseOf(n) = "unopened" /\ log[n].collateral = 0 /\ log[n].payout = 0
  <2>1. ~HeldOpen(n) /\ n >= next_position_nonce
    BY NonceWidth DEF Init, HeldOpen, Nonces
  <2>. QED BY <2>1 DEF PhaseOf, Init, Unopened
<1>. QED BY <1>1 DEF Ledger!LedgerInit

\* Every step is one of the ledger's, or one it does not see.
LEMMA LedgerStep ==
  TypeOK /\ Covered /\ Recorded /\ [Next]_vars => [Ledger!LedgerNext]_(Ledger!ledgerVars)
<1> SUFFICES ASSUME TypeOK, Covered, Recorded, [Next]_vars
             PROVE  Ledger!LedgerNext \/ UNCHANGED Ledger!ledgerVars
  OBVIOUS
<1>1. /\ log \in [Nonces -> LogEntry] /\ next_position_nonce \in Nat
      /\ \A n \in Nonces : n \in Nat
  BY DEF TypeOK, Nonces
<1>2. ASSUME NEW n \in Nonces, NEW collateral \in Nat, LedgerOpens(n, collateral)
      PROVE  Ledger!LedgerNext
  <2>1. /\ ~HeldOpen(n) /\ HeldOpen(n)' /\ collateral \in Nat \ {0}
        /\ n = next_position_nonce
    BY <1>2 DEF LedgerOpens
  <2>2. PhaseOf(n) = "unopened" /\ PhaseOf(n)' = "open"
    BY <1>1, <2>1 DEF PhaseOf
  <2>3. \A m \in Nonces : m < n => PhaseOf(m) # "unopened"
    <3>1. ASSUME NEW m \in Nonces, m < n PROVE ~(m >= next_position_nonce)
      BY <1>1, <2>1, <3>1
    <3>. QED BY <3>1 DEF PhaseOf
  <2>4. /\ log'[n].collateral = collateral /\ log'[n].payout = 0
        /\ \A m \in Nonces \ {n} : log'[m] = log[m]
        /\ log[n].payout = 0
    BY <1>1, <1>2, <2>1 DEF LedgerOpens, Recorded, Unopened
  <2>5. ASSUME NEW m \in Nonces \ {n} PROVE PhaseOf(m)' = PhaseOf(m)
    <3>1. /\ HeldOpen(m)' <=> HeldOpen(m)
          /\ m >= next_position_nonce' <=> m >= next_position_nonce
          /\ m < next_position_nonce' <=> m < next_position_nonce
          /\ log'[m].status = log[m].status
      BY <1>1, <1>2, <2>4 DEF LedgerOpens
    <3>. QED BY <3>1 DEF PhaseOf
  <2>6. Ledger!OpenOnes = OpenNonces
    BY DEF Ledger!OpenOnes, OpenNonces, PhaseOf
  <2>7. Ledger!Cardinality(Ledger!OpenOnes) < MAX_ACTIVE_POSITIONS
    <3>1. Ledger!Cardinality(OpenNonces) = Cardinality(OpenNonces)
      BY DEF Ledger!Cardinality, Cardinality
    <3>. QED BY <1>2, <2>6, <3>1 DEF LedgerOpens, Recorded
  <2>8. Ledger!Open(n)
    BY <2>1, <2>2, <2>3, <2>4, <2>5, <2>7 DEF Ledger!Open
  <2>. QED BY <2>1, <2>8 DEF Ledger!LedgerNext
<1>3. ASSUME NEW n \in Nonces, NEW terms, LedgerCloses(n, terms) PROVE Ledger!LedgerNext
  <2>1. HeldOpen(n) /\ ~HeldOpen(n)' /\ n < next_position_nonce'
    BY <1>3 DEF LedgerCloses
  <2>2. /\ log'[n].collateral = log[n].collateral /\ log'[n].payout = terms.payout
        /\ log'[n].status = terms.outcome
        /\ \A m \in Nonces \ {n} : log'[m] = log[m]
    BY <1>1, <1>3 DEF LedgerCloses
  <2>3. PhaseOf(n) = "open"
          /\ PhaseOf(n)' = IF terms.outcome = "Refunded" THEN "refunded" ELSE "settled"
    BY <1>1, <1>3, <2>1, <2>2 DEF PhaseOf, LedgerCloses
  <2>4. ASSUME NEW m \in Nonces \ {n} PROVE PhaseOf(m)' = PhaseOf(m)
    <3>1. /\ HeldOpen(m)' <=> HeldOpen(m)
          /\ next_position_nonce' = next_position_nonce
          /\ log'[m].status = log[m].status
      BY <1>3, <2>2 DEF LedgerCloses
    <3>. QED BY <3>1 DEF PhaseOf
  <2>5. CASE terms.outcome = "Refunded" /\ terms.payout = log[n].collateral
    <3>1. Ledger!Refund(n)
      BY <2>2, <2>3, <2>4, <2>5 DEF Ledger!Refund
    <3>. QED BY <3>1 DEF Ledger!LedgerNext
  <2>6. CASE /\ terms.outcome # "Refunded"
             /\ terms.payout \in 0..((1 + MAX_GROSS_PROFIT_MULTIPLIER) * log[n].collateral)
    <3>1. Ledger!Settle(n)
      BY <2>2, <2>3, <2>4, <2>6 DEF Ledger!Settle
    <3>. QED BY <3>1 DEF Ledger!LedgerNext
  <2>. QED BY <1>3, <2>5, <2>6 DEF LedgerCloses
<1>4. ASSUME UNCHANGED <<user_positions, log, next_position_nonce, active_positions>>
      PROVE  UNCHANGED Ledger!ledgerVars
  <2>1. \A n \in Nonces : PhaseOf(n)' = PhaseOf(n)
    BY <1>4 DEF PhaseOf, HeldOpen
  <2>. QED BY <1>4, <2>1 DEF Ledger!ledgerVars
<1>. QED BY <1>2, <1>3, <1>4, LedgerSteps

\* The program implements the ledger: positions are numbered without gaps, no more
\* than the market's limit are open together, each is closed at most once, and pays
\* then at most its capped profit, or its stake when it is refunded.
THEOREM MarketImplementsLedger == Spec => ImplementsLedger
  BY LedgerStart, LedgerStep, RecordedInit, RecordedStep, CoveredInit, CoveredStep,
     TypeCorrect, PTL
  DEF Spec, ImplementsLedger, Ledger!LedgerSafety
=============================================================================
