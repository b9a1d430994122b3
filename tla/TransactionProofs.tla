------------------------- MODULE TransactionProofs --------------------------
(***************************************************************************)
(* The call-by-call program does what the atomic one does, for all mints,   *)
(* pools, users, accounts, amounts and widths.                              *)
(***************************************************************************)
EXTENDS Transaction, CallerProofs, SequenceTheorems, WellFoundedInduction

-----------------------------------------------------------------------------
(* Running a list of steps.                                                 *)

\* the steps can be executed one after the other on v, and lead to w
Executes(steps, v, w) ==
    \E views :
      /\ views[0] = v /\ views[Len(steps)] = w
      /\ \A i \in 1 .. Len(steps) :
           CanExecute(steps[i], views[i - 1]) /\ views[i] = Effect(steps[i], views[i - 1])

IsSequence(s) == \E S : s \in Seq(S)

\* what is known of a sequence
LEMMA SequenceFacts ==
    ASSUME NEW s, IsSequence(s)
    PROVE  Len(s) \in Nat /\ DOMAIN s = 1 .. Len(s)
BY LenProperties DEF IsSequence

\* a concatenation is a sequence, its steps those of the parts
LEMMA ConcatFacts ==
    ASSUME NEW a, NEW b, IsSequence(a), IsSequence(b)
    PROVE  /\ IsSequence(a \o b)
           /\ Len(a \o b) = Len(a) + Len(b)
           /\ \A i \in 1 .. Len(a) : (a \o b)[i] = a[i]
           /\ \A i \in 1 .. Len(b) : (a \o b)[Len(a) + i] = b[i]
<1>1. PICK S, T : a \in Seq(S) /\ b \in Seq(T)
  BY DEF IsSequence
<1>2. a \in Seq(S \cup T) /\ b \in Seq(S \cup T)
  BY <1>1, SeqMonotonic
<1>3. /\ a \o b \in Seq(S \cup T) /\ Len(a \o b) = Len(a) + Len(b)
      /\ \A i \in 1 .. Len(a) + Len(b) :
           (a \o b)[i] = IF i <= Len(a) THEN a[i] ELSE b[i - Len(a)]
  BY <1>2, ConcatProperties
<1>4. Len(a) \in Nat /\ Len(b) \in Nat
  BY <1>2, LenProperties
<1> QED BY <1>3, <1>4 DEF IsSequence

\* nothing to execute
LEMMA ExecutesNothing ==
    ASSUME NEW v, NEW w
    PROVE  Executes(<<>>, v, w) <=> v = w
<1>1. ASSUME v = w PROVE Executes(<<>>, v, w)
  <2> DEFINE views == [i \in {0} |-> v]
  <2>1. views[0] = v
    OBVIOUS
  <2> HIDE DEF views
  <2> QED BY <1>1, <2>1 DEF Executes
<1> QED BY <1>1 DEF Executes

\* one step
LEMMA ExecutesOne ==
    ASSUME NEW s, NEW v, NEW w, Executes(<<s>>, v, w)
    PROVE  CanExecute(s, v) /\ w = Effect(s, v)
<1>1. PICK views : /\ views[0] = v /\ views[1] = w
                   /\ \A i \in 1 .. 1 : /\ CanExecute(<<s>>[i], views[i - 1])
                                        /\ views[i] = Effect(<<s>>[i], views[i - 1])
  BY DEF Executes
<1>2. CanExecute(<<s>>[1], views[1 - 1]) /\ views[1] = Effect(<<s>>[1], views[1 - 1])
  BY <1>1
<1> QED BY <1>1, <1>2

\* one part after the other
LEMMA ExecutesConcat ==
    ASSUME NEW a, NEW b, IsSequence(a), IsSequence(b), NEW v, NEW w, Executes(a \o b, v, w)
    PROVE  \E u : Executes(a, v, u) /\ Executes(b, u, w)
<1> DEFINE n == Len(a)
           m == Len(b)
<1>1. PICK views :
        /\ views[0] = v /\ views[Len(a \o b)] = w
        /\ \A i \in 1 .. Len(a \o b) : /\ CanExecute((a \o b)[i], views[i - 1])
                                       /\ views[i] = Effect((a \o b)[i], views[i - 1])
  BY DEF Executes
<1>2. n \in Nat /\ m \in Nat /\ Len(a \o b) = n + m
  BY SequenceFacts, ConcatFacts
<1>3. \A i \in 1 .. n : CanExecute(a[i], views[i - 1]) /\ views[i] = Effect(a[i], views[i - 1])
  BY <1>1, <1>2, ConcatFacts
<1>4. Executes(a, v, views[n])
  BY <1>1, <1>3 DEF Executes
<1> DEFINE rest == [i \in 0 .. m |-> views[n + i]]
<1>5. rest[0] = views[n] /\ rest[m] = w
  BY <1>1, <1>2
<1>6. ASSUME NEW i \in 1 .. m
      PROVE  CanExecute(b[i], rest[i - 1]) /\ rest[i] = Effect(b[i], rest[i - 1])
  <2>1. n + i \in 1 .. n + m /\ (a \o b)[n + i] = b[i]
    BY <1>2, ConcatFacts
  <2>2. CanExecute(b[i], views[n + i - 1]) /\ views[n + i] = Effect(b[i], views[n + i - 1])
    BY <1>1, <1>2, <2>1
  <2>3. rest[i] = views[n + i] /\ rest[i - 1] = views[n + i - 1]
    BY <1>2
  <2> QED BY <2>2, <2>3
<1> HIDE DEF rest
<1>7. Executes(b, views[n], w)
  BY <1>5, <1>6 DEF Executes
<1> QED BY <1>4, <1>7

\* the first step, and then the others
LEMMA ExecutesFirst ==
    ASSUME NEW s, IsSequence(s), s # <<>>, NEW v, NEW w, CanExecute(Head(s), v),
           Executes(Tail(s), Effect(Head(s), v), w)
    PROVE  Executes(s, v, w)
<1>1. PICK S : s \in Seq(S)
  BY DEF IsSequence
<1> DEFINE n == Len(s)
<1>2. /\ n \in Nat \ {0} /\ Len(Tail(s)) = n - 1
      /\ \A i \in 1 .. n - 1 : Tail(s)[i] = s[i + 1]
      /\ Head(s) = s[1]
  BY <1>1, HeadTailProperties, EmptySeq, LenProperties
<1>3. PICK views :
        /\ views[0] = Effect(Head(s), v) /\ views[n - 1] = w
        /\ \A i \in 1 .. n - 1 : /\ CanExecute(Tail(s)[i], views[i - 1])
                                 /\ views[i] = Effect(Tail(s)[i], views[i - 1])
  BY <1>2 DEF Executes
<1> DEFINE all == [i \in 0 .. n |-> IF i = 0 THEN v ELSE views[i - 1]]
<1>4. all[0] = v /\ all[n] = w
  BY <1>2, <1>3
<1>5. ASSUME NEW i \in 1 .. n
      PROVE  CanExecute(s[i], all[i - 1]) /\ all[i] = Effect(s[i], all[i - 1])
  <2>1. CASE i = 1
    BY <1>2, <1>3, <2>1
  <2>2. CASE i # 1
    <3>1. /\ i - 1 \in 1 .. n - 1 /\ Tail(s)[i - 1] = s[i]
          /\ all[i - 1] = views[i - 1 - 1] /\ all[i] = views[i - 1]
      BY <1>2, <2>2
    <3> QED BY <1>3, <3>1
  <2> QED BY <2>1, <2>2
<1> HIDE DEF all
<1> QED BY <1>4, <1>5 DEF Executes

\* checks only read: all of them hold, and they leave the accounts as they are
LEMMA ExecutesChecks ==
    ASSUME NEW s, IsSequence(s), \A i \in 1 .. Len(s) : s[i].kind = "require",
           NEW v, NEW w, Executes(s, v, w)
    PROVE  w = v /\ \A i \in 1 .. Len(s) : s[i].ok
<1> DEFINE n == Len(s)
<1>1. PICK views :
        /\ views[0] = v /\ views[n] = w
        /\ \A i \in 1 .. n : /\ CanExecute(s[i], views[i - 1])
                             /\ views[i] = Effect(s[i], views[i - 1])
  BY DEF Executes
<1>2. n \in Nat
  BY SequenceFacts
<1>3. ASSUME NEW i \in 1 .. n PROVE s[i].ok /\ views[i] = views[i - 1]
  BY Zenon, <1>1 DEF CanExecute, Effect
<1>4. \A i \in 0 .. n : views[i] = v
  <2> SUFFICES ASSUME NEW j \in 0 .. n, views[j] # v PROVE FALSE
    OBVIOUS
  <2> DEFINE Changed == {i \in 0 .. n : views[i] # v}
  <2>1. PICK i \in Changed : \A k \in Changed : ~(k < i)
    <3>1. Changed \subseteq Nat /\ j \in Changed
      BY <1>2
    <3> HIDE DEF Changed
    <3> QED BY <3>1, LeastNatural
  <2>2. i # 0
    BY <1>1, <2>1
  <2>3. i - 1 \in 0 .. n /\ i \in 1 .. n /\ i - 1 < i
    BY <1>2, <2>1, <2>2
  <2> QED BY <1>3, <2>1, <2>3
<1> QED BY <1>1, <1>2, <1>3, <1>4

-----------------------------------------------------------------------------
(* The handlers' lists of steps.                                            *)

\* a step that works on accounts of the right kind, and an error somebody names
IsStep(s) ==
    /\ s.error \in Errors
    /\ \/ s.kind = "require"
       \/ s.kind = "transfer" /\ s.from \in TokenAccounts /\ s.to \in TokenAccounts
       \/ s.kind = "mint_to" /\ s.to \in TokenAccounts /\ s.mint \in PoolMints
       \/ s.kind = "burn" /\ s.from \in TokenAccounts /\ s.mint \in PoolMints
       \/ s.kind = "create" /\ s.amm \in Pools /\ s.amount0 \in U64 /\ s.amount1 \in U64
       \/ s.kind = "record" /\ s.amm \in Pools /\ s.data \in AmmData

IsProgram(steps) == IsSequence(steps) /\ \A i \in 1 .. Len(steps) : IsStep(steps[i])

\* a list of checks
AreChecks(steps) ==
    /\ IsSequence(steps)
    /\ \A i \in 1 .. Len(steps) : steps[i].kind = "require" /\ steps[i].error \in Errors

LEMMA ErrorsOfTheProgram == SwapError \subseteq Errors /\ {"Constraint", "TokenError", "Panic"} \subseteq Errors
BY DEF Errors

LEMMA CheckAccountsStepsFacts ==
    ASSUME NEW p, NEW a, NEW b, NEW m, NEW ua, NEW ub, NEW f
    PROVE  /\ AreChecks(CheckAccountsSteps(p, a, b, m, ua, ub, f))
           /\ (\A i \in 1 .. Len(CheckAccountsSteps(p, a, b, m, ua, ub, f)) :
                CheckAccountsSteps(p, a, b, m, ua, ub, f)[i].ok) =>
                  CheckAccounts(p, a, b, m, ua, ub, f)
<1> DEFINE s == CheckAccountsSteps(p, a, b, m, ua, ub, f)
<1>0. IsSequence(s) /\ Len(s) = 7
  <2> DEFINE S == {s[1], s[2], s[3], s[4], s[5], s[6], s[7]}
  <2>1. s \in Seq(S) /\ Len(s) = 7
    BY DEF CheckAccountsSteps
  <2> QED BY <2>1 DEF IsSequence
<1>1. AreChecks(s)
  BY <1>0 DEF CheckAccountsSteps, AreChecks, Require, Errors, SwapError
<1>2. ASSUME \A i \in 1 .. 7 : s[i].ok
      PROVE  CheckAccounts(p, a, b, m, ua, ub, f)
  <2>1. s[1].ok /\ s[2].ok /\ s[3].ok /\ s[4].ok /\ s[5].ok /\ s[6].ok /\ s[7].ok
    BY <1>2
  <2>2. (Authority(p) = AuthorityId(p)) /\ a = amm[p].token_a_account
    BY <2>1 DEF CheckAccountsSteps, Require
  <2>3. b = amm[p].token_b_account /\ m = amm[p].pool_mint
    BY <2>1 DEF CheckAccountsSteps, Require
  <2>4. a \notin ua /\ b \notin ub
    BY <2>1 DEF CheckAccountsSteps, Require
  <2>5. f \subseteq {amm[p].pool_fee_account}
    BY <2>1 DEF CheckAccountsSteps, Require
  <2> QED BY <2>2, <2>3, <2>4, <2>5 DEF CheckAccounts
<1> QED BY <1>1, <1>2, <1>0

-----------------------------------------------------------------------------
(* One step after the other.                                                *)

LEMMA OneStepIsASequence == ASSUME NEW s PROVE IsSequence(<<s>>) /\ Len(<<s>>) = 1
BY <<s>> \in Seq({s}) DEF IsSequence

LEMMA TwoStepsAreASequence ==
    ASSUME NEW s, NEW t PROVE IsSequence(<<s, t>>) /\ <<s, t>> = <<s>> \o <<t>>
<1>1. <<s, t>> \in Seq({s, t}) /\ <<s>> \in Seq({s, t}) /\ <<t>> \in Seq({s, t})
  OBVIOUS
<1>2. IsSequence(<<s, t>>)
  BY <1>1 DEF IsSequence
<1>3. /\ Len(<<s>>) = 1 /\ Len(<<t>>) = 1 /\ Len(<<s, t>>) = 2
      /\ <<s>>[1] = s /\ <<t>>[1] = t /\ <<s, t>>[1] = s /\ <<s, t>>[2] = t
  OBVIOUS
<1>4. <<s>> \o <<t>> = <<s, t>>
  <2> DEFINE a == <<s>>
             b == <<t>>
             c == <<s, t>>
             d == a \o b
  <2>1. d \in Seq({s, t}) /\ c \in Seq({s, t}) /\ Len(d) = 2 /\ Len(c) = 2
    BY <1>1, <1>3, ConcatProperties
  <2>2. d[1] = s /\ d[2] = t
    BY <1>1, <1>3, ConcatProperties
  <2>3. \A i \in 1 .. 2 : d[i] = c[i]
    BY <1>3, <2>2
  <2> HIDE DEF c, d
  <2>4. d = c
    BY <2>1, <2>3, SeqEqual
  <2> QED BY <2>4 DEF c, d
<1> QED BY <1>2, <1>4

LEMMA ThreeStepsAreASequence ==
    ASSUME NEW s, NEW t, NEW r
    PROVE  IsSequence(<<s, t, r>>) /\ <<s, t, r>> = <<s, t>> \o <<r>>
<1> DEFINE S == {s, t, r}
<1>1. <<s, t>> \in Seq(S) /\ <<r>> \in Seq(S) /\ <<s, t, r>> \in Seq(S)
  OBVIOUS
<1>2. IsSequence(<<s, t, r>>)
  BY <1>1 DEF IsSequence
<1>3. /\ Len(<<s, t>>) = 2 /\ Len(<<r>>) = 1 /\ Len(<<s, t, r>>) = 3
      /\ <<s, t>>[1] = s /\ <<s, t>>[2] = t /\ <<r>>[1] = r
      /\ <<s, t, r>>[1] = s /\ <<s, t, r>>[2] = t /\ <<s, t, r>>[3] = r
  OBVIOUS
<1>4. <<s, t>> \o <<r>> = <<s, t, r>>
  <2> DEFINE a == <<s, t>>
             b == <<r>>
             c == <<s, t, r>>
             d == a \o b
  <2>1. d \in Seq(S) /\ c \in Seq(S) /\ Len(d) = 3 /\ Len(c) = 3
    BY <1>1, <1>3, ConcatProperties
  <2>2. d[1] = s /\ d[2] = t /\ d[3] = r
    BY <1>1, <1>3, ConcatProperties
  <2>3. \A i \in 1 .. 3 : d[i] = c[i]
    BY <1>3, <2>2
  <2> HIDE DEF c, d
  <2>4. d = c
    BY <2>1, <2>3, SeqEqual
  <2> QED BY <2>4 DEF c, d
<1> QED BY <1>2, <1>4

LEMMA ExecutesTwo ==
    ASSUME NEW s, NEW t, NEW v, NEW w, Executes(<<s, t>>, v, w)
    PROVE  CanExecute(s, v) /\ CanExecute(t, Effect(s, v)) /\ w = Effect(t, Effect(s, v))
<1>1. PICK u : Executes(<<s>>, v, u) /\ Executes(<<t>>, u, w)
  BY TwoStepsAreASequence, OneStepIsASequence, ExecutesConcat
<1> QED BY <1>1, ExecutesOne

LEMMA ExecutesThree ==
    ASSUME NEW s, NEW t, NEW r, NEW v, NEW w, Executes(<<s, t, r>>, v, w)
    PROVE  /\ CanExecute(s, v) /\ CanExecute(t, Effect(s, v))
           /\ CanExecute(r, Effect(t, Effect(s, v)))
           /\ w = Effect(r, Effect(t, Effect(s, v)))
<1>1. PICK u : Executes(<<s, t>>, v, u) /\ Executes(<<r>>, u, w)
  BY TwoStepsAreASequence, ThreeStepsAreASequence, OneStepIsASequence, ExecutesConcat
<1> QED BY <1>1, ExecutesTwo, ExecutesOne

\* a conditional part of a handler
LEMMA WhenIsASequence ==
    ASSUME NEW c, NEW s, IsSequence(s) PROVE IsSequence(When(c, s))
BY <<>> \in Seq({}) DEF IsSequence, When

LEMMA ExecutesWhen ==
    ASSUME NEW c \in BOOLEAN, NEW s, NEW v, NEW w, Executes(When(c, s), v, w)
    PROVE  (c => Executes(s, v, w)) /\ (~c => w = v)
BY ExecutesNothing DEF When

View(a, b, s) == [amm |-> a, bal |-> b, supply |-> s]

\* a check
LEMMA RequireStep ==
    ASSUME NEW ok \in BOOLEAN, NEW error, NEW v
    PROVE  (CanExecute(Require(ok, error), v) <=> ok) /\ Effect(Require(ok, error), v) = v
BY DEF CanExecute, Effect, Require

\* a transfer, an issue of pool tokens, a redemption
LEMMA PayStep ==
    ASSUME NEW from, NEW to, NEW amount, NEW authority, NEW signers, NEW a, NEW b, NEW s
    PROVE  LET step == Pay(from, to, amount, authority, signers)
           IN  /\ CanExecute(step, View(a, b, s)) <=>
                    CanTransfer(b, from, to, amount, authority, signers)
               /\ Effect(step, View(a, b, s)) = View(a, Transfer(b, from, to, amount), s)
BY DEF CanExecute, Effect, Pay, View

LEMMA IssueStep ==
    ASSUME NEW mint, NEW to, NEW amount, NEW authority, NEW signers, NEW a, NEW b, NEW s
    PROVE  LET step == Issue(mint, to, amount, authority, signers)
           IN  /\ CanExecute(step, View(a, b, s)) <=>
                    CanMintTo(b, s[mint], to, amount, mint, authority, signers)
               /\ Effect(step, View(a, b, s)) =
                    View(a, MintTo(b, to, amount), [s EXCEPT ![mint] = @ + amount])
BY DEF CanExecute, Effect, Issue, View

LessSupply(s, mint, amount) == [s EXCEPT ![mint] = @ - amount]

LEMMA RedeemStep ==
    ASSUME NEW mint, NEW from, NEW amount, NEW owner, NEW a, NEW b, NEW s
    PROVE  CanExecute(Redeem(mint, from, amount, owner), View(a, b, s)) <=>
             CanBurn(b, s[mint], from, amount, mint, owner, {owner})
BY DEF CanExecute, Redeem, View

LEMMA RedeemEffect ==
    ASSUME NEW mint, NEW from, NEW amount, NEW owner, NEW a, NEW b, NEW s
    PROVE  Effect(Redeem(mint, from, amount, owner), View(a, b, s)) =
             View(a, Burn(b, from, amount), LessSupply(s, mint, amount))
BY DEF Effect, Redeem, View, LessSupply

\* the accounts of a new pool
LEMMA CreateStep ==
    ASSUME NEW p, NEW x, NEW y, NEW a, NEW b, NEW s
    PROVE  CanExecute(Create(p, x, y), View(a, b, s)) <=> ~a[p].is_initialized
BY DEF CanExecute, Create, View

Opened(b, p, x, y) == [b EXCEPT ![Vault0(p)] = x, ![Vault1(p)] = y]

LEMMA CreateEffect ==
    ASSUME NEW p, NEW x, NEW y, NEW a, NEW b, NEW s
    PROVE  Effect(Create(p, x, y), View(a, b, s)) = View(a, Opened(b, p, x, y), s)
BY DEF Effect, Create, View, Opened

-----------------------------------------------------------------------------
(* Executed to its end, a handler does what its action does.                *)

\* the accounts become what the last step leaves
Commits(w) == amm' = w.amm /\ bal' = w.bal /\ supply' = w.supply /\ repairs' = repairs

LEMMA LoadedView == Loaded = View(amm, bal, supply)
BY DEF Loaded, View

LEMMA DepositAllExecuted ==
    ASSUME TypeOK, NEW acc \in DepositAllAccounts, NEW n \in U64, NEW max_a \in U64,
           NEW max_b \in U64, NEW arg,
           arg = [pool_token_amount |-> n, maximum_a |-> max_a, maximum_b |-> max_b],
           NEW w, Executes(DepositAllSteps(acc, arg), Loaded, w), Commits(w)
    PROVE  DepositAll(acc, n, max_a, max_b)
<1> DEFINE p       == acc.amm
           signers == {acc.owner, SeedSigner(p)}
           live    == supply[acc.pool_mint] > 0
           pool_token_amount == IF live THEN n ELSE NewPoolSupply
           pool_mint_supply  == IF live THEN supply[acc.pool_mint] ELSE NewPoolSupply
           results == PoolTokensToTradingTokens(pool_token_amount, pool_mint_supply,
                          bal[acc.vault_token_a], bal[acc.vault_token_b], "Ceiling")
           pay     == Given(results, [token_a_amount |-> 0, token_b_amount |-> 0])
           first   == << Require(DepositAllConstraints(acc), "Constraint") >>
           second  == CheckAccountsSteps(p, acc.vault_token_a, acc.vault_token_b, acc.pool_mint,
                                         {acc.source_a_info}, {acc.source_b_info}, {})
           checks  == << Require(results # {}, "ZeroTradingTokens"),
                         Require(pay.token_a_amount \in U64, "Panic"),
                         Require(pay.token_a_amount <= max_a, "ExceededSlippage"),
                         Require(pay.token_a_amount # 0, "ZeroTradingTokens"),
                         Require(pay.token_b_amount \in U64, "Panic"),
                         Require(pay.token_b_amount <= max_b, "ExceededSlippage"),
                         Require(pay.token_b_amount # 0, "ZeroTradingTokens") >>
           pay_a   == Pay(acc.source_a_info, acc.vault_token_a, pay.token_a_amount, acc.owner,
                          signers)
           pay_b   == Pay(acc.source_b_info, acc.vault_token_b, pay.token_b_amount, acc.owner,
                          signers)
           issue   == Issue(acc.pool_mint, acc.destination, pool_token_amount, Authority(p), signers)
<1>1. DepositAllSteps(acc, arg) = first \o second \o checks \o <<pay_a, pay_b, issue>>
  BY ZenonT(40) DEF DepositAllSteps
<1>2. IsSequence(first) /\ IsSequence(second) /\ AreChecks(second)
  BY OneStepIsASequence, CheckAccountsStepsFacts DEF AreChecks
<1> HIDE DEF results, pay, pool_token_amount, pool_mint_supply, pay_a, pay_b, issue
<1>3. AreChecks(checks) /\ Len(checks) = 7
  <2> DEFINE S == {checks[i] : i \in 1 .. 7}
  <2>1. checks \in Seq(S) /\ Len(checks) = 7
    OBVIOUS
  <2>2. \A i \in 1 .. 7 : checks[i].kind = "require"
    BY DEF Require
  <2>3. \A i \in 1 .. 7 : checks[i].error \in Errors
    BY DEF Require, Errors, SwapError
  <2> HIDE DEF checks, S
  <2> QED BY <2>1, <2>2, <2>3 DEF AreChecks, IsSequence
<1> HIDE DEF first, second, checks
<1>4. /\ IsSequence(first \o second) /\ IsSequence(first \o second \o checks)
      /\ IsSequence(<<pay_a, pay_b, issue>>)
  BY <1>2, <1>3, ConcatFacts, ThreeStepsAreASequence DEF AreChecks
<1>5. PICK u : Executes(first \o second \o checks, Loaded, u) /\ Executes(<<pay_a, pay_b, issue>>, u, w)
  BY <1>1, <1>4, ExecutesConcat
<1>6. PICK v : Executes(first \o second, Loaded, v) /\ Executes(checks, v, u)
  BY <1>2, <1>3, <1>4, <1>5, ExecutesConcat DEF AreChecks
<1>7. PICK x : Executes(first, Loaded, x) /\ Executes(second, x, v)
  BY <1>2, <1>6, ExecutesConcat
<1>8. DepositAllConstraints(acc) /\ x = Loaded
  <2>1. DepositAllConstraints(acc) \in BOOLEAN
    BY DEF DepositAllConstraints
  <2> QED BY <1>7, <2>1, ExecutesOne, RequireStep DEF first
<1>9. /\ v = x
      /\ CheckAccounts(p, acc.vault_token_a, acc.vault_token_b, acc.pool_mint,
                       {acc.source_a_info}, {acc.source_b_info}, {})
  BY <1>2, <1>7, ExecutesChecks, CheckAccountsStepsFacts DEF AreChecks, second
<1>10. u = v /\ \A i \in 1 .. 7 : checks[i].ok
  BY <1>3, <1>6, ExecutesChecks DEF AreChecks
<1>11. /\ results # {}
       /\ pay.token_a_amount \in U64 /\ pay.token_a_amount <= max_a /\ pay.token_a_amount # 0
       /\ pay.token_b_amount \in U64 /\ pay.token_b_amount <= max_b /\ pay.token_b_amount # 0
  <2>1. /\ checks[1].ok /\ checks[2].ok /\ checks[3].ok /\ checks[4].ok /\ checks[5].ok
        /\ checks[6].ok /\ checks[7].ok
    BY <1>10
  <2>2. results # {}
    BY <2>1 DEF checks, Require
  <2>3. pay.token_a_amount \in U64 /\ pay.token_a_amount <= max_a /\ pay.token_a_amount # 0
    BY <2>1 DEF checks, Require
  <2>4. pay.token_b_amount \in U64 /\ pay.token_b_amount <= max_b /\ pay.token_b_amount # 0
    BY <2>1 DEF checks, Require
  <2> QED BY <2>2, <2>3, <2>4
<1>12. pay \in results
  BY <1>11 DEF Given, pay
<1> DEFINE paid_a == Transfer(bal, acc.source_a_info, acc.vault_token_a, pay.token_a_amount)
           paid_b == Transfer(paid_a, acc.source_b_info, acc.vault_token_b, pay.token_b_amount)
           minted == MintTo(paid_b, acc.destination, pool_token_amount)
<1> HIDE DEF paid_a, paid_b
<1>13. /\ CanExecute(pay_a, Loaded)
       /\ CanExecute(pay_b, Effect(pay_a, Loaded))
       /\ CanExecute(issue, Effect(pay_b, Effect(pay_a, Loaded)))
       /\ w = Effect(issue, Effect(pay_b, Effect(pay_a, Loaded)))
  BY <1>5, <1>8, <1>9, <1>10, ExecutesThree
<1>14. /\ CanTransfer(bal, acc.source_a_info, acc.vault_token_a, pay.token_a_amount, acc.owner,
                      signers)
       /\ Effect(pay_a, Loaded) = View(amm, paid_a, supply)
  BY <1>13, PayStep, LoadedView DEF pay_a, paid_a
<1>15. /\ CanTransfer(paid_a, acc.source_b_info, acc.vault_token_b, pay.token_b_amount, acc.owner,
                      signers)
       /\ Effect(pay_b, Effect(pay_a, Loaded)) = View(amm, paid_b, supply)
  BY <1>13, <1>14, PayStep DEF pay_b, paid_b
<1>20. /\ CanMintTo(paid_b, supply[acc.pool_mint], acc.destination, pool_token_amount,
                    acc.pool_mint, Authority(p), signers)
       /\ w = View(amm, minted, [supply EXCEPT ![acc.pool_mint] = @ + pool_token_amount])
  BY <1>13, <1>15, IssueStep DEF issue
<1>16. /\ bal' = MintTo(paid_b, acc.destination, pool_token_amount)
       /\ supply' = [supply EXCEPT ![acc.pool_mint] = @ + pool_token_amount]
       /\ UNCHANGED <<repairs, amm>>
  BY <1>20 DEF Commits, View
<1>17. DepositAllAccountsHold(acc)
  BY <1>8, <1>9 DEF DepositAllAccountsHold
<1>18. /\ pay.token_a_amount \in 1 .. max_a /\ pay.token_b_amount \in 1 .. max_b
       /\ live <=> ~(supply[acc.pool_mint] = 0)
  <2>1. supply[acc.pool_mint] \in U64
    BY DEF TypeOK, DepositAllAccounts
  <2> QED BY <1>11, <2>1, U64Assumption DEF U64
<1> QED
  BY Zenon, <1>12, <1>14, <1>15, <1>16, <1>17, <1>18, <1>20
     DEF DepositAll, results, paid_a, paid_b, pool_token_amount, pool_mint_supply
\* the side a single-sided instruction works on is one or none
LEMMA OneSide ==
    ASSUME NEW t, NEW a, NEW b, SideOf(t, a, b) # {}
    PROVE  \E d \in {"AtoB", "BtoA"} : SideOf(t, a, b) = {d}
BY DEF SideOf, Some, None

LEMMA DepositSingleExecuted ==
    ASSUME TypeOK, NEW acc \in DepositSingleAccounts, NEW n \in U64, NEW minimum \in U64, NEW arg,
           arg = [source_token_amount |-> n, minimum |-> minimum],
           NEW w, Executes(DepositSingleSteps(acc, arg), Loaded, w), Commits(w)
    PROVE  DepositSingle(acc, n, minimum)
<1> DEFINE p       == acc.amm
           signers == {acc.owner, SeedSigner(p)}
           side    == SideOf(acc.source, acc.swap_token_a, acc.swap_token_b)
           on_a    == side = Some("AtoB")
           tokens  == IF supply[acc.pool_mint] = 0 THEN Some(NewPoolSupply)
                      ELSE UNION { CurveDepositSingle(n, bal[acc.swap_token_a],
                                     bal[acc.swap_token_b], supply[acc.pool_mint], d, amm[p].fees) :
                                   d \in side }
           pool_token_amount == Given(tokens, 0)
           vault   == IF on_a THEN acc.swap_token_a ELSE acc.swap_token_b
           first   == << Require(DepositSingleConstraints(acc), "Constraint"),
                         Require(side # {}, "IncorrectSwapAccount") >>
           second  == CheckAccountsSteps(p, acc.swap_token_a, acc.swap_token_b, acc.pool_mint,
                                         IF on_a THEN {acc.source} ELSE {},
                                         IF on_a THEN {} ELSE {acc.source}, {})
           checks  == << Require(tokens # {}, "ZeroTradingTokens"),
                         Require(pool_token_amount \in U64, "Panic"),
                         Require(minimum <= pool_token_amount, "ExceededSlippage"),
                         Require(pool_token_amount # 0, "ZeroTradingTokens") >>
           pay     == Pay(acc.source, vault, n, acc.owner, {acc.owner})
           issue   == Issue(acc.pool_mint, acc.destination, pool_token_amount, Authority(p), signers)
<1>1. DepositSingleSteps(acc, arg) = first \o second \o checks \o <<pay, issue>>
  BY DEF DepositSingleSteps
<1> HIDE DEF tokens, pool_token_amount, pay, issue
<1>2. IsSequence(first) /\ IsSequence(second) /\ AreChecks(second)
  <2>1. IsSequence(first)
    BY TwoStepsAreASequence
  <2>2. AreChecks(second)
    BY CheckAccountsStepsFacts
  <2> QED BY <2>1, <2>2 DEF AreChecks
<1>3. AreChecks(checks) /\ Len(checks) = 4
  <2> DEFINE S == {checks[i] : i \in 1 .. 4}
  <2>1. checks \in Seq(S) /\ Len(checks) = 4
    OBVIOUS
  <2>2. \A i \in 1 .. 4 : checks[i].kind = "require"
    BY DEF Require
  <2>3. \A i \in 1 .. 4 : checks[i].error \in Errors
    BY DEF Require, Errors, SwapError
  <2> HIDE DEF checks, S
  <2> QED BY <2>1, <2>2, <2>3 DEF AreChecks, IsSequence
<1> HIDE DEF first, second, checks
<1>4. /\ IsSequence(first \o second) /\ IsSequence(first \o second \o checks)
      /\ IsSequence(<<pay, issue>>)
  BY <1>2, <1>3, ConcatFacts, TwoStepsAreASequence DEF AreChecks
<1>5. PICK u : Executes(first \o second \o checks, Loaded, u) /\ Executes(<<pay, issue>>, u, w)
  BY <1>1, <1>4, ExecutesConcat
<1>6. PICK v : Executes(first \o second, Loaded, v) /\ Executes(checks, v, u)
  BY <1>2, <1>3, <1>4, <1>5, ExecutesConcat DEF AreChecks
<1>7. PICK x : Executes(first, Loaded, x) /\ Executes(second, x, v)
  BY <1>2, <1>6, ExecutesConcat
<1>8. DepositSingleConstraints(acc) /\ side # {} /\ x = Loaded
  <2>1. DepositSingleConstraints(acc) \in BOOLEAN /\ (side # {}) \in BOOLEAN
    BY DEF DepositSingleConstraints
  <2> DEFINE constraint == Require(DepositSingleConstraints(acc), "Constraint")
             known      == Require(side # {}, "IncorrectSwapAccount")
  <2>2. first = <<constraint, known>>
    BY DEF first
  <2> HIDE DEF constraint, known
  <2>3. /\ CanExecute(constraint, Loaded) /\ CanExecute(known, Effect(constraint, Loaded))
        /\ x = Effect(known, Effect(constraint, Loaded))
    BY <1>7, <2>2, ExecutesTwo
  <2>4. DepositSingleConstraints(acc) /\ Effect(constraint, Loaded) = Loaded
    BY <2>1, <2>3, RequireStep DEF constraint
  <2>5. side # {} /\ Effect(known, Loaded) = Loaded
    BY <2>1, <2>3, <2>4, RequireStep DEF known
  <2> QED BY <2>3, <2>4, <2>5
<1>9. /\ v = x
      /\ CheckAccounts(p, acc.swap_token_a, acc.swap_token_b, acc.pool_mint,
                       IF on_a THEN {acc.source} ELSE {}, IF on_a THEN {} ELSE {acc.source}, {})
  BY <1>2, <1>7, ExecutesChecks, CheckAccountsStepsFacts DEF AreChecks, second
<1>10. u = v /\ \A i \in 1 .. 4 : checks[i].ok
  BY <1>3, <1>6, ExecutesChecks DEF AreChecks
<1>11. /\ tokens # {}
       /\ pool_token_amount \in U64 /\ minimum <= pool_token_amount /\ pool_token_amount # 0
  <2>1. checks[1].ok /\ checks[2].ok /\ checks[3].ok /\ checks[4].ok
    BY <1>10
  <2> QED BY <2>1 DEF checks, Require
<1>12. pool_token_amount \in tokens
  BY <1>11 DEF Given, pool_token_amount
<1> DEFINE paid   == Transfer(bal, acc.source, vault, n)
           minted == MintTo(paid, acc.destination, pool_token_amount)
<1> HIDE DEF paid
<1>13. /\ CanExecute(pay, Loaded) /\ CanExecute(issue, Effect(pay, Loaded))
       /\ w = Effect(issue, Effect(pay, Loaded))
  BY <1>5, <1>8, <1>9, <1>10, ExecutesTwo
<1>14. /\ CanTransfer(bal, acc.source, vault, n, acc.owner, {acc.owner})
       /\ Effect(pay, Loaded) = View(amm, paid, supply)
  BY <1>13, PayStep, LoadedView DEF pay, paid
<1>15. /\ CanMintTo(paid, supply[acc.pool_mint], acc.destination, pool_token_amount,
                    acc.pool_mint, Authority(p), signers)
       /\ w = View(amm, minted, [supply EXCEPT ![acc.pool_mint] = @ + pool_token_amount])
  BY <1>13, <1>14, IssueStep DEF issue
<1>16. /\ bal' = minted
       /\ supply' = [supply EXCEPT ![acc.pool_mint] = @ + pool_token_amount]
       /\ UNCHANGED <<repairs, amm>>
  BY <1>15 DEF Commits, View
<1>17. PICK d \in {"AtoB", "BtoA"} : side = {d}
  BY <1>8, OneSide
<1>18. on_a <=> d = "AtoB"
  BY <1>17 DEF Some
<1>19. DepositSingleAccountsHold(acc, d)
  BY <1>8, <1>9, <1>17, <1>18 DEF DepositSingleAccountsHold
<1>20. pool_token_amount \in IF supply[acc.pool_mint] > 0
                             THEN CurveDepositSingle(n, bal[acc.swap_token_a], bal[acc.swap_token_b],
                                                     supply[acc.pool_mint], d, amm[p].fees)
                             ELSE Some(NewPoolSupply)
  <2>1. supply[acc.pool_mint] \in U64
    BY DEF TypeOK, DepositSingleAccounts
  <2>2. supply[acc.pool_mint] > 0 <=> supply[acc.pool_mint] # 0
    BY <2>1, U64Assumption DEF U64
  <2> HIDE DEF side
  <2> QED BY <1>12, <1>17, <2>2 DEF tokens
<1>21. vault = IF d = "AtoB" THEN acc.swap_token_a ELSE acc.swap_token_b
  BY <1>18
<1>22. d \in SideOf(acc.source, acc.swap_token_a, acc.swap_token_b)
  BY <1>17
<1> HIDE DEF vault, side, on_a
<1> QED
  BY <1>11, <1>14, <1>15, <1>16, <1>19, <1>20, <1>21, <1>22 DEF DepositSingle, paid
\* a payment of the caller, if any, and the burn, in a view of the accounts
LEMMA ChargeAndBurn ==
    ASSUME NEW fee, NEW source, NEW fee_account, NEW owner, NEW m, NEW k, NEW x, NEW y,
           Executes(When(fee > 0, <<Pay(source, fee_account, fee, owner, {owner})>>), Loaded, x),
           CanExecute(Redeem(m, source, k, owner), x), y = Effect(Redeem(m, source, k, owner), x),
           k \in U64 => fee \in Nat, NEW charged,
           charged = IF fee = 0 THEN bal ELSE Transfer(bal, source, fee_account, fee)
    PROVE  /\ fee # 0 => CanTransfer(bal, source, fee_account, fee, owner, {owner})
           /\ CanBurn(charged, supply[m], source, k, m, owner, {owner})
           /\ y = View(amm, Burn(charged, source, k), LessSupply(supply, m, k))
<1> DEFINE pay    == Pay(source, fee_account, fee, owner, {owner})
           redeem == Redeem(m, source, k, owner)
           paid   == Transfer(bal, source, fee_account, fee)
           due    == fee > 0
<1>1. /\ Executes(When(due, <<pay>>), Loaded, x) /\ due \in BOOLEAN
      /\ CanExecute(redeem, x) /\ y = Effect(redeem, x)
  OBVIOUS
<1>2. ASSUME NEW b, x = View(amm, b, supply)
      PROVE  /\ CanBurn(b, supply[m], source, k, m, owner, {owner})
             /\ y = View(amm, Burn(b, source, k), LessSupply(supply, m, k))
             /\ fee \in Nat
  <2> HIDE DEF pay, due, redeem
  <2>0. CanExecute(redeem, View(amm, b, supply)) /\ y = Effect(redeem, View(amm, b, supply))
    BY <1>1, <1>2
  <2>1. CanBurn(b, supply[m], source, k, m, owner, {owner})
    BY <2>0, RedeemStep DEF redeem
  <2>2. y = View(amm, Burn(b, source, k), LessSupply(supply, m, k))
    <3>1. Effect(redeem, View(amm, b, supply)) = View(amm, Burn(b, source, k), LessSupply(supply, m, k))
      BY RedeemEffect DEF redeem
    <3> QED BY <2>0, <3>1
  <2>3. fee \in Nat
    BY <2>1 DEF CanBurn
  <2> QED BY <2>1, <2>2, <2>3
<1> HIDE DEF redeem
<1>3. CASE ~due
  <2> HIDE DEF pay, due
  <2>1. x = View(amm, bal, supply)
    BY <1>1, <1>3, ExecutesWhen, LoadedView
  <2>2. fee = 0
    BY <1>2, <1>3, <2>1 DEF due
  <2> QED BY <1>2, <2>1, <2>2
<1>4. CASE due
  <2> HIDE DEF due
  <2>1. CanExecute(pay, Loaded) /\ x = Effect(pay, Loaded)
    <3> HIDE DEF pay
    <3> QED BY <1>1, <1>4, ExecutesWhen, ExecutesOne
  <2>2. /\ CanTransfer(bal, source, fee_account, fee, owner, {owner})
        /\ x = View(amm, paid, supply)
    BY <2>1, PayStep, LoadedView
  <2> HIDE DEF paid
  <2>3. fee # 0
    BY <1>2, <1>4, <2>2 DEF due
  <2> QED BY <1>2, <2>2, <2>3 DEF paid
<1> QED BY <1>3, <1>4

LEMMA WithdrawSingleExecuted ==
    ASSUME TypeOK, NEW acc \in WithdrawSingleAccounts, NEW arg, arg.maximum \in U64,
           NEW w, Executes(WithdrawSingleSteps(acc, arg), Loaded, w), Commits(w)
    PROVE  WithdrawSingle(acc, arg.destination_token_amount, arg.maximum)
<1> DEFINE p       == acc.amm
           n       == arg.destination_token_amount
           maximum == arg.maximum
           signers == {acc.owner, SeedSigner(p)}
           side    == SideOf(acc.destination, acc.swap_token_a, acc.swap_token_b)
           on_a    == side = Some("AtoB")
           burnt_by(d) == CurveWithdrawSingle(n, bal[acc.swap_token_a], bal[acc.swap_token_b],
                                              supply[acc.pool_mint], d, amm[p].fees)
           burnt   == UNION { burnt_by(d) : d \in side }
           fees    == UNION { WithdrawFee(acc, acc.source, k) : k \in burnt }
           burn_amount  == Given(burnt, 0)
           withdraw_fee == Given(fees, 0)
           pool_token_amount == burn_amount + withdraw_fee
           vault   == IF on_a THEN acc.swap_token_a ELSE acc.swap_token_b
           first   == << Require(WithdrawSingleConstraints(acc), "Constraint"),
                         Require(side # {}, "IncorrectSwapAccount") >>
           second  == CheckAccountsSteps(p, acc.swap_token_a, acc.swap_token_b, acc.pool_mint,
                                         IF on_a THEN {acc.destination} ELSE {},
                                         IF on_a THEN {} ELSE {acc.destination}, {acc.fee_account})
           checks  == << Require(burnt # {}, "ZeroTradingTokens"),
                         Require(fees # {}, "FeeCalculationFailure"),
                         Require(pool_token_amount \in U64, "Panic"),
                         Require(pool_token_amount <= maximum, "ExceededSlippage"),
                         Require(pool_token_amount # 0, "ZeroTradingTokens") >>
           charge  == When(withdraw_fee > 0,
                           << Pay(acc.source, acc.fee_account, withdraw_fee, acc.owner,
                                  {acc.owner}) >>)
           redeem  == Redeem(acc.pool_mint, acc.source, burn_amount, acc.owner)
           pay     == Pay(vault, acc.destination, n, Authority(p), signers)
<1>1. WithdrawSingleSteps(acc, arg) = first \o second \o checks \o charge \o <<redeem, pay>>
  BY DEF WithdrawSingleSteps
<1> HIDE DEF burnt, fees, burn_amount, withdraw_fee, pool_token_amount, redeem, pay
<1>2. IsSequence(first) /\ IsSequence(second) /\ AreChecks(second) /\ IsSequence(charge)
  <2>1. IsSequence(first)
    BY TwoStepsAreASequence
  <2>2. AreChecks(second)
    BY CheckAccountsStepsFacts
  <2>3. IsSequence(charge)
    BY OneStepIsASequence, WhenIsASequence
  <2> QED BY <2>1, <2>2, <2>3 DEF AreChecks
<1>3. AreChecks(checks) /\ Len(checks) = 5
  <2> DEFINE S == {checks[i] : i \in 1 .. 5}
  <2>1. checks \in Seq(S) /\ Len(checks) = 5
    OBVIOUS
  <2>2. \A i \in 1 .. 5 : checks[i].kind = "require"
    BY DEF Require
  <2>3. \A i \in 1 .. 5 : checks[i].error \in Errors
    BY DEF Require, Errors, SwapError
  <2> HIDE DEF checks, S
  <2> QED BY <2>1, <2>2, <2>3 DEF AreChecks, IsSequence
<1> HIDE DEF first, second, checks, charge
<1>4. /\ IsSequence(first \o second) /\ IsSequence(first \o second \o checks)
      /\ IsSequence(first \o second \o checks \o charge) /\ IsSequence(<<redeem, pay>>)
  BY <1>2, <1>3, ConcatFacts, TwoStepsAreASequence DEF AreChecks
<1>5. PICK y : /\ Executes(first \o second \o checks \o charge, Loaded, y)
               /\ Executes(<<redeem, pay>>, y, w)
  BY <1>1, <1>4, ExecutesConcat
<1>6. PICK u : Executes(first \o second \o checks, Loaded, u) /\ Executes(charge, u, y)
  BY <1>2, <1>4, <1>5, ExecutesConcat
<1>7. PICK v : Executes(first \o second, Loaded, v) /\ Executes(checks, v, u)
  BY <1>2, <1>3, <1>4, <1>6, ExecutesConcat DEF AreChecks
<1>8. PICK x : Executes(first, Loaded, x) /\ Executes(second, x, v)
  BY <1>2, <1>7, ExecutesConcat
<1>9. WithdrawSingleConstraints(acc) /\ side # {} /\ x = Loaded
  <2>1. WithdrawSingleConstraints(acc) \in BOOLEAN /\ (side # {}) \in BOOLEAN
    BY DEF WithdrawSingleConstraints
  <2> DEFINE constraint == Require(WithdrawSingleConstraints(acc), "Constraint")
             known      == Require(side # {}, "IncorrectSwapAccount")
  <2>2. first = <<constraint, known>>
    BY DEF first
  <2> HIDE DEF constraint, known
  <2>3. /\ CanExecute(constraint, Loaded) /\ CanExecute(known, Effect(constraint, Loaded))
        /\ x = Effect(known, Effect(constraint, Loaded))
    BY <1>8, <2>2, ExecutesTwo
  <2>4. WithdrawSingleConstraints(acc) /\ Effect(constraint, Loaded) = Loaded
    BY <2>1, <2>3, RequireStep DEF constraint
  <2>5. side # {} /\ Effect(known, Loaded) = Loaded
    BY <2>1, <2>3, <2>4, RequireStep DEF known
  <2> QED BY <2>3, <2>4, <2>5
<1>10. /\ v = x
       /\ CheckAccounts(p, acc.swap_token_a, acc.swap_token_b, acc.pool_mint,
                        IF on_a THEN {acc.destination} ELSE {},
                        IF on_a THEN {} ELSE {acc.destination}, {acc.fee_account})
  BY <1>2, <1>8, ExecutesChecks, CheckAccountsStepsFacts DEF AreChecks, second
<1>11. u = v /\ \A i \in 1 .. 5 : checks[i].ok
  BY <1>3, <1>7, ExecutesChecks DEF AreChecks
<1>12. /\ burnt # {} /\ fees # {}
       /\ pool_token_amount \in U64 /\ pool_token_amount <= maximum /\ pool_token_amount # 0
  <2>1. checks[1].ok /\ checks[2].ok /\ checks[3].ok /\ checks[4].ok /\ checks[5].ok
    BY <1>11
  <2> QED BY <2>1 DEF checks, Require
<1>13. PICK d \in {"AtoB", "BtoA"} : side = {d}
  BY <1>9, OneSide
<1>14. on_a <=> d = "AtoB"
  BY <1>13 DEF Some
<1>15. burn_amount \in burnt /\ withdraw_fee \in fees /\ burnt = burnt_by(d)
  <2>1. burn_amount \in burnt
    BY <1>12 DEF Given, burn_amount
  <2>2. withdraw_fee \in fees
    BY <1>12 DEF Given, withdraw_fee
  <2> HIDE DEF side, burnt_by
  <2>3. burnt = burnt_by(d)
    BY <1>13 DEF burnt
  <2> QED BY <2>1, <2>2, <2>3
<1>16. burn_amount \in burnt_by(d) /\ withdraw_fee \in WithdrawFee(acc, acc.source, burn_amount)
  <2>1. IsOption(burnt)
    BY <1>15, WithdrawSingleIsAnOption
  <2> HIDE DEF burnt_by
  <2>2. PICK k \in burnt : withdraw_fee \in WithdrawFee(acc, acc.source, k)
    BY <1>15 DEF fees
  <2> QED BY <1>15, <2>1, <2>2 DEF IsOption
<1>17. /\ CanExecute(redeem, y) /\ CanExecute(pay, Effect(redeem, y))
       /\ w = Effect(pay, Effect(redeem, y)) /\ Executes(charge, Loaded, y)
  BY <1>5, <1>6, <1>9, <1>10, <1>11, ExecutesTwo
<1> DEFINE charged == IF withdraw_fee = 0 THEN bal
                      ELSE Transfer(bal, acc.source, acc.fee_account, withdraw_fee)
           burned  == Burn(charged, acc.source, burn_amount)
           paid    == Transfer(burned, vault, acc.destination, n)
           left    == LessSupply(supply, acc.pool_mint, burn_amount)
<1>18. burn_amount \in U64 => withdraw_fee \in Nat
  <2>1. SUFFICES ASSUME burn_amount \in U64 PROVE withdraw_fee \in Nat
    OBVIOUS
  <2>2. amm[p].is_initialized
    BY <1>9 DEF WithdrawSingleConstraints
  <2>3. amm[p].fees \in CurveFees
    <3>1. p \in Pools /\ amm[p] \in AmmData \cup {NoAmm}
      BY DEF TypeOK, WithdrawSingleAccounts
    <3>2. amm[p] \in AmmData
      BY <2>2, <3>1 DEF NoAmm
    <3> QED BY <3>2 DEF AmmData
  <2> QED BY <1>16, <2>1, <2>3, FeesAreNatural DEF WithdrawFee, Some
<1>19. /\ withdraw_fee # 0 => CanTransfer(bal, acc.source, acc.fee_account, withdraw_fee, acc.owner,
                                          {acc.owner})
       /\ CanBurn(charged, supply[acc.pool_mint], acc.source, burn_amount, acc.pool_mint, acc.owner,
                  {acc.owner})
       /\ Effect(redeem, y) = View(amm, burned, left)
  <2>1. /\ Executes(When(withdraw_fee > 0,
                       <<Pay(acc.source, acc.fee_account, withdraw_fee, acc.owner, {acc.owner})>>),
                    Loaded, y)
        /\ CanExecute(Redeem(acc.pool_mint, acc.source, burn_amount, acc.owner), y)
        /\ Effect(redeem, y) = Effect(Redeem(acc.pool_mint, acc.source, burn_amount, acc.owner), y)
    BY <1>17 DEF charge, redeem
  <2> HIDE DEF charged
  <2>2. charged = IF withdraw_fee = 0 THEN bal
                  ELSE Transfer(bal, acc.source, acc.fee_account, withdraw_fee)
    BY DEF charged
  <2> QED BY <1>18, <2>1, <2>2, ChargeAndBurn DEF burned
<1> HIDE DEF burned
<1>20. /\ CanTransfer(burned, vault, acc.destination, n, Authority(p), signers)
       /\ w = View(amm, paid, left)
  BY <1>17, <1>19, PayStep DEF pay
<1>21. bal' = paid /\ supply' = left /\ UNCHANGED <<repairs, amm>>
  BY <1>20 DEF Commits, View
<1>22. WithdrawSingleAccountsHold(acc, d)
  BY <1>9, <1>10, <1>13, <1>14 DEF WithdrawSingleAccountsHold
<1>23. burn_amount + withdraw_fee \in 1 .. maximum
  BY <1>12, U64Assumption DEF pool_token_amount, U64
<1>24. vault = IF d = "AtoB" THEN acc.swap_token_a ELSE acc.swap_token_b
  BY <1>14
<1>25. d \in SideOf(acc.destination, acc.swap_token_a, acc.swap_token_b)
  BY <1>13
<1> HIDE DEF vault, side, on_a
<1> QED
  BY <1>16, <1>19, <1>20, <1>21, <1>22, <1>23, <1>24, <1>25 DEF WithdrawSingle, burned, LessSupply
\* a payment that is left out when nothing is due
LEMMA MaybePay ==
    ASSUME NEW due \in Nat, NEW amount, NEW from, NEW to, NEW authority, NEW signers,
           NEW a, NEW b, NEW s, NEW w,
           Executes(When(due > 0, <<Pay(from, to, amount, authority, signers)>>), View(a, b, s), w)
    PROVE  /\ due # 0 => CanTransfer(b, from, to, amount, authority, signers)
           /\ w = View(a, IF due = 0 THEN b ELSE Transfer(b, from, to, amount), s)
<1> DEFINE some == due > 0
           pay  == Pay(from, to, amount, authority, signers)
<1>1. Executes(When(some, <<pay>>), View(a, b, s), w) /\ some \in BOOLEAN /\ (some <=> due # 0)
  OBVIOUS
<1>2. CASE ~some
  <2>1. w = View(a, b, s)
    <3> HIDE DEF some, pay
    <3> QED BY <1>1, <1>2, ExecutesWhen
  <2> QED BY <1>1, <1>2, <2>1
<1>3. CASE some
  <2>1. CanExecute(pay, View(a, b, s)) /\ w = Effect(pay, View(a, b, s))
    <3> HIDE DEF some, pay
    <3> QED BY <1>1, <1>3, ExecutesWhen, ExecutesOne
  <2>2. CanTransfer(b, from, to, amount, authority, signers)
    BY <2>1, PayStep
  <2>3. w = View(a, Transfer(b, from, to, amount), s)
    BY <2>1, PayStep
  <2> QED BY <1>1, <1>3, <2>2, <2>3
<1> QED BY <1>2, <1>3

LEMMA WithdrawAllExecuted ==
    ASSUME TypeOK, NEW acc \in WithdrawAllAccounts, NEW arg,
           arg.pool_token_amount \in U64, arg.minimum_a \in U64, arg.minimum_b \in U64,
           NEW w, Executes(WithdrawAllSteps(acc, arg), Loaded, w), Commits(w)
    PROVE  WithdrawAll(acc, arg.pool_token_amount, arg.minimum_a, arg.minimum_b)
<1> DEFINE p       == acc.amm
           n       == arg.pool_token_amount
           signers == {acc.owner, SeedSigner(p)}
           in_a    == bal[acc.vault_token_a]
           in_b    == bal[acc.vault_token_b]
           fee     == WithdrawFee(acc, acc.source_info, n)
           rest    == { n - f : f \in { f \in fee : f <= n } }
           results == UNION { PoolTokensToTradingTokens(k, supply[acc.pool_mint], in_a, in_b,
                                                        "Floor") : k \in rest }
           get     == Given(results, [token_a_amount |-> 0, token_b_amount |-> 0])
           withdraw_fee   == Given(fee, 0)
           burn_amount    == Given(rest, 0)
           token_a_amount == AtMost(in_a, get.token_a_amount)
           token_b_amount == AtMost(in_b, get.token_b_amount)
           paid_on_side_b == SideBPayment(token_a_amount, token_b_amount)
           first   == << Require(WithdrawAllConstraints(acc), "Constraint") >>
           second  == CheckAccountsSteps(p, acc.vault_token_a, acc.vault_token_b, acc.pool_mint,
                              {acc.dest_token_a_info}, {acc.dest_token_b_info}, {acc.fee_account})
           checks  == << Require(fee # {}, "FeeCalculationFailure"),
                         Require(rest # {}, "CalculationFailure"),
                         Require(results # {}, "ZeroTradingTokens"),
                         Require(get.token_a_amount \in U64, "Panic"),
                         Require(arg.minimum_a <= token_a_amount, "ExceededSlippage"),
                         Require(token_a_amount = 0 => in_a = 0, "ZeroTradingTokens"),
                         Require(get.token_b_amount \in U64, "Panic"),
                         Require(arg.minimum_b <= token_b_amount, "ExceededSlippage"),
                         Require(token_b_amount = 0 => in_b = 0, "ZeroTradingTokens") >>
           charge  == When(withdraw_fee > 0,
                           << Pay(acc.source_info, acc.fee_account, withdraw_fee, acc.owner,
                                  {acc.owner}) >>)
           redeem  == Redeem(acc.pool_mint, acc.source_info, burn_amount, acc.owner)
           pay_a   == When(token_a_amount > 0,
                           << Pay(acc.vault_token_a, acc.dest_token_a_info, token_a_amount,
                                  Authority(p), signers) >>)
           pay_b   == When(token_b_amount > 0,
                           << Pay(acc.vault_token_b, acc.dest_token_b_info, paid_on_side_b,
                                  Authority(p), signers) >>)
<1>1. WithdrawAllSteps(acc, arg) = first \o second \o checks \o charge \o <<redeem>> \o pay_a \o pay_b
  BY DEF WithdrawAllSteps
<1> HIDE DEF rest, results, get, withdraw_fee, burn_amount, token_a_amount, token_b_amount, redeem
<1>2. /\ IsSequence(first) /\ IsSequence(second) /\ AreChecks(second) /\ IsSequence(charge)
      /\ IsSequence(<<redeem>>) /\ IsSequence(pay_a) /\ IsSequence(pay_b)
  <2>1. IsSequence(first) /\ IsSequence(<<redeem>>)
    BY OneStepIsASequence
  <2>2. AreChecks(second)
    BY CheckAccountsStepsFacts
  <2>3. IsSequence(charge)
    BY OneStepIsASequence, WhenIsASequence
  <2>4. IsSequence(pay_a)
    BY OneStepIsASequence, WhenIsASequence
  <2>5. IsSequence(pay_b)
    BY OneStepIsASequence, WhenIsASequence
  <2> QED BY <2>1, <2>2, <2>3, <2>4, <2>5 DEF AreChecks
<1>3. AreChecks(checks) /\ Len(checks) = 9
  <2> DEFINE S == {checks[i] : i \in 1 .. 9}
  <2>1. checks \in Seq(S) /\ Len(checks) = 9
    OBVIOUS
  <2>2. \A i \in 1 .. 9 : checks[i].kind = "require"
    BY DEF Require
  <2>3. \A i \in 1 .. 9 : checks[i].error \in Errors
    BY DEF Require, Errors, SwapError
  <2> HIDE DEF checks, S
  <2> QED BY <2>1, <2>2, <2>3 DEF AreChecks, IsSequence
<1> HIDE DEF first, second, checks, charge, pay_a, pay_b
<1>4. /\ IsSequence(first \o second) /\ IsSequence(first \o second \o checks)
      /\ IsSequence(first \o second \o checks \o charge)
      /\ IsSequence(first \o second \o checks \o charge \o <<redeem>>)
      /\ IsSequence(first \o second \o checks \o charge \o <<redeem>> \o pay_a)
  BY <1>2, <1>3, ConcatFacts DEF AreChecks
<1>5. PICK w_a : /\ Executes(first \o second \o checks \o charge \o <<redeem>> \o pay_a, Loaded, w_a)
                 /\ Executes(pay_b, w_a, w)
  BY <1>1, <1>2, <1>4, ExecutesConcat
<1>6. PICK w_r : /\ Executes(first \o second \o checks \o charge \o <<redeem>>, Loaded, w_r)
                 /\ Executes(pay_a, w_r, w_a)
  BY <1>2, <1>4, <1>5, ExecutesConcat
<1>7. PICK w_c : /\ Executes(first \o second \o checks \o charge, Loaded, w_c)
                 /\ Executes(<<redeem>>, w_c, w_r)
  BY <1>2, <1>4, <1>6, ExecutesConcat
<1>8. PICK u : Executes(first \o second \o checks, Loaded, u) /\ Executes(charge, u, w_c)
  BY <1>2, <1>4, <1>7, ExecutesConcat
<1>9. PICK v : Executes(first \o second, Loaded, v) /\ Executes(checks, v, u)
  BY <1>2, <1>3, <1>4, <1>8, ExecutesConcat DEF AreChecks
<1>10. PICK x : Executes(first, Loaded, x) /\ Executes(second, x, v)
  BY <1>2, <1>9, ExecutesConcat
<1>11. WithdrawAllConstraints(acc) /\ x = Loaded
  <2>1. WithdrawAllConstraints(acc) \in BOOLEAN
    BY DEF WithdrawAllConstraints
  <2> QED BY <1>10, <2>1, ExecutesOne, RequireStep DEF first
<1>12. /\ v = x
       /\ CheckAccounts(p, acc.vault_token_a, acc.vault_token_b, acc.pool_mint,
                        {acc.dest_token_a_info}, {acc.dest_token_b_info}, {acc.fee_account})
  BY <1>2, <1>10, ExecutesChecks, CheckAccountsStepsFacts DEF AreChecks, second
<1>13. u = v /\ \A i \in 1 .. 9 : checks[i].ok
  BY <1>3, <1>9, ExecutesChecks DEF AreChecks
<1>14. /\ fee # {} /\ rest # {} /\ results # {}
       /\ get.token_a_amount \in U64 /\ arg.minimum_a <= token_a_amount
       /\ token_a_amount = 0 => in_a = 0
       /\ get.token_b_amount \in U64 /\ arg.minimum_b <= token_b_amount
       /\ token_b_amount = 0 => in_b = 0
  <2>1. /\ checks[1].ok /\ checks[2].ok /\ checks[3].ok /\ checks[4].ok /\ checks[5].ok
        /\ checks[6].ok /\ checks[7].ok /\ checks[8].ok /\ checks[9].ok
    BY <1>13
  <2> HIDE DEF fee
  <2>2. fee # {} /\ rest # {} /\ results # {}
    BY <2>1 DEF checks, Require
  <2>3. /\ get.token_a_amount \in U64 /\ arg.minimum_a <= token_a_amount
        /\ token_a_amount = 0 => in_a = 0
    BY <2>1 DEF checks, Require
  <2>4. /\ get.token_b_amount \in U64 /\ arg.minimum_b <= token_b_amount
        /\ token_b_amount = 0 => in_b = 0
    BY <2>1 DEF checks, Require
  <2> QED BY <2>2, <2>3, <2>4
<1>15. withdraw_fee \in fee /\ IsOption(fee)
  BY <1>14, FeeIsAnOption DEF Given, withdraw_fee, WithdrawFee, OwnerWithdrawFee, IsOption, Some
<1>16. burn_amount = n - withdraw_fee /\ withdraw_fee <= n
  <2>1. burn_amount \in rest
    BY <1>14 DEF Given, burn_amount
  <2> HIDE DEF fee
  <2> QED BY <1>15, <2>1 DEF rest, IsOption
<1>17. get \in PoolTokensToTradingTokens(n - withdraw_fee, supply[acc.pool_mint], in_a, in_b, "Floor")
  <2>1. get \in results
    BY <1>14 DEF Given, get
  <2> HIDE DEF fee
  <2>2. PICK k \in rest : get \in PoolTokensToTradingTokens(k, supply[acc.pool_mint], in_a, in_b, "Floor")
    BY <2>1 DEF results
  <2>3. k = n - withdraw_fee
    BY <1>15 DEF rest, IsOption
  <2> QED BY <2>2, <2>3
<1>18. withdraw_fee \in Nat
  <2>1. amm[p].is_initialized
    BY <1>11 DEF WithdrawAllConstraints
  <2>2. p \in Pools /\ amm[p] \in AmmData \cup {NoAmm}
    BY DEF TypeOK, WithdrawAllAccounts
  <2>3. amm[p] \in AmmData
    BY <2>1, <2>2 DEF NoAmm
  <2>4. amm[p].fees \in CurveFees
    BY <2>3 DEF AmmData
  <2> QED BY <1>15, <2>4, FeesAreNatural DEF WithdrawFee, Some
<1>19. token_a_amount \in Nat /\ token_b_amount \in Nat
  <2>1. in_a \in U64 /\ in_b \in U64
    BY DEF TypeOK, Balances, WithdrawAllAccounts
  <2> QED BY <1>14, <2>1, U64Assumption DEF U64, AtMost, token_a_amount, token_b_amount
<1> DEFINE charged == IF withdraw_fee = 0 THEN bal
                      ELSE Transfer(bal, acc.source_info, acc.fee_account, withdraw_fee)
           burned  == Burn(charged, acc.source_info, burn_amount)
           left    == LessSupply(supply, acc.pool_mint, burn_amount)
           paid_a  == IF token_a_amount = 0 THEN burned
                      ELSE Transfer(burned, acc.vault_token_a, acc.dest_token_a_info, token_a_amount)
           paid_b  == IF token_b_amount = 0 THEN paid_a
                      ELSE Transfer(paid_a, acc.vault_token_b, acc.dest_token_b_info, paid_on_side_b)
<1>20. /\ withdraw_fee # 0 => CanTransfer(bal, acc.source_info, acc.fee_account, withdraw_fee,
                                          acc.owner, {acc.owner})
       /\ CanBurn(charged, supply[acc.pool_mint], acc.source_info, burn_amount, acc.pool_mint,
                  acc.owner, {acc.owner})
       /\ w_r = View(amm, burned, left)
  <2>1. CanExecute(redeem, w_c) /\ w_r = Effect(redeem, w_c) /\ Executes(charge, Loaded, w_c)
    BY <1>7, <1>8, <1>11, <1>12, <1>13, ExecutesOne
  <2>2. /\ Executes(When(withdraw_fee > 0,
                         << Pay(acc.source_info, acc.fee_account, withdraw_fee, acc.owner,
                                {acc.owner}) >>), Loaded, w_c)
        /\ CanExecute(Redeem(acc.pool_mint, acc.source_info, burn_amount, acc.owner), w_c)
        /\ w_r = Effect(Redeem(acc.pool_mint, acc.source_info, burn_amount, acc.owner), w_c)
    BY <2>1 DEF charge, redeem
  <2> HIDE DEF charged
  <2>3. charged = IF withdraw_fee = 0 THEN bal
                  ELSE Transfer(bal, acc.source_info, acc.fee_account, withdraw_fee)
    BY DEF charged
  <2> QED BY <1>18, <2>2, <2>3, ChargeAndBurn
<1> HIDE DEF burned, left
<1>21. /\ token_a_amount # 0 => CanTransfer(burned, acc.vault_token_a, acc.dest_token_a_info,
                                            token_a_amount, Authority(p), signers)
       /\ w_a = View(amm, paid_a, left)
  <2>1. Executes(When(token_a_amount > 0,
                      << Pay(acc.vault_token_a, acc.dest_token_a_info, token_a_amount,
                             Authority(p), signers) >>), View(amm, burned, left), w_a)
    BY <1>6, <1>20 DEF pay_a
  <2> QED BY <1>19, <2>1, MaybePay
<1> HIDE DEF paid_a
<1>22. /\ token_b_amount # 0 => CanTransfer(paid_a, acc.vault_token_b, acc.dest_token_b_info,
                                            paid_on_side_b, Authority(p), signers)
       /\ w = View(amm, paid_b, left)
  <2>1. Executes(When(token_b_amount > 0,
                      << Pay(acc.vault_token_b, acc.dest_token_b_info, paid_on_side_b,
                             Authority(p), signers) >>), View(amm, paid_a, left), w)
    BY <1>5, <1>21 DEF pay_b
  <2> HIDE DEF paid_on_side_b
  <2> QED BY <1>19, <2>1, MaybePay
<1>23. bal' = paid_b /\ supply' = left /\ UNCHANGED <<repairs, amm>>
  BY <1>22 DEF Commits, View
<1>24. WithdrawAllAccountsHold(acc)
  BY <1>11, <1>12 DEF WithdrawAllAccountsHold
<1> HIDE DEF fee
<1> QED
  BY <1>14, <1>15, <1>16, <1>17, <1>20, <1>21, <1>22, <1>23, <1>24
     DEF WithdrawAll, fee, burned, left, paid_a, token_a_amount, token_b_amount, LessSupply
MoreSupply(s, mint, amount) == [s EXCEPT ![mint] = @ + amount]

\* an issue of pool tokens that is left out when nothing is due
LEMMA MaybeIssue ==
    ASSUME NEW some \in BOOLEAN, NEW wide, wide.kind = "require", NEW writable,
           writable.kind = "require", NEW amount, NEW mint, NEW to, NEW authority, NEW signers,
           NEW a, NEW b, NEW s, NEW w,
           Executes(When(some, <<wide, writable, Issue(mint, to, amount, authority, signers)>>),
                    View(a, b, s), w)
    PROVE  IF some
           THEN /\ writable.ok
                /\ CanMintTo(b, s[mint], to, amount, mint, authority, signers)
                /\ w = View(a, MintTo(b, to, amount), MoreSupply(s, mint, amount))
           ELSE w = View(a, b, s)
<1> DEFINE issue == Issue(mint, to, amount, authority, signers)
           v     == View(a, b, s)
<1>0. Executes(When(some, <<wide, writable, issue>>), v, w)
  OBVIOUS
<1>1. CASE ~some
  <2>1. w = v
    <3> HIDE DEF issue, v
    <3> QED BY <1>0, <1>1, ExecutesWhen
  <2> QED BY <1>1, <2>1
<1>2. CASE some
  <2>1. /\ CanExecute(writable, Effect(wide, v))
        /\ CanExecute(issue, Effect(writable, Effect(wide, v)))
        /\ w = Effect(issue, Effect(writable, Effect(wide, v)))
    <3> HIDE DEF issue, v
    <3>1. Executes(<<wide, writable, issue>>, v, w)
      BY <1>0, <1>2, ExecutesWhen
    <3> QED BY <3>1, ExecutesThree
  <2>2. writable.ok /\ Effect(wide, v) = v /\ Effect(writable, v) = v
    <3>1. Effect(wide, v) = v /\ Effect(writable, v) = v
      BY DEF Effect
    <3>2. CanExecute(writable, v)
      BY <2>1, <3>1
    <3> QED BY <3>1, <3>2 DEF CanExecute
  <2>3. CanExecute(issue, v) /\ w = Effect(issue, v)
    BY <2>1, <2>2
  <2>4. CanMintTo(b, s[mint], to, amount, mint, authority, signers)
    BY <2>3, IssueStep
  <2>5. w = View(a, MintTo(b, to, amount), MoreSupply(s, mint, amount))
    BY <2>3, IssueStep DEF MoreSupply
  <2> QED BY <1>2, <2>2, <2>4, <2>5
<1> QED BY <1>1, <1>2

LEMMA SwapExecuted ==
    ASSUME TypeOK, NEW acc \in SwapAccounts, amm[acc.amm].is_initialized, NEW arg,
           arg.amount_in \in U64, arg.minimum \in U64,
           NEW w, Executes(SwapSteps(acc, arg), Loaded, w), Commits(w)
    PROVE  Swap(acc, arg.amount_in, arg.minimum)
<1> DEFINE p       == acc.amm
           a       == amm[p]
           m       == acc.pool_mint
           signers == {acc.owner, SeedSigner(p)}
           trade   == CurveSwap(arg.amount_in, bal[acc.swap_source], bal[acc.swap_destination], a.fees)
           fee_tokens == UNION { OwnerFeePoolTokens(acc, r) : r \in trade }
           result  == Given(trade, [source_amount_swapped |-> 0, destination_amount_swapped |-> 0])
           pool_token_amount == Given(fee_tokens, 0)
           named   == acc.host_fee_account # NoHost /\ pool_token_amount > 0
           hosts   == HostFee(a.fees, pool_token_amount)
           host_fee == IF named THEN Given(hosts, 0) ELSE 0
           owner_fee == pool_token_amount - host_fee
           checks  == << Require(SwapOwnersHold(acc), "Constraint"),
                         Require(Authority(p) = AuthorityId(p), "InvalidProgramAddress"),
                         Require(acc.swap_source \in {a.token_a_account, a.token_b_account},
                                 "IncorrectSwapAccount"),
                         Require(acc.swap_destination \in {a.token_a_account, a.token_b_account},
                                 "IncorrectSwapAccount"),
                         Require(acc.swap_source # acc.swap_destination, "InvalidInput"),
                         Require(acc.swap_source # acc.vault_source_info, "InvalidInput"),
                         Require(acc.swap_destination # acc.vault_destination_info, "InvalidInput"),
                         Require(acc.pool_mint = a.pool_mint, "IncorrectPoolMint"),
                         Require(acc.fee_account = a.pool_fee_account, "IncorrectFeeAccount"),
                         Require(trade # {}, "ZeroTradingTokens"),
                         Require(arg.minimum <= result.destination_amount_swapped,
                                 "ExceededSlippage") >>
           pay_in  == Pay(acc.vault_source_info, acc.swap_source, result.source_amount_swapped,
                          acc.owner, signers)
           priced  == Require(fee_tokens # {}, "FeeCalculationFailure")
           host_mint  == Require(acc.host_fee_account.mint = acc.pool_mint, "IncorrectPoolMint")
           host_known == Require(hosts # {}, "FeeCalculationFailure")
           host_part  == Require(host_fee <= pool_token_amount, "FeeCalculationFailure")
           naming  == When(named, <<host_mint, host_known, host_part>>)
           hosting == When(host_fee > 0,
                           << Require(host_fee \in U64, "Panic"),
                              Require(acc.writable, "TokenError"),
                              Issue(m, acc.host_fee_account, host_fee, Authority(p), signers) >>)
           owning  == When(pool_token_amount > 0,
                           << Require(owner_fee \in U64, "Panic"),
                              Require(acc.writable, "TokenError"),
                              Issue(m, acc.fee_account, owner_fee, Authority(p), signers) >>)
           pay_out == Pay(acc.swap_destination, acc.vault_destination_info,
                          result.destination_amount_swapped, Authority(p), signers)
<1>1. SwapSteps(acc, arg) = checks \o <<pay_in, priced>> \o naming \o hosting \o owning \o <<pay_out>>
  BY DEF SwapSteps
<1> HIDE DEF trade, fee_tokens, result, pool_token_amount, hosts, host_fee, owner_fee, pay_in, priced,
             host_mint, host_known, host_part, pay_out
<1>2. /\ IsSequence(<<pay_in, priced>>) /\ IsSequence(naming) /\ IsSequence(hosting)
      /\ IsSequence(owning) /\ IsSequence(<<pay_out>>)
  <2>1. IsSequence(<<pay_in, priced>>) /\ IsSequence(<<pay_out>>)
    BY OneStepIsASequence, TwoStepsAreASequence
  <2>2. IsSequence(naming)
    BY ThreeStepsAreASequence, WhenIsASequence
  <2>3. IsSequence(hosting)
    BY ThreeStepsAreASequence, WhenIsASequence
  <2>4. IsSequence(owning)
    BY ThreeStepsAreASequence, WhenIsASequence
  <2> QED BY Zenon, <2>1, <2>2, <2>3, <2>4
<1>3. AreChecks(checks) /\ Len(checks) = 11
  <2> HIDE DEF a, p
  <2> DEFINE S == {checks[i] : i \in 1 .. 11}
  <2>1. checks \in Seq(S) /\ Len(checks) = 11
    OBVIOUS
  <2>2. \A i \in 1 .. 11 : checks[i].kind = "require"
    BY DEF Require
  <2>3. \A i \in 1 .. 11 : checks[i].error \in Errors
    BY DEF Require, Errors, SwapError
  <2> HIDE DEF checks, S
  <2> QED BY <2>1, <2>2, <2>3 DEF AreChecks, IsSequence
<1> HIDE DEF checks, naming, hosting, owning, named
<1>4. /\ IsSequence(checks) /\ IsSequence(checks \o <<pay_in, priced>>)
      /\ IsSequence(checks \o <<pay_in, priced>> \o naming)
      /\ IsSequence(checks \o <<pay_in, priced>> \o naming \o hosting)
      /\ IsSequence(checks \o <<pay_in, priced>> \o naming \o hosting \o owning)
  BY <1>2, <1>3, ConcatFacts DEF AreChecks
<1>5. PICK w_o : /\ Executes(checks \o <<pay_in, priced>> \o naming \o hosting \o owning, Loaded, w_o)
                 /\ Executes(<<pay_out>>, w_o, w)
  BY <1>1, <1>2, <1>4, ExecutesConcat
<1>6. PICK w_h : /\ Executes(checks \o <<pay_in, priced>> \o naming \o hosting, Loaded, w_h)
                 /\ Executes(owning, w_h, w_o)
  BY <1>2, <1>4, <1>5, ExecutesConcat
<1>7. PICK w_n : /\ Executes(checks \o <<pay_in, priced>> \o naming, Loaded, w_n)
                 /\ Executes(hosting, w_n, w_h)
  BY <1>2, <1>4, <1>6, ExecutesConcat
<1>8. PICK w_p : Executes(checks \o <<pay_in, priced>>, Loaded, w_p) /\ Executes(naming, w_p, w_n)
  BY <1>2, <1>4, <1>7, ExecutesConcat
<1>9. PICK x : Executes(checks, Loaded, x) /\ Executes(<<pay_in, priced>>, x, w_p)
  BY <1>2, <1>4, <1>8, ExecutesConcat
<1>10. x = Loaded /\ \A i \in 1 .. 11 : checks[i].ok
  BY <1>3, <1>9, ExecutesChecks DEF AreChecks
<1>11. SwapAccountsHold(acc) /\ trade # {} /\ arg.minimum <= result.destination_amount_swapped
  <2>1. /\ checks[1].ok /\ checks[2].ok /\ checks[3].ok /\ checks[4].ok /\ checks[5].ok
        /\ checks[6].ok /\ checks[7].ok /\ checks[8].ok /\ checks[9].ok /\ checks[10].ok
        /\ checks[11].ok
    BY <1>10
  <2>2. SwapOwnersHold(acc) /\ Authority(p) = AuthorityId(p)
    <3>1. SwapOwnersHold(acc) \in BOOLEAN
      BY DEF SwapOwnersHold
    <3> QED BY <2>1, <3>1 DEF checks, Require
  <2>3. /\ acc.swap_source \in {a.token_a_account, a.token_b_account}
        /\ acc.swap_destination \in {a.token_a_account, a.token_b_account}
    BY <2>1 DEF checks, Require
  <2>4. /\ acc.swap_source # acc.swap_destination /\ acc.swap_source # acc.vault_source_info
        /\ acc.swap_destination # acc.vault_destination_info
    BY <2>1 DEF checks, Require
  <2>5. acc.pool_mint = a.pool_mint /\ acc.fee_account = a.pool_fee_account
    BY <2>1 DEF checks, Require
  <2>6. trade # {} /\ arg.minimum <= result.destination_amount_swapped
    BY <2>1 DEF checks, Require
  <2> QED BY <2>2, <2>3, <2>4, <2>5, <2>6 DEF SwapAccountsHold
<1>12. result \in trade
  BY <1>11 DEF Given, result
<1> DEFINE paid == Transfer(bal, acc.vault_source_info, acc.swap_source, result.source_amount_swapped)
<1>13. /\ CanTransfer(bal, acc.vault_source_info, acc.swap_source, result.source_amount_swapped,
                      acc.owner, signers)
       /\ fee_tokens # {} /\ w_p = View(amm, paid, supply)
  <2>1. /\ CanExecute(pay_in, Loaded) /\ CanExecute(priced, Effect(pay_in, Loaded))
        /\ w_p = Effect(priced, Effect(pay_in, Loaded))
    BY <1>9, <1>10, ExecutesTwo
  <2>2. /\ CanTransfer(bal, acc.vault_source_info, acc.swap_source, result.source_amount_swapped,
                       acc.owner, signers)
        /\ Effect(pay_in, Loaded) = View(amm, paid, supply)
    BY <2>1, PayStep, LoadedView DEF pay_in
  <2> HIDE DEF paid
  <2>3. fee_tokens # {} /\ Effect(priced, View(amm, paid, supply)) = View(amm, paid, supply)
    BY <2>1, <2>2, RequireStep DEF priced
  <2> QED BY <2>1, <2>2, <2>3
<1> HIDE DEF paid
<1>14. pool_token_amount \in OwnerFeePoolTokens(acc, result) /\ pool_token_amount \in Nat
  <2>1. pool_token_amount \in fee_tokens
    BY <1>13 DEF Given, pool_token_amount
  <2>2. IsOption(trade)
    BY SwapIsAnOption DEF trade
  <2>3. pool_token_amount \in OwnerFeePoolTokens(acc, result)
    BY <1>12, <2>1, <2>2 DEF fee_tokens, IsOption
  <2> QED BY <2>3, WithdrawSingleIsNatural DEF OwnerFeePoolTokens
<1>15. /\ w_n = View(amm, paid, supply)
       /\ named => /\ acc.host_fee_account.mint = acc.pool_mint /\ hosts # {}
                   /\ host_fee <= pool_token_amount
  <2> DEFINE v == View(amm, paid, supply)
  <2>1. Executes(When(named, <<host_mint, host_known, host_part>>), v, w_n)
    BY <1>8, <1>13 DEF naming
  <2>2. named \in BOOLEAN
    BY DEF named
  <2>3. CASE ~named
    <3> HIDE DEF v
    <3>1. w_n = v
      BY <2>1, <2>2, <2>3, ExecutesWhen
    <3> QED BY <2>3, <3>1 DEF v
  <2>4. CASE named
    <3> HIDE DEF v
    <3>1. /\ CanExecute(host_mint, v) /\ CanExecute(host_known, Effect(host_mint, v))
          /\ CanExecute(host_part, Effect(host_known, Effect(host_mint, v)))
          /\ w_n = Effect(host_part, Effect(host_known, Effect(host_mint, v)))
      <4>1. Executes(<<host_mint, host_known, host_part>>, v, w_n)
        BY <2>1, <2>2, <2>4, ExecutesWhen
      <4> QED BY <4>1, ExecutesThree
    <3>2. Effect(host_mint, v) = v /\ Effect(host_known, v) = v /\ Effect(host_part, v) = v
      BY DEF host_mint, host_known, host_part, Effect, Require
    <3>3. CanExecute(host_mint, v) /\ CanExecute(host_known, v) /\ CanExecute(host_part, v) /\ w_n = v
      BY <3>1, <3>2
    <3>4. acc.host_fee_account.mint = acc.pool_mint
      BY <3>3 DEF host_mint, CanExecute, Require
    <3>5. hosts # {}
      BY <3>3 DEF host_known, CanExecute, Require
    <3>6. host_fee <= pool_token_amount
      BY <3>3 DEF host_part, CanExecute, Require
    <3> QED BY <3>3, <3>4, <3>5, <3>6 DEF v
  <2> QED BY <2>3, <2>4
<1>16. /\ host_fee \in Nat /\ host_fee <= pool_token_amount /\ owner_fee \in Nat
       /\ named => host_fee \in hosts
       /\ ~named => host_fee = 0
  <2>1. a.fees \in CurveFees
    <3>1. a \in AmmData \cup {NoAmm}
      BY DEF TypeOK, SwapAccounts
    <3>2. a \in AmmData
      BY <3>1 DEF NoAmm
    <3> QED BY <3>2 DEF AmmData
  <2>2. hosts \subseteq Nat
    BY <1>14, <2>1, FeeIsNatural DEF hosts, HostFee, CurveFees
  <2>3. CASE named
    BY <1>14, <1>15, <2>2, <2>3 DEF host_fee, owner_fee, Given
  <2>4. CASE ~named
    BY <1>14, <2>4 DEF host_fee, owner_fee
  <2> QED BY <2>3, <2>4
<1> DEFINE mints  == [host |-> host_fee, owner |-> owner_fee]
<1>17. mints \in FeeMints(acc, pool_token_amount)
  <2>1. CASE ~named
    <3>1. pool_token_amount = 0 \/ acc.host_fee_account = NoHost
      BY <1>14, <2>1 DEF named
    <3>2. mints = [host |-> 0, owner |-> pool_token_amount]
      BY <1>14, <1>16, <2>1 DEF owner_fee
    <3> QED BY <3>1, <3>2 DEF FeeMints, Some
  <2>2. CASE named
    <3>1. ~(pool_token_amount = 0 \/ acc.host_fee_account = NoHost)
      BY <1>14, <2>2 DEF named
    <3>2. /\ host_fee \in HostFee(amm[acc.amm].fees, pool_token_amount)
          /\ acc.host_fee_account.mint = acc.pool_mint /\ host_fee <= pool_token_amount
      BY <1>15, <1>16, <2>2 DEF hosts
    <3> QED BY <3>1, <3>2 DEF FeeMints, owner_fee
  <2> QED BY <2>1, <2>2
<1> DEFINE hosted == IF host_fee = 0 THEN paid ELSE MintTo(paid, acc.host_fee_account, host_fee)
           minted == IF pool_token_amount = 0 THEN hosted
                     ELSE MintTo(hosted, acc.fee_account, owner_fee)
           more   == IF host_fee = 0 THEN supply ELSE MoreSupply(supply, m, host_fee)
           most   == IF pool_token_amount = 0 THEN more ELSE MoreSupply(more, m, owner_fee)
<1> HIDE DEF hosted, minted, more, most
<1>18. /\ host_fee # 0 => acc.writable
       /\ host_fee # 0 => CanMintTo(paid, supply[m], acc.host_fee_account, host_fee, m,
                                    Authority(p), signers)
       /\ w_h = View(amm, hosted, more)
  <2> DEFINE some     == host_fee > 0
             wide     == Require(host_fee \in U64, "Panic")
             writable == Require(acc.writable, "TokenError")
  <2>1. Executes(When(some, << wide, writable,
                               Issue(m, acc.host_fee_account, host_fee, Authority(p), signers) >>),
                 View(amm, paid, supply), w_h)
    BY <1>7, <1>15 DEF hosting
  <2>2. /\ some \in BOOLEAN /\ (some <=> host_fee # 0) /\ wide.kind = "require"
        /\ writable.kind = "require" /\ writable.ok = acc.writable
    BY <1>16 DEF Require
  <2> HIDE DEF some, wide, writable
  <2>3. IF some
        THEN /\ writable.ok
             /\ CanMintTo(paid, supply[m], acc.host_fee_account, host_fee, m, Authority(p), signers)
             /\ w_h = View(amm, MintTo(paid, acc.host_fee_account, host_fee),
                           MoreSupply(supply, m, host_fee))
        ELSE w_h = View(amm, paid, supply)
    BY <2>1, <2>2, MaybeIssue
  <2> QED BY <2>2, <2>3 DEF hosted, more
<1>19. /\ pool_token_amount # 0 => acc.writable
       /\ pool_token_amount # 0 => CanMintTo(hosted, more[m], acc.fee_account, owner_fee, m,
                                             Authority(p), signers)
       /\ w_o = View(amm, minted, most)
  <2> DEFINE some     == pool_token_amount > 0
             wide     == Require(owner_fee \in U64, "Panic")
             writable == Require(acc.writable, "TokenError")
  <2>1. Executes(When(some, << wide, writable,
                               Issue(m, acc.fee_account, owner_fee, Authority(p), signers) >>),
                 View(amm, hosted, more), w_o)
    BY <1>6, <1>18 DEF owning
  <2>2. /\ some \in BOOLEAN /\ (some <=> pool_token_amount # 0) /\ wide.kind = "require"
        /\ writable.kind = "require" /\ writable.ok = acc.writable
    BY <1>14 DEF Require
  <2> HIDE DEF some, wide, writable
  <2>3. IF some
        THEN /\ writable.ok
             /\ CanMintTo(hosted, more[m], acc.fee_account, owner_fee, m, Authority(p), signers)
             /\ w_o = View(amm, MintTo(hosted, acc.fee_account, owner_fee),
                           MoreSupply(more, m, owner_fee))
        ELSE w_o = View(amm, hosted, more)
    BY <2>1, <2>2, MaybeIssue
  <2> QED BY <2>2, <2>3 DEF minted, most
<1> DEFINE paid_out == Transfer(minted, acc.swap_destination, acc.vault_destination_info,
                                result.destination_amount_swapped)
<1>20. /\ CanTransfer(minted, acc.swap_destination, acc.vault_destination_info,
                      result.destination_amount_swapped, Authority(p), signers)
       /\ w = View(amm, paid_out, most)
  <2>1. CanExecute(pay_out, View(amm, minted, most)) /\ w = Effect(pay_out, View(amm, minted, most))
    BY <1>5, <1>19, ExecutesOne
  <2> QED BY <2>1, PayStep DEF pay_out
<1>21. /\ more[m] = supply[m] + mints.host
       /\ most = [supply EXCEPT ![m] = @ + mints.host + mints.owner]
  <2>1. supply \in [PoolMints -> U64] /\ m \in PoolMints /\ supply[m] \in Nat
    BY U64Assumption DEF TypeOK, SwapAccounts, U64
  <2>2. more \in [PoolMints -> Nat] /\ more = [supply EXCEPT ![m] = @ + host_fee]
    <3> HIDE DEF m
    <3>1. supply \in [PoolMints -> Nat]
      BY <2>1, U64Assumption DEF U64
    <3>2. CASE host_fee = 0
      BY <2>1, <3>1, <3>2 DEF more
    <3>3. CASE host_fee # 0
      BY <1>16, <2>1, <3>1, <3>3 DEF more, MoreSupply
    <3> QED BY <3>2, <3>3
  <2> HIDE DEF m
  <2>3. more[m] = supply[m] + host_fee
    BY <2>1, <2>2
  <2>4. most = [supply EXCEPT ![m] = @ + host_fee + owner_fee]
    <3>1. CASE pool_token_amount = 0
      <4>1. host_fee = 0 /\ owner_fee = 0
        BY <1>14, <1>16, <3>1 DEF owner_fee
      <4>2. most = more /\ supply[m] + host_fee + owner_fee = supply[m] + host_fee
        BY <2>1, <3>1, <4>1 DEF most
      <4> QED BY <2>2, <4>2
    <3>2. CASE pool_token_amount # 0
      <4>1. most = [more EXCEPT ![m] = more[m] + owner_fee]
        BY <3>2 DEF most, MoreSupply
      <4> DEFINE new == [supply EXCEPT ![m] = supply[m] + host_fee + owner_fee]
      <4>2. DOMAIN most = PoolMints /\ most = [k \in PoolMints |-> most[k]]
        BY <2>2, <4>1
      <4>3. \A k \in PoolMints : most[k] = new[k]
        BY <1>16, <2>1, <2>2, <2>3, <4>1
      <4>4. new = [k \in PoolMints |-> new[k]]
        BY <2>1
      <4> HIDE DEF new
      <4>5. most = new
        BY <4>2, <4>3, <4>4
      <4> QED BY <4>5 DEF new
    <3> QED BY <3>1, <3>2
  <2> QED BY <2>3, <2>4
<1>22. bal' = paid_out /\ supply' = most /\ UNCHANGED <<repairs, amm>>
  BY <1>20 DEF Commits, View
<1> HIDE DEF m
<1> QED
  BY <1>11, <1>12, <1>13, <1>14, <1>17, <1>18, <1>19, <1>20, <1>21, <1>22
     DEF Swap, trade, paid, hosted, minted, m
LEMMA InitPoolExecuted ==
    ASSUME TypeOK, NEW acc, acc.amm \in Pools, acc.owner \in Users, NEW arg,
           NEW w, Executes(InitPoolSteps(acc, arg), Loaded, w), Commits(w)
    PROVE  InitPool(acc.amm, acc.owner, arg.fees, arg.curve_type, arg.amount0, arg.amount1)
<1> DEFINE p      == acc.amm
           m      == PoolMint(p)
           wallet == Wallet(acc.owner, m)
           create == Create(p, arg.amount0, arg.amount1)
           c1     == Require(p[1] # p[2], "RepeatedMint")
           c2     == Require(arg.curve_type \in CurveTypes, "Panic")
           c3     == Require(ValidateSupply(arg.amount0, arg.amount1), "EmptySupply")
           c4     == Require(supply[PoolMint(p)] = 0, "InvalidSupply")
           c5     == Require(\A c \in SWAP_CONSTRAINTS : acc.owner = c.owner_key, "InvalidOwner")
           c6     == Require(\A c \in SWAP_CONSTRAINTS : arg.curve_type \in c.valid_curve_types,
                             "UnsupportedCurveType")
           c7     == Require(\A c \in SWAP_CONSTRAINTS : ConstrainFees(arg.fees, c.fees),
                             "InvalidFee")
           c8     == Require(ValidateFees(arg.fees), "InvalidFee")
           checks == <<c1, c2, c3, c4, c5, c6, c7, c8>>
           issue  == Issue(m, wallet, NewPoolSupply, Authority(p), {Authority(p)})
           record == Record(p, NewAmm(p, acc.owner, arg.fees))
<1>1. InitPoolSteps(acc, arg) = <<create>> \o checks \o <<issue, record>>
  BY DEF InitPoolSteps
<1> HIDE DEF create, issue, record
<1>2. IsSequence(<<create>>) /\ IsSequence(<<issue, record>>)
  BY OneStepIsASequence, TwoStepsAreASequence
<1>3. AreChecks(checks) /\ Len(checks) = 8
  <2> DEFINE S == {checks[i] : i \in 1 .. 8}
  <2>1. checks \in Seq(S) /\ Len(checks) = 8
    <3> HIDE DEF c1, c2, c3, c4, c5, c6, c7, c8
    <3> QED OBVIOUS
  <2>2. \A i \in 1 .. 8 : checks[i].kind = "require"
    BY DEF Require
  <2>3. \A i \in 1 .. 8 : checks[i].error \in Errors
    BY DEF Require, Errors, SwapError
  <2> HIDE DEF checks, S
  <2> QED BY <2>1, <2>2, <2>3 DEF AreChecks, IsSequence
<1> HIDE DEF checks
<1>4. IsSequence(<<create>> \o checks)
  BY <1>2, <1>3, ConcatFacts DEF AreChecks
<1>5. PICK u : Executes(<<create>> \o checks, Loaded, u) /\ Executes(<<issue, record>>, u, w)
  BY <1>1, <1>2, <1>4, ExecutesConcat
<1>6. PICK x : Executes(<<create>>, Loaded, x) /\ Executes(checks, x, u)
  BY <1>2, <1>3, <1>5, ExecutesConcat DEF AreChecks
<1> DEFINE opened == [bal EXCEPT ![Vault0(p)] = arg.amount0, ![Vault1(p)] = arg.amount1]
<1>7. ~amm[p].is_initialized /\ x = View(amm, opened, supply)
  <2>1. CanExecute(create, View(amm, bal, supply)) /\ x = Effect(create, View(amm, bal, supply))
    BY <1>6, ExecutesOne, LoadedView
  <2>2. ~amm[p].is_initialized
    BY <2>1, CreateStep DEF create
  <2>3. x = View(amm, Opened(bal, p, arg.amount0, arg.amount1), supply)
    BY <2>1, CreateEffect DEF create
  <2> QED BY <2>2, <2>3 DEF Opened
<1> HIDE DEF opened
<1>8. u = x /\ \A i \in 1 .. 8 : checks[i].ok
  BY <1>3, <1>6, ExecutesChecks DEF AreChecks
<1>9. /\ p[1] # p[2] /\ arg.curve_type \in CurveTypes /\ ValidateSupply(arg.amount0, arg.amount1)
      /\ supply[m] = 0 /\ ConstraintsHold(acc.owner, arg.curve_type, arg.fees)
      /\ ValidateFees(arg.fees)
  <2>1. /\ checks[1].ok /\ checks[2].ok /\ checks[3].ok /\ checks[4].ok /\ checks[5].ok
        /\ checks[6].ok /\ checks[7].ok /\ checks[8].ok
    BY <1>8
  <2>2. p[1] # p[2] /\ arg.curve_type \in CurveTypes /\ supply[m] = 0
    BY <2>1 DEF checks, Require
  <2>3. ValidateSupply(arg.amount0, arg.amount1) /\ ValidateFees(arg.fees)
    <3>1. ValidateSupply(arg.amount0, arg.amount1) \in BOOLEAN /\ ValidateFees(arg.fees) \in BOOLEAN
      BY DEF ValidateSupply, ValidateFees
    <3> QED BY <2>1, <3>1 DEF checks, Require
  <2>4. \A c \in SWAP_CONSTRAINTS : acc.owner = c.owner_key
    BY <2>1 DEF checks, Require
  <2>5. \A c \in SWAP_CONSTRAINTS : arg.curve_type \in c.valid_curve_types
    BY <2>1 DEF checks, Require
  <2>6. \A c \in SWAP_CONSTRAINTS : ConstrainFees(arg.fees, c.fees)
    BY <2>1 DEF checks, Require
  <2> QED BY <2>2, <2>3, <2>4, <2>5, <2>6 DEF ConstraintsHold
<1> DEFINE minted == MintTo(opened, wallet, NewPoolSupply)
           issued == [supply EXCEPT ![m] = @ + NewPoolSupply]
           data   == NewAmm(p, acc.owner, arg.fees)
<1>10. /\ CanMintTo(opened, supply[m], wallet, NewPoolSupply, m, Authority(p), {Authority(p)})
       /\ w = View([amm EXCEPT ![p] = data], minted, issued)
  <2>1. /\ CanExecute(issue, View(amm, opened, supply))
        /\ w = Effect(record, Effect(issue, View(amm, opened, supply)))
    BY <1>5, <1>7, <1>8, ExecutesTwo
  <2> HIDE DEF wallet, m, p, data
  <2>2. CanMintTo(opened, supply[m], wallet, NewPoolSupply, m, Authority(p), {Authority(p)})
    BY <2>1 DEF CanExecute, issue, Issue, View
  <2>4. Effect(issue, View(amm, opened, supply)) = View(amm, minted, issued)
    BY IssueStep DEF issue
  <2> HIDE DEF minted, issued
  <2>3. record = Record(p, data)
    BY DEF record, data
  <2>5. w = Effect(Record(p, data), View(amm, minted, issued))
    BY <2>1, <2>3, <2>4
  <2>6. w = View([amm EXCEPT ![p] = data], minted, issued)
    BY <2>5 DEF Effect, Record, View
  <2> QED BY <2>2, <2>6
<1>11. CanMintTo(bal, supply[m], wallet, NewPoolSupply, m, Authority(p), {Authority(p)})
  <2>1. wallet # Vault0(p) /\ wallet # Vault1(p)
    BY DEF Wallet, Vault0, Vault1, TokenAccount
  <2>2. opened[wallet] = bal[wallet]
    <3>1. bal \in Balances /\ wallet \in TokenAccounts
      BY DEF TypeOK, TokenAccounts, Wallets, PoolMints
    <3> HIDE DEF wallet, p
    <3> QED BY <2>1, <3>1 DEF opened, Balances
  <2> HIDE DEF wallet, m, p
  <2> QED BY <1>10, <2>2 DEF CanMintTo
<1>12. issued = [supply EXCEPT ![m] = NewPoolSupply]
  BY <1>9, InitialAmountAssumption, U64Assumption DEF NewPoolSupply, U64
<1>13. bal' = minted /\ supply' = issued /\ amm' = [amm EXCEPT ![p] = data] /\ UNCHANGED repairs
  BY <1>10 DEF Commits, View
<1> QED BY <1>7, <1>9, <1>11, <1>12, <1>13 DEF InitPool, opened

-----------------------------------------------------------------------------
(* Every handler's list is a program: its calls are on accounts of the      *)
(* right kind and its errors have names, whatever the arguments are.        *)

LEMMA ChecksAreAProgram == ASSUME NEW s, AreChecks(s) PROVE IsProgram(s)
BY DEF AreChecks, IsProgram, IsStep

LEMMA ConcatIsAProgram ==
    ASSUME NEW a, NEW b, IsProgram(a), IsProgram(b) PROVE IsProgram(a \o b)
<1> DEFINE n == Len(a)
           m == Len(b)
<1>1. /\ n \in Nat /\ m \in Nat /\ IsSequence(a \o b) /\ Len(a \o b) = n + m
      /\ \A i \in 1 .. n : (a \o b)[i] = a[i]
      /\ \A i \in 1 .. m : (a \o b)[n + i] = b[i]
  BY SequenceFacts, ConcatFacts DEF IsProgram
<1>2. ASSUME NEW i \in 1 .. n + m PROVE IsStep((a \o b)[i])
  <2>1. CASE i <= n
    BY <1>1, <2>1 DEF IsProgram
  <2>2. CASE ~(i <= n)
    <3>1. i - n \in 1 .. m /\ n + (i - n) = i
      BY <1>1, <2>2
    <3>2. (a \o b)[i] = b[i - n]
      BY <1>1, <3>1
    <3> QED BY <3>1, <3>2 DEF IsProgram
  <2> QED BY <2>1, <2>2
<1> QED BY <1>1, <1>2 DEF IsProgram

LEMMA OneStepIsAProgram == ASSUME NEW s, IsStep(s) PROVE IsProgram(<<s>>)
<1>1. IsSequence(<<s>>) /\ Len(<<s>>) = 1 /\ <<s>>[1] = s
  BY OneStepIsASequence
<1> QED BY <1>1 DEF IsProgram

LEMMA TwoStepsAreAProgram ==
    ASSUME NEW s, NEW t, IsStep(s), IsStep(t) PROVE IsProgram(<<s, t>>)
BY OneStepIsAProgram, ConcatIsAProgram, TwoStepsAreASequence

LEMMA ThreeStepsAreAProgram ==
    ASSUME NEW s, NEW t, NEW r, IsStep(s), IsStep(t), IsStep(r) PROVE IsProgram(<<s, t, r>>)
BY OneStepIsAProgram, TwoStepsAreAProgram, ConcatIsAProgram, ThreeStepsAreASequence

LEMMA WhenIsAProgram ==
    ASSUME NEW c \in BOOLEAN, NEW s, c => IsProgram(s) PROVE IsProgram(When(c, s))
<1>1. <<>> \in Seq({}) /\ Len(<<>>) = 0
  OBVIOUS
<1> QED BY <1>1 DEF When, IsProgram, IsSequence

LEMMA CheckIsAStep ==
    ASSUME NEW ok, NEW error \in Errors PROVE IsStep(Require(ok, error))
BY DEF IsStep, Require

LEMMA PayIsAStep ==
    ASSUME NEW from \in TokenAccounts, NEW to \in TokenAccounts, NEW amount, NEW authority,
           NEW signers
    PROVE  IsStep(Pay(from, to, amount, authority, signers))
BY DEF IsStep, Pay, Errors

LEMMA IssueIsAStep ==
    ASSUME NEW mint \in PoolMints, NEW to \in TokenAccounts, NEW amount, NEW authority, NEW signers
    PROVE  IsStep(Issue(mint, to, amount, authority, signers))
BY DEF IsStep, Issue, Errors

LEMMA RedeemIsAStep ==
    ASSUME NEW mint \in PoolMints, NEW from \in TokenAccounts, NEW amount, NEW owner
    PROVE  IsStep(Redeem(mint, from, amount, owner))
BY DEF IsStep, Redeem, Errors

LEMMA DepositAllIsAProgram ==
    ASSUME NEW acc \in DepositAllAccounts, NEW arg
    PROVE  IsProgram(DepositAllSteps(acc, arg))
<1> DEFINE p       == acc.amm
           signers == {acc.owner, SeedSigner(p)}
           live    == supply[acc.pool_mint] > 0
           pool_token_amount == IF live THEN arg.pool_token_amount ELSE NewPoolSupply
           pool_mint_supply  == IF live THEN supply[acc.pool_mint] ELSE NewPoolSupply
           results == PoolTokensToTradingTokens(pool_token_amount, pool_mint_supply,
                          bal[acc.vault_token_a], bal[acc.vault_token_b], "Ceiling")
           pay     == Given(results, [token_a_amount |-> 0, token_b_amount |-> 0])
           hold    == Require(DepositAllConstraints(acc), "Constraint")
           second  == CheckAccountsSteps(p, acc.vault_token_a, acc.vault_token_b, acc.pool_mint,
                                         {acc.source_a_info}, {acc.source_b_info}, {})
           checks  == << Require(results # {}, "ZeroTradingTokens"),
                         Require(pay.token_a_amount \in U64, "Panic"),
                         Require(pay.token_a_amount <= arg.maximum_a, "ExceededSlippage"),
                         Require(pay.token_a_amount # 0, "ZeroTradingTokens"),
                         Require(pay.token_b_amount \in U64, "Panic"),
                         Require(pay.token_b_amount <= arg.maximum_b, "ExceededSlippage"),
                         Require(pay.token_b_amount # 0, "ZeroTradingTokens") >>
           pay_a   == Pay(acc.source_a_info, acc.vault_token_a, pay.token_a_amount, acc.owner,
                          signers)
           pay_b   == Pay(acc.source_b_info, acc.vault_token_b, pay.token_b_amount, acc.owner,
                          signers)
           issue   == Issue(acc.pool_mint, acc.destination, pool_token_amount, Authority(p), signers)
<1>1. DepositAllSteps(acc, arg) = <<hold>> \o second \o checks \o <<pay_a, pay_b, issue>>
  BY DEF DepositAllSteps
<1> HIDE DEF results, pay, pool_token_amount, pool_mint_supply
<1>2. AreChecks(checks)
  <2> DEFINE S == {checks[i] : i \in 1 .. 7}
  <2>1. checks \in Seq(S) /\ Len(checks) = 7
    OBVIOUS
  <2>2. \A i \in 1 .. 7 : checks[i].kind = "require"
    BY DEF Require
  <2>3. \A i \in 1 .. 7 : checks[i].error \in Errors
    BY DEF Require, Errors, SwapError
  <2> HIDE DEF checks, S
  <2> QED BY <2>1, <2>2, <2>3 DEF AreChecks, IsSequence
<1>3. IsStep(hold)
  BY CheckIsAStep, ErrorsOfTheProgram
<1>4. AreChecks(second)
  BY CheckAccountsStepsFacts
<1>5. IsStep(pay_a) /\ IsStep(pay_b) /\ IsStep(issue)
  <2>1. /\ acc.source_a_info \in TokenAccounts /\ acc.source_b_info \in TokenAccounts
        /\ acc.vault_token_a \in TokenAccounts /\ acc.vault_token_b \in TokenAccounts
        /\ acc.destination \in TokenAccounts /\ acc.pool_mint \in PoolMints
    BY DEF DepositAllAccounts
  <2> QED BY <2>1, PayIsAStep, IssueIsAStep
<1> HIDE DEF hold, second, checks, pay_a, pay_b, issue
<1>6. IsProgram(<<hold>>) /\ IsProgram(second) /\ IsProgram(checks)
  BY <1>2, <1>3, <1>4, ChecksAreAProgram, OneStepIsAProgram
<1>7. IsProgram(<<pay_a, pay_b, issue>>)
  BY <1>5, ThreeStepsAreAProgram
<1> QED BY <1>1, <1>6, <1>7, ConcatIsAProgram

LEMMA DepositSingleIsAProgram ==
    ASSUME NEW acc \in DepositSingleAccounts, NEW arg
    PROVE  IsProgram(DepositSingleSteps(acc, arg))
<1> DEFINE p       == acc.amm
           n       == arg.source_token_amount
           side    == SideOf(acc.source, acc.swap_token_a, acc.swap_token_b)
           on_a    == side = Some("AtoB")
           tokens  == IF supply[acc.pool_mint] = 0 THEN Some(NewPoolSupply)
                      ELSE UNION { CurveDepositSingle(n, bal[acc.swap_token_a],
                                     bal[acc.swap_token_b], supply[acc.pool_mint], d, amm[p].fees) :
                                   d \in side }
           pool_token_amount == Given(tokens, 0)
           vault   == IF on_a THEN acc.swap_token_a ELSE acc.swap_token_b
           hold    == Require(DepositSingleConstraints(acc), "Constraint")
           known   == Require(side # {}, "IncorrectSwapAccount")
           second  == CheckAccountsSteps(p, acc.swap_token_a, acc.swap_token_b, acc.pool_mint,
                                         IF on_a THEN {acc.source} ELSE {},
                                         IF on_a THEN {} ELSE {acc.source}, {})
           checks  == << Require(tokens # {}, "ZeroTradingTokens"),
                         Require(pool_token_amount \in U64, "Panic"),
                         Require(arg.minimum <= pool_token_amount, "ExceededSlippage"),
                         Require(pool_token_amount # 0, "ZeroTradingTokens") >>
           pay     == Pay(acc.source, vault, n, acc.owner, {acc.owner})
           issue   == Issue(acc.pool_mint, acc.destination, pool_token_amount, Authority(p),
                            {acc.owner, SeedSigner(p)})
<1>1. DepositSingleSteps(acc, arg) = <<hold, known>> \o second \o checks \o <<pay, issue>>
  BY DEF DepositSingleSteps
<1> HIDE DEF tokens, pool_token_amount
<1>2. AreChecks(checks)
  <2> DEFINE S == {checks[i] : i \in 1 .. 4}
  <2>1. checks \in Seq(S) /\ Len(checks) = 4
    OBVIOUS
  <2>2. \A i \in 1 .. 4 : checks[i].kind = "require"
    BY DEF Require
  <2>3. \A i \in 1 .. 4 : checks[i].error \in Errors
    BY DEF Require, Errors, SwapError
  <2> HIDE DEF checks, S
  <2> QED BY <2>1, <2>2, <2>3 DEF AreChecks, IsSequence
<1>3. IsStep(hold) /\ IsStep(known)
  <2>1. {"Constraint", "IncorrectSwapAccount"} \subseteq Errors
    BY DEF Errors, SwapError
  <2> QED BY <2>1, CheckIsAStep
<1>4. AreChecks(second)
  BY CheckAccountsStepsFacts
<1>5. IsStep(pay) /\ IsStep(issue)
  <2>1. /\ acc.source \in TokenAccounts /\ vault \in TokenAccounts
        /\ acc.destination \in TokenAccounts /\ acc.pool_mint \in PoolMints
    BY DEF DepositSingleAccounts
  <2> HIDE DEF vault
  <2> QED BY <2>1, PayIsAStep, IssueIsAStep
<1> HIDE DEF hold, known, second, checks, pay, issue
<1>6. IsProgram(<<hold, known>>) /\ IsProgram(second) /\ IsProgram(checks)
  BY <1>2, <1>3, <1>4, ChecksAreAProgram, TwoStepsAreAProgram
<1>7. IsProgram(<<pay, issue>>)
  BY <1>5, TwoStepsAreAProgram
<1> QED BY <1>1, <1>6, <1>7, ConcatIsAProgram

LEMMA WithdrawAllIsAProgram ==
    ASSUME NEW acc \in WithdrawAllAccounts, NEW arg
    PROVE  IsProgram(WithdrawAllSteps(acc, arg))
<1> DEFINE p       == acc.amm
           signers == {acc.owner, SeedSigner(p)}
           in_a    == bal[acc.vault_token_a]
           in_b    == bal[acc.vault_token_b]
           fee     == WithdrawFee(acc, acc.source_info, arg.pool_token_amount)
           rest    == { arg.pool_token_amount - f : f \in { f \in fee : f <= arg.pool_token_amount } }
           results == UNION { PoolTokensToTradingTokens(n, supply[acc.pool_mint], in_a, in_b,
                                                        "Floor") : n \in rest }
           get     == Given(results, [token_a_amount |-> 0, token_b_amount |-> 0])
           token_a_amount == AtMost(in_a, get.token_a_amount)
           token_b_amount == AtMost(in_b, get.token_b_amount)
           withdraw_fee   == Given(fee, 0)
           burn_amount    == Given(rest, 0)
           paid_on_side_b == SideBPayment(token_a_amount, token_b_amount)
           charged == withdraw_fee > 0
           out_a   == token_a_amount > 0
           out_b   == token_b_amount > 0
           hold    == Require(WithdrawAllConstraints(acc), "Constraint")
           second  == CheckAccountsSteps(p, acc.vault_token_a, acc.vault_token_b, acc.pool_mint,
                                         {acc.dest_token_a_info}, {acc.dest_token_b_info},
                                         {acc.fee_account})
           checks  == << Require(fee # {}, "FeeCalculationFailure"),
                         Require(rest # {}, "CalculationFailure"),
                         Require(results # {}, "ZeroTradingTokens"),
                         Require(get.token_a_amount \in U64, "Panic"),
                         Require(arg.minimum_a <= token_a_amount, "ExceededSlippage"),
                         Require(token_a_amount = 0 => in_a = 0, "ZeroTradingTokens"),
                         Require(get.token_b_amount \in U64, "Panic"),
                         Require(arg.minimum_b <= token_b_amount, "ExceededSlippage"),
                         Require(token_b_amount = 0 => in_b = 0, "ZeroTradingTokens") >>
           charge  == Pay(acc.source_info, acc.fee_account, withdraw_fee, acc.owner, {acc.owner})
           redeem  == Redeem(acc.pool_mint, acc.source_info, burn_amount, acc.owner)
           pay_a   == Pay(acc.vault_token_a, acc.dest_token_a_info, token_a_amount, Authority(p),
                          signers)
           pay_b   == Pay(acc.vault_token_b, acc.dest_token_b_info, paid_on_side_b, Authority(p),
                          signers)
<1>1. WithdrawAllSteps(acc, arg) =
        <<hold>> \o second \o checks \o When(charged, <<charge>>) \o <<redeem>>
          \o When(out_a, <<pay_a>>) \o When(out_b, <<pay_b>>)
  BY DEF WithdrawAllSteps
<1>0. charged \in BOOLEAN /\ out_a \in BOOLEAN /\ out_b \in BOOLEAN
  OBVIOUS
<1> HIDE DEF fee, rest, results, get, token_a_amount, token_b_amount, withdraw_fee, burn_amount,
             paid_on_side_b, charged, out_a, out_b
<1>2. AreChecks(checks)
  <2> DEFINE S == {checks[i] : i \in 1 .. 9}
  <2>1. checks \in Seq(S) /\ Len(checks) = 9
    OBVIOUS
  <2>2. \A i \in 1 .. 9 : checks[i].kind = "require"
    BY DEF Require
  <2>3. \A i \in 1 .. 9 : checks[i].error \in Errors
    BY DEF Require, Errors, SwapError
  <2> HIDE DEF checks, S
  <2> QED BY <2>1, <2>2, <2>3 DEF AreChecks, IsSequence
<1>3. IsStep(hold)
  BY CheckIsAStep, ErrorsOfTheProgram
<1>4. AreChecks(second)
  BY CheckAccountsStepsFacts
<1>5. IsStep(charge) /\ IsStep(redeem) /\ IsStep(pay_a) /\ IsStep(pay_b)
  <2>1. /\ acc.source_info \in TokenAccounts /\ acc.fee_account \in TokenAccounts
        /\ acc.vault_token_a \in TokenAccounts /\ acc.vault_token_b \in TokenAccounts
        /\ acc.dest_token_a_info \in TokenAccounts /\ acc.dest_token_b_info \in TokenAccounts
        /\ acc.pool_mint \in PoolMints
    BY DEF WithdrawAllAccounts
  <2> QED BY <2>1, PayIsAStep, RedeemIsAStep
<1> HIDE DEF hold, second, checks, charge, redeem, pay_a, pay_b
<1>6. IsProgram(<<hold>>) /\ IsProgram(second) /\ IsProgram(checks)
  BY <1>2, <1>3, <1>4, ChecksAreAProgram, OneStepIsAProgram
<1>7. IsProgram(When(charged, <<charge>>)) /\ IsProgram(<<redeem>>)
  BY <1>0, <1>5, OneStepIsAProgram, WhenIsAProgram
<1>8. IsProgram(When(out_a, <<pay_a>>)) /\ IsProgram(When(out_b, <<pay_b>>))
  BY <1>0, <1>5, OneStepIsAProgram, WhenIsAProgram
<1>9. IsProgram(<<hold>> \o second \o checks \o When(charged, <<charge>>))
  BY <1>6, <1>7, ConcatIsAProgram
<1> QED BY <1>1, <1>7, <1>8, <1>9, ConcatIsAProgram

LEMMA WithdrawSingleIsAProgram ==
    ASSUME NEW acc \in WithdrawSingleAccounts, NEW arg
    PROVE  IsProgram(WithdrawSingleSteps(acc, arg))
<1> DEFINE p       == acc.amm
           n       == arg.destination_token_amount
           side    == SideOf(acc.destination, acc.swap_token_a, acc.swap_token_b)
           on_a    == side = Some("AtoB")
           burnt   == UNION { CurveWithdrawSingle(n, bal[acc.swap_token_a], bal[acc.swap_token_b],
                                supply[acc.pool_mint], d, amm[p].fees) : d \in side }
           fees    == UNION { WithdrawFee(acc, acc.source, k) : k \in burnt }
           burn_amount  == Given(burnt, 0)
           withdraw_fee == Given(fees, 0)
           pool_token_amount == burn_amount + withdraw_fee
           charged == withdraw_fee > 0
           vault   == IF on_a THEN acc.swap_token_a ELSE acc.swap_token_b
           hold    == Require(WithdrawSingleConstraints(acc), "Constraint")
           known   == Require(side # {}, "IncorrectSwapAccount")
           second  == CheckAccountsSteps(p, acc.swap_token_a, acc.swap_token_b, acc.pool_mint,
                                         IF on_a THEN {acc.destination} ELSE {},
                                         IF on_a THEN {} ELSE {acc.destination}, {acc.fee_account})
           checks  == << Require(burnt # {}, "ZeroTradingTokens"),
                         Require(fees # {}, "FeeCalculationFailure"),
                         Require(pool_token_amount \in U64, "Panic"),
                         Require(pool_token_amount <= arg.maximum, "ExceededSlippage"),
                         Require(pool_token_amount # 0, "ZeroTradingTokens") >>
           charge  == Pay(acc.source, acc.fee_account, withdraw_fee, acc.owner, {acc.owner})
           redeem  == Redeem(acc.pool_mint, acc.source, burn_amount, acc.owner)
           pay     == Pay(vault, acc.destination, n, Authority(p), {acc.owner, SeedSigner(p)})
<1>1. WithdrawSingleSteps(acc, arg) =
        <<hold, known>> \o second \o checks \o When(charged, <<charge>>) \o <<redeem, pay>>
  BY DEF WithdrawSingleSteps
<1>0. charged \in BOOLEAN
  OBVIOUS
<1> HIDE DEF burnt, fees, burn_amount, withdraw_fee, pool_token_amount, charged
<1>2. AreChecks(checks)
  <2> DEFINE S == {checks[i] : i \in 1 .. 5}
  <2>1. checks \in Seq(S) /\ Len(checks) = 5
    OBVIOUS
  <2>2. \A i \in 1 .. 5 : checks[i].kind = "require"
    BY DEF Require
  <2>3. \A i \in 1 .. 5 : checks[i].error \in Errors
    BY DEF Require, Errors, SwapError
  <2> HIDE DEF checks, S
  <2> QED BY <2>1, <2>2, <2>3 DEF AreChecks, IsSequence
<1>3. IsStep(hold) /\ IsStep(known)
  <2>1. {"Constraint", "IncorrectSwapAccount"} \subseteq Errors
    BY DEF Errors, SwapError
  <2> QED BY <2>1, CheckIsAStep
<1>4. AreChecks(second)
  BY CheckAccountsStepsFacts
<1>5. IsStep(charge) /\ IsStep(redeem) /\ IsStep(pay)
  <2>1. /\ acc.source \in TokenAccounts /\ acc.fee_account \in TokenAccounts
        /\ vault \in TokenAccounts /\ acc.destination \in TokenAccounts
        /\ acc.pool_mint \in PoolMints
    BY DEF WithdrawSingleAccounts
  <2> HIDE DEF vault
  <2> QED BY <2>1, PayIsAStep, RedeemIsAStep
<1> HIDE DEF hold, known, second, checks, charge, redeem, pay
<1>6. IsProgram(<<hold, known>>) /\ IsProgram(second) /\ IsProgram(checks)
  BY <1>2, <1>3, <1>4, ChecksAreAProgram, TwoStepsAreAProgram
<1>7. IsProgram(When(charged, <<charge>>)) /\ IsProgram(<<redeem, pay>>)
  BY <1>0, <1>5, OneStepIsAProgram, TwoStepsAreAProgram, WhenIsAProgram
<1> QED BY <1>1, <1>6, <1>7, ConcatIsAProgram

LEMMA SwapIsAProgram ==
    ASSUME NEW acc \in SwapAccounts, NEW arg PROVE IsProgram(SwapSteps(acc, arg))
<1> DEFINE p       == acc.amm
           a       == amm[p]
           m       == acc.pool_mint
           signers == {acc.owner, SeedSigner(p)}
           trade   == CurveSwap(arg.amount_in, bal[acc.swap_source], bal[acc.swap_destination], a.fees)
           fee_tokens == UNION { OwnerFeePoolTokens(acc, r) : r \in trade }
           result  == Given(trade, [source_amount_swapped |-> 0, destination_amount_swapped |-> 0])
           pool_token_amount == Given(fee_tokens, 0)
           named   == acc.host_fee_account # NoHost /\ pool_token_amount > 0
           hosts   == HostFee(a.fees, pool_token_amount)
           host_fee == IF named THEN Given(hosts, 0) ELSE 0
           owner_fee == pool_token_amount - host_fee
           checks  == << Require(SwapOwnersHold(acc), "Constraint"),
                         Require(Authority(p) = AuthorityId(p), "InvalidProgramAddress"),
                         Require(acc.swap_source \in {a.token_a_account, a.token_b_account},
                                 "IncorrectSwapAccount"),
                         Require(acc.swap_destination \in {a.token_a_account, a.token_b_account},
                                 "IncorrectSwapAccount"),
                         Require(acc.swap_source # acc.swap_destination, "InvalidInput"),
                         Require(acc.swap_source # acc.vault_source_info, "InvalidInput"),
                         Require(acc.swap_destination # acc.vault_destination_info, "InvalidInput"),
                         Require(acc.pool_mint = a.pool_mint, "IncorrectPoolMint"),
                         Require(acc.fee_account = a.pool_fee_account, "IncorrectFeeAccount"),
                         Require(trade # {}, "ZeroTradingTokens"),
                         Require(arg.minimum <= result.destination_amount_swapped,
                                 "ExceededSlippage") >>
           pay_in  == Pay(acc.vault_source_info, acc.swap_source, result.source_amount_swapped,
                          acc.owner, signers)
           priced  == Require(fee_tokens # {}, "FeeCalculationFailure")
           host_mint  == Require(acc.host_fee_account.mint = acc.pool_mint, "IncorrectPoolMint")
           host_known == Require(hosts # {}, "FeeCalculationFailure")
           host_part  == Require(host_fee <= pool_token_amount, "FeeCalculationFailure")
           wide_host  == Require(host_fee \in U64, "Panic")
           wide_owner == Require(owner_fee \in U64, "Panic")
           writable   == Require(acc.writable, "TokenError")
           host_issue  == Issue(m, acc.host_fee_account, host_fee, Authority(p), signers)
           owner_issue == Issue(m, acc.fee_account, owner_fee, Authority(p), signers)
           hosting == host_fee > 0
           owning  == pool_token_amount > 0
           pay_out == Pay(acc.swap_destination, acc.vault_destination_info,
                          result.destination_amount_swapped, Authority(p), signers)
<1>1. SwapSteps(acc, arg) =
        checks \o <<pay_in, priced>> \o When(named, <<host_mint, host_known, host_part>>)
          \o When(hosting, <<wide_host, writable, host_issue>>)
          \o When(owning, <<wide_owner, writable, owner_issue>>) \o <<pay_out>>
  BY DEF SwapSteps
<1>0. named \in BOOLEAN /\ hosting \in BOOLEAN /\ owning \in BOOLEAN
  OBVIOUS
<1>2. hosting => acc.host_fee_account \in TokenAccounts
  <2>1. acc.host_fee_account \in TokenAccounts \cup {NoHost}
    BY DEF SwapAccounts
  <2>2. named => acc.host_fee_account # NoHost
    OBVIOUS
  <2>3. hosting => named
    <3> HIDE DEF named
    <3> QED OBVIOUS
  <2> QED BY <2>1, <2>2, <2>3
<1> HIDE DEF trade, fee_tokens, result, pool_token_amount, hosts, host_fee, owner_fee, named,
             hosting, owning
<1>3. AreChecks(checks)
  <2> HIDE DEF a, p
  <2> DEFINE S == {checks[i] : i \in 1 .. 11}
  <2>1. checks \in Seq(S) /\ Len(checks) = 11
    OBVIOUS
  <2>2. \A i \in 1 .. 11 : checks[i].kind = "require"
    BY DEF Require
  <2>3. \A i \in 1 .. 11 : checks[i].error \in Errors
    BY DEF Require, Errors, SwapError
  <2> HIDE DEF checks, S
  <2> QED BY <2>1, <2>2, <2>3 DEF AreChecks, IsSequence
<1>4. /\ IsStep(priced) /\ IsStep(host_mint) /\ IsStep(host_known) /\ IsStep(host_part)
      /\ IsStep(wide_host) /\ IsStep(wide_owner) /\ IsStep(writable)
  <2>1. {"FeeCalculationFailure", "IncorrectPoolMint", "Panic", "TokenError"} \subseteq Errors
    BY DEF Errors, SwapError
  <2> QED BY <2>1, CheckIsAStep
<1>5. /\ IsStep(pay_in) /\ IsStep(pay_out) /\ IsStep(owner_issue)
      /\ hosting => IsStep(host_issue)
  <2>1. /\ acc.vault_source_info \in TokenAccounts /\ acc.vault_destination_info \in TokenAccounts
        /\ acc.swap_source \in TokenAccounts /\ acc.swap_destination \in TokenAccounts
        /\ acc.fee_account \in TokenAccounts /\ m \in PoolMints
    BY DEF SwapAccounts
  <2> HIDE DEF m
  <2>2. IsStep(pay_in) /\ IsStep(pay_out) /\ IsStep(owner_issue)
    BY <2>1, PayIsAStep, IssueIsAStep
  <2>3. hosting => IsStep(host_issue)
    BY <1>2, <2>1, IssueIsAStep
  <2> QED BY <2>2, <2>3
<1> HIDE DEF checks, pay_in, priced, host_mint, host_known, host_part, wide_host, wide_owner,
             writable, host_issue, owner_issue, pay_out
<1>6. IsProgram(checks) /\ IsProgram(<<pay_in, priced>>) /\ IsProgram(<<pay_out>>)
  BY <1>3, <1>4, <1>5, ChecksAreAProgram, OneStepIsAProgram, TwoStepsAreAProgram
<1>7. IsProgram(When(named, <<host_mint, host_known, host_part>>))
  BY <1>0, <1>4, ThreeStepsAreAProgram, WhenIsAProgram
<1>8. IsProgram(When(hosting, <<wide_host, writable, host_issue>>))
  BY <1>0, <1>4, <1>5, ThreeStepsAreAProgram, WhenIsAProgram
<1>9. IsProgram(When(owning, <<wide_owner, writable, owner_issue>>))
  BY <1>0, <1>4, <1>5, ThreeStepsAreAProgram, WhenIsAProgram
<1>10. IsProgram(checks \o <<pay_in, priced>> \o When(named, <<host_mint, host_known, host_part>>))
  BY <1>6, <1>7, ConcatIsAProgram
<1> QED BY <1>1, <1>6, <1>8, <1>9, <1>10, ConcatIsAProgram

LEMMA InitPoolIsAProgram ==
    ASSUME NEW acc, acc.amm \in Pools, acc.owner \in Users, NEW arg, arg.fees \in CurveFees,
           arg.amount0 \in U64, arg.amount1 \in U64
    PROVE  IsProgram(InitPoolSteps(acc, arg))
<1> DEFINE p      == acc.amm
           m      == PoolMint(p)
           wallet == Wallet(acc.owner, m)
           create == Create(p, arg.amount0, arg.amount1)
           c1     == Require(p[1] # p[2], "RepeatedMint")
           c2     == Require(arg.curve_type \in CurveTypes, "Panic")
           c3     == Require(ValidateSupply(arg.amount0, arg.amount1), "EmptySupply")
           c4     == Require(supply[PoolMint(p)] = 0, "InvalidSupply")
           c5     == Require(\A c \in SWAP_CONSTRAINTS : acc.owner = c.owner_key, "InvalidOwner")
           c6     == Require(\A c \in SWAP_CONSTRAINTS : arg.curve_type \in c.valid_curve_types,
                             "UnsupportedCurveType")
           c7     == Require(\A c \in SWAP_CONSTRAINTS : ConstrainFees(arg.fees, c.fees),
                             "InvalidFee")
           c8     == Require(ValidateFees(arg.fees), "InvalidFee")
           checks == <<c1, c2, c3, c4, c5, c6, c7, c8>>
           issue  == Issue(m, wallet, NewPoolSupply, Authority(p), {Authority(p)})
           record == Record(p, NewAmm(p, acc.owner, arg.fees))
<1>1. InitPoolSteps(acc, arg) = <<create>> \o checks \o <<issue, record>>
  BY DEF InitPoolSteps
<1>2. IsStep(create)
  BY DEF create, Create, IsStep, Errors
<1>3. IsStep(issue)
  <2>1. m \in PoolMints /\ wallet \in TokenAccounts
    BY DEF PoolMints, Wallets, TokenAccounts
  <2> HIDE DEF m, wallet
  <2> QED BY <2>1, IssueIsAStep
<1>4. IsStep(record)
  <2> DEFINE data == NewAmm(p, acc.owner, arg.fees)
  <2>1. data \in AmmData
    BY PoolsAssumption DEF NewAmm, AmmData, Vaults, PoolMints, TokenAccounts, FeeAccounts
  <2>2. record = Record(p, data)
    OBVIOUS
  <2> HIDE DEF data, record
  <2> QED BY <2>1, <2>2 DEF Record, IsStep, Errors
<1>5. IsStep(c1) /\ IsStep(c2) /\ IsStep(c3) /\ IsStep(c4) /\ IsStep(c5) /\ IsStep(c6)
      /\ IsStep(c7) /\ IsStep(c8)
  <2>1. {"RepeatedMint", "Panic", "EmptySupply", "InvalidSupply", "InvalidOwner",
         "UnsupportedCurveType", "InvalidFee"} \subseteq Errors
    BY DEF Errors, SwapError
  <2> QED BY <2>1, CheckIsAStep
<1> HIDE DEF create, issue, record, c1, c2, c3, c4, c5, c6, c7, c8
<1>6. IsProgram(checks)
  <2> DEFINE S == {checks[i] : i \in 1 .. 8}
  <2>1. checks \in Seq(S) /\ Len(checks) = 8
    OBVIOUS
  <2>2. \A i \in 1 .. 8 : IsStep(checks[i])
    BY <1>5
  <2> QED BY <2>1, <2>2 DEF IsProgram, IsSequence
<1> HIDE DEF checks
<1>7. IsProgram(<<create>>) /\ IsProgram(<<issue, record>>)
  BY <1>2, <1>3, <1>4, OneStepIsAProgram, TwoStepsAreAProgram
<1> QED BY <1>1, <1>6, <1>7, ConcatIsAProgram

-----------------------------------------------------------------------------
(* Instructions.                                                            *)

LEMMA InstructionCases ==
    ASSUME NEW ins \in Instructions
    PROVE  \/ /\ ins.name = "init_pool" /\ ins.acc.amm \in Pools /\ ins.acc.owner \in Users
              /\ ins.arg.fees \in FeeSchedules /\ ins.arg.curve_type \in {0, 1}
              /\ ins.arg.amount0 \in OpeningBalances(ins.acc.amm[1])
              /\ ins.arg.amount1 \in OpeningBalances(ins.acc.amm[2])
           \/ /\ ins.name = "swap" /\ ins.acc \in AccountLists.swap
              /\ ins.arg.amount_in \in Amounts /\ ins.arg.minimum \in Limits
           \/ /\ ins.name = "deposit_all" /\ ins.acc \in AccountLists.deposit_all
              /\ \E n \in Amounts, m1 \in Limits, m2 \in Limits :
                   ins.arg = [pool_token_amount |-> n, maximum_a |-> m1, maximum_b |-> m2]
           \/ /\ ins.name = "deposit_single" /\ ins.acc \in AccountLists.deposit_single
              /\ \E n \in Amounts, m \in Limits :
                   ins.arg = [source_token_amount |-> n, minimum |-> m]
           \/ /\ ins.name = "withdraw_all" /\ ins.acc \in AccountLists.withdraw_all
              /\ ins.arg.pool_token_amount \in Amounts \cup {bal[ins.acc.source_info]}
              /\ ins.arg.minimum_a \in Limits /\ ins.arg.minimum_b \in Limits
           \/ /\ ins.name = "withdraw_single" /\ ins.acc \in AccountLists.withdraw_single
              /\ ins.arg.destination_token_amount \in Amounts /\ ins.arg.maximum \in Limits
<1>1. \/ \E p \in Pools : ins \in InitPoolCalls(p)
      \/ ins \in SwapCalls \/ ins \in DepositAllCalls \/ ins \in DepositSingleCalls
      \/ \E acc \in AccountLists.withdraw_all : ins \in WithdrawAllCalls(acc)
      \/ ins \in WithdrawSingleCalls
  BY DEF Instructions
<1>2. ASSUME NEW p \in Pools, ins \in InitPoolCalls(p)
      PROVE  /\ ins.name = "init_pool" /\ ins.acc.amm = p /\ ins.acc.owner \in Users
             /\ ins.arg.fees \in FeeSchedules /\ ins.arg.curve_type \in {0, 1}
             /\ ins.arg.amount0 \in OpeningBalances(p[1])
             /\ ins.arg.amount1 \in OpeningBalances(p[2])
  BY <1>2 DEF InitPoolCalls, Instruction
<1>3. CASE ins \in SwapCalls
  BY <1>3 DEF SwapCalls, Instruction
<1>4. CASE ins \in DepositAllCalls
  BY <1>4 DEF DepositAllCalls, Instruction
<1>5. CASE ins \in DepositSingleCalls
  BY <1>5 DEF DepositSingleCalls, Instruction
<1>6. ASSUME NEW acc \in AccountLists.withdraw_all, ins \in WithdrawAllCalls(acc)
      PROVE  /\ ins.name = "withdraw_all" /\ ins.acc = acc
             /\ ins.arg.pool_token_amount \in Amounts \cup {bal[acc.source_info]}
             /\ ins.arg.minimum_a \in Limits /\ ins.arg.minimum_b \in Limits
  BY <1>6 DEF WithdrawAllCalls, Instruction
<1>7. CASE ins \in WithdrawSingleCalls
  BY <1>7 DEF WithdrawSingleCalls, Instruction
<1> QED BY <1>1, <1>2, <1>3, <1>4, <1>5, <1>6, <1>7

LEMMA OpeningBalancesAreAmounts == ASSUME NEW mint PROVE OpeningBalances(mint) \subseteq U64
BY ClientAssumption, U64Assumption DEF OpeningBalances, U64

\* whatever a client sends is a program of calls and checks
LEMMA StepsAreAProgram == ASSUME NEW ins \in Instructions PROVE IsProgram(Steps(ins))
<1> DEFINE refused == Require(FALSE, "Constraint")
<1>1. IsProgram(<<refused>>)
  BY CheckIsAStep, OneStepIsAProgram, ErrorsOfTheProgram
<1> HIDE DEF refused
<1>2. CASE ins.name # "init_pool" /\ ~amm[ins.acc.amm].is_initialized
  <2>1. Steps(ins) = <<refused>>
    BY <1>2 DEF Steps, refused
  <2> QED BY <1>1, <2>1
<1>3. CASE ~(ins.name # "init_pool" /\ ~amm[ins.acc.amm].is_initialized)
  <2>1. CASE ins.name = "init_pool"
    <3>1. /\ ins.acc.amm \in Pools /\ ins.acc.owner \in Users /\ ins.arg.fees \in CurveFees
          /\ ins.arg.amount0 \in U64 /\ ins.arg.amount1 \in U64
      BY <2>1, InstructionCases, OpeningBalancesAreAmounts, ClientAssumption
    <3>2. Steps(ins) = InitPoolSteps(ins.acc, ins.arg)
      BY <1>3, <2>1 DEF Steps
    <3> QED BY <3>1, <3>2, InitPoolIsAProgram
  <2>2. CASE ins.name = "swap"
    <3>1. ins.acc \in SwapAccounts
      BY <2>2, InstructionCases, ClientAssumption
    <3>2. Steps(ins) = SwapSteps(ins.acc, ins.arg)
      BY <1>3, <2>2 DEF Steps
    <3> QED BY <3>1, <3>2, SwapIsAProgram
  <2>3. CASE ins.name = "deposit_all"
    <3>1. ins.acc \in DepositAllAccounts
      BY <2>3, InstructionCases, ClientAssumption
    <3>2. Steps(ins) = DepositAllSteps(ins.acc, ins.arg)
      BY <1>3, <2>3 DEF Steps
    <3> QED BY <3>1, <3>2, DepositAllIsAProgram
  <2>4. CASE ins.name = "deposit_single"
    <3>1. ins.acc \in DepositSingleAccounts
      BY <2>4, InstructionCases, ClientAssumption
    <3>2. Steps(ins) = DepositSingleSteps(ins.acc, ins.arg)
      BY <1>3, <2>4 DEF Steps
    <3> QED BY <3>1, <3>2, DepositSingleIsAProgram
  <2>5. CASE ins.name = "withdraw_all"
    <3>1. ins.acc \in WithdrawAllAccounts
      BY <2>5, InstructionCases, ClientAssumption
    <3>2. Steps(ins) = WithdrawAllSteps(ins.acc, ins.arg)
      BY <1>3, <2>5 DEF Steps
    <3> QED BY <3>1, <3>2, WithdrawAllIsAProgram
  <2>6. CASE ins.name = "withdraw_single"
    <3>1. ins.acc \in WithdrawSingleAccounts
      BY <2>6, InstructionCases, ClientAssumption
    <3>2. Steps(ins) = WithdrawSingleSteps(ins.acc, ins.arg)
      BY <1>3, <2>6 DEF Steps
    <3> QED BY <3>1, <3>2, WithdrawSingleIsAProgram
  <2> QED BY <2>1, <2>2, <2>3, <2>4, <2>5, <2>6, InstructionCases
<1> QED BY <1>2, <1>3

\* executed to its end, an instruction is a step of Amm
LEMMA StepsExecuted ==
    ASSUME TypeOK, NEW ins \in Instructions, NEW w, Executes(Steps(ins), Loaded, w), Commits(w)
    PROVE  Next
<1> DEFINE refused == Require(FALSE, "Constraint")
<1>1. ~CanExecute(refused, Loaded)
  BY RequireStep
<1> HIDE DEF refused
<1>2. ~(ins.name # "init_pool" /\ ~amm[ins.acc.amm].is_initialized)
  <2> SUFFICES ASSUME ins.name # "init_pool" /\ ~amm[ins.acc.amm].is_initialized PROVE FALSE
    OBVIOUS
  <2>1. Steps(ins) = <<refused>>
    BY DEF Steps, refused
  <2> QED BY <1>1, <2>1, ExecutesOne
<1>3. CASE ins.name = "init_pool"
  <2>1. /\ ins.acc.amm \in Pools /\ ins.acc.owner \in Users /\ ins.arg.fees \in FeeSchedules
        /\ ins.arg.curve_type \in {0, 1}
        /\ ins.arg.amount0 \in OpeningBalances(ins.acc.amm[1])
        /\ ins.arg.amount1 \in OpeningBalances(ins.acc.amm[2])
    BY <1>3, InstructionCases
  <2>2. Steps(ins) = InitPoolSteps(ins.acc, ins.arg)
    BY <1>2, <1>3 DEF Steps
  <2>3. InitPool(ins.acc.amm, ins.acc.owner, ins.arg.fees, ins.arg.curve_type, ins.arg.amount0,
                 ins.arg.amount1)
    BY <2>1, <2>2, InitPoolExecuted
  <2>4. AnInitPool
    BY <2>1, <2>3 DEF AnInitPool
  <2> QED BY <2>4 DEF Next
<1>4. CASE ins.name = "swap"
  <2>1. /\ ins.acc \in AccountLists.swap /\ ins.arg.amount_in \in Amounts
        /\ ins.arg.minimum \in Limits
    BY <1>4, InstructionCases
  <2>2. ins.acc \in SwapAccounts /\ ins.arg.amount_in \in U64 /\ ins.arg.minimum \in U64
    BY <2>1, ClientAssumption
  <2>3. Steps(ins) = SwapSteps(ins.acc, ins.arg)
    BY <1>2, <1>4 DEF Steps
  <2>4. amm[ins.acc.amm].is_initialized
    BY <1>2, <1>4
  <2>5. Swap(ins.acc, ins.arg.amount_in, ins.arg.minimum)
    BY <2>2, <2>3, <2>4, SwapExecuted
  <2>6. ASwap
    BY <2>1, <2>5 DEF ASwap
  <2> QED BY <2>6 DEF Next
<1>5. CASE ins.name = "deposit_all"
  <2>1. PICK n \in Amounts, m1 \in Limits, m2 \in Limits :
          ins.arg = [pool_token_amount |-> n, maximum_a |-> m1, maximum_b |-> m2]
    BY <1>5, InstructionCases
  <2>2. ins.acc \in AccountLists.deposit_all
    BY <1>5, InstructionCases
  <2>3. ins.acc \in DepositAllAccounts /\ n \in U64 /\ m1 \in U64 /\ m2 \in U64
    BY <2>2, ClientAssumption
  <2>4. Steps(ins) = DepositAllSteps(ins.acc, ins.arg)
    BY <1>2, <1>5 DEF Steps
  <2>5. DepositAll(ins.acc, n, m1, m2)
    BY <2>1, <2>3, <2>4, DepositAllExecuted
  <2>6. ADepositAll
    BY <2>2, <2>5 DEF ADepositAll
  <2> QED BY <2>6 DEF Next
<1>6. CASE ins.name = "deposit_single"
  <2>1. PICK n \in Amounts, m \in Limits : ins.arg = [source_token_amount |-> n, minimum |-> m]
    BY <1>6, InstructionCases
  <2>2. ins.acc \in AccountLists.deposit_single
    BY <1>6, InstructionCases
  <2>3. ins.acc \in DepositSingleAccounts /\ n \in U64 /\ m \in U64
    BY <2>2, ClientAssumption
  <2>4. Steps(ins) = DepositSingleSteps(ins.acc, ins.arg)
    BY <1>2, <1>6 DEF Steps
  <2>5. DepositSingle(ins.acc, n, m)
    BY <2>1, <2>3, <2>4, DepositSingleExecuted
  <2>6. ADepositSingle
    BY <2>2, <2>5 DEF ADepositSingle
  <2> QED BY <2>6 DEF Next
<1>7. CASE ins.name = "withdraw_all"
  <2>1. /\ ins.acc \in AccountLists.withdraw_all
        /\ ins.arg.pool_token_amount \in Amounts \cup {bal[ins.acc.source_info]}
        /\ ins.arg.minimum_a \in Limits /\ ins.arg.minimum_b \in Limits
    BY <1>7, InstructionCases
  <2>2. /\ ins.acc \in WithdrawAllAccounts /\ ins.arg.pool_token_amount \in U64
        /\ ins.arg.minimum_a \in U64 /\ ins.arg.minimum_b \in U64
    <3>1. ins.acc \in WithdrawAllAccounts /\ ins.arg.minimum_a \in U64 /\ ins.arg.minimum_b \in U64
      BY <2>1, ClientAssumption
    <3>2. bal[ins.acc.source_info] \in U64
      BY <3>1 DEF TypeOK, Balances, WithdrawAllAccounts
    <3> QED BY <2>1, <3>1, <3>2, ClientAssumption
  <2>3. Steps(ins) = WithdrawAllSteps(ins.acc, ins.arg)
    BY <1>2, <1>7 DEF Steps
  <2>4. WithdrawAll(ins.acc, ins.arg.pool_token_amount, ins.arg.minimum_a, ins.arg.minimum_b)
    BY <2>2, <2>3, WithdrawAllExecuted
  <2>5. AWithdrawAll
    BY <2>1, <2>4 DEF AWithdrawAll
  <2> QED BY <2>5 DEF Next
<1>8. CASE ins.name = "withdraw_single"
  <2>1. /\ ins.acc \in AccountLists.withdraw_single
        /\ ins.arg.destination_token_amount \in Amounts /\ ins.arg.maximum \in Limits
    BY <1>8, InstructionCases
  <2>2. ins.acc \in WithdrawSingleAccounts /\ ins.arg.maximum \in U64
    BY <2>1, ClientAssumption
  <2>3. Steps(ins) = WithdrawSingleSteps(ins.acc, ins.arg)
    BY <1>2, <1>8 DEF Steps
  <2>4. WithdrawSingle(ins.acc, ins.arg.destination_token_amount, ins.arg.maximum)
    BY <2>2, <2>3, WithdrawSingleExecuted
  <2>5. AWithdrawSingle
    BY <2>1, <2>4 DEF AWithdrawSingle
  <2> QED BY <2>5 DEF Next
<1> QED BY <1>3, <1>4, <1>5, <1>6, <1>7, <1>8, InstructionCases

\* an instruction reads the accounts, and they stay until it commits
LEMMA StepsStay ==
    ASSUME NEW ins, UNCHANGED vars
    PROVE  Steps(ins)' = Steps(ins)
<1>1. InitPoolSteps(ins.acc, ins.arg)' = InitPoolSteps(ins.acc, ins.arg)
  BY DEF InitPoolSteps, vars
<1>2. SwapSteps(ins.acc, ins.arg)' = SwapSteps(ins.acc, ins.arg)
  BY DEF SwapSteps, vars, OwnerFeePoolTokens, SwapOwnersHold, AuthorityId, SeedSigner,
         SwapDirection
<1>3. DepositAllSteps(ins.acc, ins.arg)' = DepositAllSteps(ins.acc, ins.arg)
  BY DEF DepositAllSteps, vars, DepositAllConstraints, AmmSeedsHold, CheckAccountsSteps,
         AuthorityId, SeedSigner
<1>4. DepositSingleSteps(ins.acc, ins.arg)' = DepositSingleSteps(ins.acc, ins.arg)
  BY DEF DepositSingleSteps, vars, DepositSingleConstraints, AmmSeedsHold, CheckAccountsSteps,
         AuthorityId, SeedSigner
<1>5. WithdrawAllSteps(ins.acc, ins.arg)' = WithdrawAllSteps(ins.acc, ins.arg)
  BY DEF WithdrawAllSteps, vars, WithdrawAllConstraints, AmmSeedsHold, CheckAccountsSteps,
         AuthorityId, SeedSigner, WithdrawFee, SideBPayment
<1>6. WithdrawSingleSteps(ins.acc, ins.arg)' = WithdrawSingleSteps(ins.acc, ins.arg)
  BY DEF WithdrawSingleSteps, vars, WithdrawSingleConstraints, AmmSeedsHold, CheckAccountsSteps,
         AuthorityId, SeedSigner, WithdrawFee
<1> QED BY <1>1, <1>2, <1>3, <1>4, <1>5, <1>6 DEF Steps, vars

LEMMA InstructionsStay == ASSUME UNCHANGED vars PROVE Instructions' = Instructions
BY DEF Instructions, InitPoolCalls, SwapCalls, DepositAllCalls, DepositSingleCalls, WithdrawAllCalls,
       WithdrawSingleCalls, OpeningBalances, vars

-----------------------------------------------------------------------------
(* The invariant of an instruction in progress.                             *)

\* the accounts as an instruction sees them
Views == [ amm : [Pools -> AmmData \cup {NoAmm}], bal : Balances, supply : [PoolMints -> U64] ]

Running(ins, todo, view) == [phase |-> "running", ins |-> ins, todo |-> todo, view |-> view]

\* What is left to do leads, from the accounts as they are seen now, to where
\* the whole instruction leads from the accounts as they were loaded.
OnItsWay(ins, todo, view) ==
    \A w : Executes(todo, view, w) => Executes(Steps(ins), Loaded, w)

RunInv ==
    /\ TypeOK
    /\ tx.phase \in {"idle", "running", "failed"}
    /\ commits \in 0 .. MaxCommits
    /\ tx.phase # "idle" => tx.view \in Views
    /\ tx.phase = "failed" => tx.at.error \in Errors
    /\ tx.phase = "running" =>
         /\ tx = Running(tx.ins, tx.todo, tx.view)
         /\ commits < MaxCommits
         /\ tx.ins \in Instructions
         /\ IsProgram(tx.todo)
         /\ OnItsWay(tx.ins, tx.todo, tx.view)

\* a call that succeeds leaves well-formed accounts
LEMMA EffectIsAView ==
    ASSUME NEW s, IsStep(s), NEW v \in Views, CanExecute(s, v)
    PROVE  Effect(s, v) \in Views
<1>1. PICK a \in [Pools -> AmmData \cup {NoAmm}], b \in Balances, c \in [PoolMints -> U64] :
        v = View(a, b, c)
  BY DEF Views, View
<1>2. CASE s.kind = "require"
  BY <1>2 DEF Effect
<1>3. CASE s.kind = "transfer"
  <2>1. s.from \in TokenAccounts /\ s.to \in TokenAccounts
    BY <1>3 DEF IsStep
  <2>2. CanTransfer(b, s.from, s.to, s.amount, s.authority, s.signers)
    BY <1>1, <1>3 DEF CanExecute, View
  <2>3. Transfer(b, s.from, s.to, s.amount) \in Balances
    BY <2>1, <2>2, TransferType
  <2>4. Effect(s, v) = View(a, Transfer(b, s.from, s.to, s.amount), c)
    BY <1>1, <1>3 DEF Effect, View
  <2> QED BY <2>3, <2>4 DEF Views, View
<1>4. CASE s.kind = "mint_to"
  <2>1. s.to \in TokenAccounts /\ s.mint \in PoolMints /\ c[s.mint] \in U64
    BY <1>4 DEF IsStep
  <2>2. CanMintTo(b, c[s.mint], s.to, s.amount, s.mint, s.authority, s.signers)
    BY <1>1, <1>4 DEF CanExecute, View
  <2>3. MintTo(b, s.to, s.amount) \in Balances /\ c[s.mint] + s.amount \in U64
    BY <2>1, <2>2, MintToType
  <2>4. Effect(s, v) = View(a, MintTo(b, s.to, s.amount), MoreSupply(c, s.mint, s.amount))
    BY <1>1, <1>4 DEF Effect, View, MoreSupply
  <2>5. MoreSupply(c, s.mint, s.amount) \in [PoolMints -> U64]
    BY <2>1, <2>3 DEF MoreSupply
  <2> QED BY <2>3, <2>4, <2>5 DEF Views, View
<1>5. CASE s.kind = "burn"
  <2>1. s.from \in TokenAccounts /\ s.mint \in PoolMints /\ c[s.mint] \in U64
    BY <1>5 DEF IsStep
  <2>2. CanBurn(b, c[s.mint], s.from, s.amount, s.mint, s.authority, s.signers)
    BY <1>1, <1>5 DEF CanExecute, View
  <2>3. Burn(b, s.from, s.amount) \in Balances /\ c[s.mint] - s.amount \in U64
    BY <2>1, <2>2, BurnType
  <2>4. Effect(s, v) = View(a, Burn(b, s.from, s.amount), LessSupply(c, s.mint, s.amount))
    BY <1>1, <1>5 DEF Effect, View, LessSupply
  <2>5. LessSupply(c, s.mint, s.amount) \in [PoolMints -> U64]
    BY <2>1, <2>3 DEF LessSupply
  <2> QED BY <2>3, <2>4, <2>5 DEF Views, View
<1>6. CASE s.kind = "create"
  <2>1. s.amount0 \in U64 /\ s.amount1 \in U64
    BY <1>6 DEF IsStep
  <2>2. Effect(s, v) = View(a, Opened(b, s.amm, s.amount0, s.amount1), c)
    BY <1>1, <1>6 DEF Effect, View, Opened
  <2>3. Opened(b, s.amm, s.amount0, s.amount1) \in Balances
    BY <2>1 DEF Opened, Balances
  <2> QED BY <2>2, <2>3 DEF Views, View
<1>7. CASE s.kind = "record"
  <2>1. s.data \in AmmData
    BY <1>7 DEF IsStep
  <2> DEFINE new == [a EXCEPT ![s.amm] = s.data]
  <2>2. Effect(s, v) = View(new, b, c)
    BY <1>1, <1>7 DEF Effect, View
  <2>3. new \in [Pools -> AmmData \cup {NoAmm}]
    BY <2>1
  <2> HIDE DEF new
  <2> QED BY <2>2, <2>3 DEF Views, View
<1> QED BY <1>2, <1>3, <1>4, <1>5, <1>6, <1>7 DEF IsStep

LEMMA LoadedIsAView == ASSUME TypeOK PROVE Loaded \in Views
BY DEF TypeOK, Loaded, Views

LEMMA ProgramsGoOn ==
    ASSUME NEW s, IsProgram(s), s # <<>>
    PROVE  IsStep(Head(s)) /\ IsProgram(Tail(s))
<1>1. PICK S : s \in Seq(S)
  BY DEF IsProgram, IsSequence
<1>2. /\ Len(s) \in Nat \ {0} /\ Tail(s) \in Seq(S) /\ Len(Tail(s)) = Len(s) - 1
      /\ \A i \in 1 .. Len(s) - 1 : Tail(s)[i] = s[i + 1]
      /\ Head(s) = s[1]
  BY <1>1, HeadTailProperties, EmptySeq, LenProperties
<1>3. IsStep(Head(s))
  BY <1>2 DEF IsProgram
<1>4. ASSUME NEW i \in 1 .. Len(s) - 1 PROVE IsStep(Tail(s)[i])
  <2>1. i + 1 \in 1 .. Len(s)
    BY <1>2
  <2> QED BY <1>2, <2>1 DEF IsProgram
<1> QED BY <1>2, <1>3, <1>4 DEF IsProgram, IsSequence

LEMMA TxInitInv == TxInit => RunInv
<1> SUFFICES ASSUME TxInit PROVE RunInv
  OBVIOUS
<1>1. TypeOK
  BY InitType DEF TxInit
<1>2. tx.phase = "idle" /\ commits \in 0 .. MaxCommits
  BY MaxCommitsAssumption DEF TxInit, Idle
<1> QED BY <1>1, <1>2 DEF RunInv

\* while an instruction is in progress the accounts stay
LEMMA AccountsStay ==
    ASSUME TypeOK, UNCHANGED vars
    PROVE  TypeOK' /\ Loaded' = Loaded
BY DEF TypeOK, vars, Loaded

LEMMA BeginInv == ASSUME RunInv, Begin PROVE RunInv'
<1>1. PICK ins \in Instructions : tx' = Running(ins, Steps(ins), Loaded)
  BY DEF Begin, Running
<1>2. UNCHANGED vars /\ commits' = commits /\ commits < MaxCommits /\ commits \in 0 .. MaxCommits
  BY DEF Begin, RunInv
<1>3. /\ tx'.phase = "running" /\ tx'.ins = ins /\ tx'.todo = Steps(ins) /\ tx'.view = Loaded
      /\ tx' = Running(tx'.ins, tx'.todo, tx'.view)
  BY <1>1 DEF Running
<1>4. TypeOK' /\ Loaded' = Loaded /\ Loaded \in Views
  BY <1>2, AccountsStay, LoadedIsAView DEF RunInv
<1>5. ins \in Instructions' /\ IsProgram(Steps(ins))
  BY <1>2, InstructionsStay, StepsAreAProgram
<1>6. OnItsWay(ins, Steps(ins), Loaded)'
  <2>1. Steps(ins)' = Steps(ins)
    BY <1>2, StepsStay
  <2> QED BY <1>4, <2>1 DEF OnItsWay
<1>7. OnItsWay(tx.ins, tx.todo, tx.view)'
  BY <1>3, <1>4, <1>6, StepsStay, <1>2 DEF OnItsWay
<1> QED BY <1>2, <1>3, <1>4, <1>5, <1>7 DEF RunInv

LEMMA ExecuteInv == ASSUME RunInv, Execute PROVE RunInv'
<1>1. /\ tx = Running(tx.ins, tx.todo, tx.view) /\ tx.phase = "running"
      /\ tx.todo # <<>> /\ CanExecute(Head(tx.todo), tx.view)
      /\ tx.ins \in Instructions /\ IsProgram(tx.todo) /\ tx.view \in Views
      /\ OnItsWay(tx.ins, tx.todo, tx.view)
      /\ commits < MaxCommits /\ commits \in 0 .. MaxCommits
      /\ tx' = [tx EXCEPT !.todo = Tail(@), !.view = Effect(Head(tx.todo), @)]
      /\ UNCHANGED vars /\ commits' = commits /\ TypeOK
  BY DEF Execute, RunInv
<1>2. PICK ins, todo, view : tx = Running(ins, todo, view)
  BY <1>1
<1>3. tx.ins = ins /\ tx.todo = todo /\ tx.view = view
  BY <1>2 DEF Running
<1> DEFINE rest == Tail(todo)
           next == Effect(Head(todo), view)
<1>4. tx' = Running(ins, rest, next)
  BY <1>1, <1>2, <1>3 DEF Running
<1>5. IsStep(Head(todo)) /\ IsProgram(rest) /\ next \in Views
  BY <1>1, <1>3, ProgramsGoOn, EffectIsAView
<1>6. \A w : Executes(rest, next, w) => Executes(Steps(ins), Loaded, w)
  <2> SUFFICES ASSUME NEW w, Executes(rest, next, w) PROVE Executes(Steps(ins), Loaded, w)
    OBVIOUS
  <2>1. Executes(todo, view, w)
    BY <1>1, <1>3, ExecutesFirst DEF IsProgram
  <2> QED BY <1>1, <1>3, <2>1 DEF OnItsWay
<1>7. TypeOK' /\ Loaded' = Loaded /\ Instructions' = Instructions /\ Steps(ins)' = Steps(ins)
  BY <1>1, AccountsStay, InstructionsStay, StepsStay
<1> HIDE DEF rest, next
<1>8. /\ tx'.phase = "running" /\ tx'.ins = ins /\ tx'.todo = rest /\ tx'.view = next
      /\ tx' = Running(tx'.ins, tx'.todo, tx'.view)
  BY <1>4 DEF Running
<1>9. OnItsWay(tx.ins, tx.todo, tx.view)'
  BY <1>6, <1>7, <1>8 DEF OnItsWay
<1>10. /\ tx'.phase = "running" /\ tx'.view \in Views /\ tx'.ins \in Instructions'
       /\ IsProgram(tx'.todo) /\ commits' < MaxCommits /\ commits' \in 0 .. MaxCommits
  <2>1. ins \in Instructions /\ commits < MaxCommits /\ commits \in 0 .. MaxCommits /\ commits' = commits
    BY <1>1, <1>3
  <2> QED BY <1>5, <1>7, <1>8, <2>1
<1> QED BY <1>7, <1>8, <1>9, <1>10 DEF RunInv

LEMMA CommitInv == ASSUME RunInv, Commit PROVE RunInv'
<1>1. /\ tx.phase = "running" /\ tx.view \in Views /\ repairs \in Builds
      /\ commits < MaxCommits /\ commits \in 0 .. MaxCommits
      /\ amm' = tx.view.amm /\ bal' = tx.view.bal /\ supply' = tx.view.supply
      /\ repairs' = repairs /\ tx' = Idle /\ commits' = commits + 1
  BY DEF Commit, RunInv, TypeOK
<1>2. TypeOK'
  BY <1>1 DEF TypeOK, Views
<1>3. tx'.phase = "idle" /\ commits' \in 0 .. MaxCommits
  BY <1>1, MaxCommitsAssumption DEF Idle
<1> QED BY <1>2, <1>3 DEF RunInv

LEMMA AbortInv == ASSUME RunInv, Abort PROVE RunInv'
<1>1. /\ tx.phase = "running" /\ tx.todo # <<>> /\ IsProgram(tx.todo) /\ tx.view \in Views
      /\ commits \in 0 .. MaxCommits
      /\ tx' = [phase |-> "failed", ins |-> tx.ins, at |-> Head(tx.todo), view |-> tx.view]
      /\ UNCHANGED vars /\ commits' = commits /\ TypeOK
  BY DEF Abort, RunInv
<1>2. tx'.phase = "failed" /\ tx'.at = Head(tx.todo) /\ tx'.view = tx.view
  BY <1>1
<1>3. Head(tx.todo).error \in Errors
  BY <1>1, ProgramsGoOn DEF IsStep
<1>4. TypeOK'
  BY <1>1, AccountsStay
<1> QED BY <1>1, <1>2, <1>3, <1>4 DEF RunInv

LEMMA DismissInv == ASSUME RunInv, Dismiss PROVE RunInv'
<1>1. TypeOK' /\ tx'.phase = "idle" /\ commits' = commits /\ commits \in 0 .. MaxCommits
  BY AccountsStay DEF Dismiss, RunInv, Idle
<1> QED BY <1>1 DEF RunInv

LEMMA TxNextInv == RunInv /\ [TxNext]_txVars => RunInv'
<1>1. ASSUME RunInv, UNCHANGED txVars PROVE RunInv'
  <2>1. UNCHANGED vars /\ tx' = tx /\ commits' = commits
    BY <1>1 DEF txVars, vars
  <2>2. TypeOK' /\ Loaded' = Loaded /\ Instructions' = Instructions
    BY <1>1, <2>1, AccountsStay, InstructionsStay DEF RunInv
  <2>3. Steps(tx.ins)' = Steps(tx.ins)
    <3>1. PICK ins : ins = tx.ins
      OBVIOUS
    <3>2. Steps(ins)' = Steps(ins)
      BY <2>1, StepsStay
    <3> QED BY <2>1, <3>1, <3>2
  <2>4. OnItsWay(tx.ins, tx.todo, tx.view)' <=> OnItsWay(tx.ins, tx.todo, tx.view)
    BY <2>1, <2>2, <2>3 DEF OnItsWay
  <2>5. tx.ins \in Instructions => tx'.ins \in Instructions'
    BY <2>1, <2>2
  <2> QED BY <1>1, <2>1, <2>2, <2>4, <2>5 DEF RunInv
<1> QED BY <1>1, BeginInv, ExecuteInv, CommitInv, AbortInv, DismissInv DEF TxNext

-----------------------------------------------------------------------------
(* The theorems.                                                            *)

LEMMA RunInvHolds == TxSpec => []RunInv
BY TxInitInv, TxNextInv, PTL DEF TxSpec

\* An instruction in progress works on well-formed accounts, at every call and
\* whatever fails later, and one that fails ends with an error somebody names:
\* for every list of accounts, every argument and every width of the amounts.
THEOREM TransactionsAreTyped == TxSpec => []TxTypeOK
<1>1. RunInv => TxTypeOK
  BY DEF RunInv, TxTypeOK, Views
<1> QED BY <1>1, RunInvHolds, PTL

\* only a commit changes the accounts, and it does what the instruction's
\* action does
LEMMA TxNextIsAStep ==
    ASSUME RunInv, [TxNext]_txVars
    PROVE  UNCHANGED vars \/ Next
<1>1. CASE Commit
  <2>1. /\ tx.todo = <<>> /\ tx.ins \in Instructions /\ OnItsWay(tx.ins, tx.todo, tx.view)
        /\ Commits(tx.view) /\ TypeOK
    BY <1>1 DEF Commit, RunInv, Commits
  <2>2. Executes(Steps(tx.ins), Loaded, tx.view)
    BY <2>1, ExecutesNothing DEF OnItsWay
  <2> QED BY <2>1, <2>2, StepsExecuted
<1>2. CASE ~Commit
  BY <1>2 DEF TxNext, Begin, Execute, Abort, Dismiss, txVars, vars
<1> QED BY <1>1, <1>2

\* The instructions as the runtime executes them, check by check and call by
\* call with every failure rolled back, implement Amm: what a handler computes
\* from the accounts it loaded once, and the calls it makes one after another,
\* amount to the one step that its action takes.
THEOREM TransactionsImplementAmm == TxSpec => ImplementsAmm
<1>1. TxInit => Init
  BY DEF TxInit
<1>2. RunInv /\ [TxNext]_txVars => [UNCHANGED vars \/ Next]_vars
  BY TxNextIsAStep
<1> QED BY <1>1, <1>2, RunInvHolds, PTL DEF TxSpec, ImplementsAmm

\* so every behaviour of the runtime is one of Amm
LEMMA TransactionsAreBehavioursOfAmm == TxSpec => Spec
<1>1. [UNCHANGED vars \/ Next]_vars => [Next]_vars
  OBVIOUS
<1> QED BY <1>1, TransactionsImplementAmm, PTL DEF ImplementsAmm, Spec

\* In a production build every pool that an executed init_pool opened meets the
\* constraints: the checks of the handler, in their order, let nothing else by.
THEOREM TransactionsMeetTheConstraints == TxSpec => []PoolsMeetTheConstraints
BY TransactionsAreBehavioursOfAmm, ProductionPoolsMeetTheConstraints, PTL

\* What is proved of the atomic instructions holds of the executed ones: none
\* succeeds without its repairs, and the owner is paid for every withdrawal
\* through the program.
THEOREM TransactionsKeepWhatAmmPromises ==
    TxSpec => LockedUnlessRepaired /\ EveryWithdrawalPaysTheOwner
BY TransactionsAreBehavioursOfAmm, Locked, EveryWithdrawalPays, PTL

\* With side B's repair a caller's accounts pay and receive what the caller's
\* limits allow, and whoever leaves with both tokens gets both shares.
THEOREM TransactionsKeepTheirLimits ==
    ASSUME SideBRepaired
    PROVE  TxSpec => CallersGetTheirLimits /\ WithdrawAllPaysBothShares
BY TransactionsAreBehavioursOfAmm, CallersAreHeldToTheirLimits, WithdrawAllPaysItsShares, PTL

\* No order of checks and calls lets an executed instruction take more of the
\* worth of the remaining pool tokens than the grain of the fixed point.
THEOREM TransactionsKeepTheWorth ==
    ASSUME NoWiderThanTheProgram, SingleLeaversPayNoTradeFee
    PROVE  TxSpec => WorthIsKeptToTheGrain
BY TransactionsAreBehavioursOfAmm, ProvidersKeepTheirWorth, PTL

\* Between any two instructions a pool with pool tokens has both its tokens,
\* unless a single-sided deposit has opened it again with one.
THEOREM TransactionsKeepBothReserves ==
    ASSUME SideBRepaired, SingleLeaversPayNoTradeFee
    PROVE  /\ TxSpec /\ PoolsOpenTwoSided => []LiquidityTwoSided
           /\ AccountLists.deposit_single = {} => (TxSpec => []LiquidityTwoSided)
<1>1. TxSpec /\ PoolsOpenTwoSided => []LiquidityTwoSided
  BY TransactionsAreBehavioursOfAmm, OnlyRestartsAreOneSided, PTL
<1>2. ASSUME AccountLists.deposit_single = {}
      PROVE  TxSpec => []LiquidityTwoSided
  BY <1>1, <1>2, TransactionsAreBehavioursOfAmm, OtherInstructionsOpenTwoSided, PTL
<1> QED BY <1>1, <1>2

\* Executed call by call, the instructions on both tokens implement the share
\* pool, and no state between two of them leaves pool tokens without reserves.
THEOREM TransactionsImplementSharePool ==
    ASSUME BothTokensOnly
    PROVE  TxSpec => ImplementsSharePool /\ []LiquidityTwoSided
BY TransactionsAreBehavioursOfAmm, Refines, StaysLiquidAsProvidersLeave, PTL
-----------------------------------------------------------------------------
(* What a pool pays, it has.                                                *)

\* the first k steps can be executed on v, and lead to u
Reaches(steps, k, v, u) ==
    \E views :
      /\ views[0] = v /\ views[k] = u
      /\ \A i \in 1 .. k :
           CanExecute(steps[i], views[i - 1]) /\ views[i] = Effect(steps[i], views[i - 1])

LEMMA ExecutesReaches ==
    ASSUME NEW s, NEW v, NEW w
    PROVE  Executes(s, v, w) <=> Reaches(s, Len(s), v, w)
BY DEF Executes, Reaches

\* whichever of its steps the instruction gets to, the pool has what it pays
Solvent(ins, steps, v) ==
    \A k \in 1 .. Len(steps) : \A u : Reaches(steps, k - 1, v, u) => CanPay(ins, steps[k], u)

\* the steps of a whole are those of its parts
LEMMA SolventConcat ==
    ASSUME NEW ins, NEW a, NEW b, IsSequence(a), IsSequence(b), NEW v, Solvent(ins, a, v),
           \A u : Executes(a, v, u) => Solvent(ins, b, u)
    PROVE  Solvent(ins, a \o b, v)
<1> DEFINE n == Len(a)
           m == Len(b)
<1>1. /\ n \in Nat /\ m \in Nat /\ Len(a \o b) = n + m
      /\ \A i \in 1 .. n : (a \o b)[i] = a[i]
      /\ \A i \in 1 .. m : (a \o b)[n + i] = b[i]
  BY SequenceFacts, ConcatFacts
<1> SUFFICES ASSUME NEW k \in 1 .. n + m, NEW u, Reaches(a \o b, k - 1, v, u)
             PROVE  CanPay(ins, (a \o b)[k], u)
  BY <1>1 DEF Solvent
<1>2. PICK views :
        /\ views[0] = v /\ views[k - 1] = u
        /\ \A i \in 1 .. k - 1 : /\ CanExecute((a \o b)[i], views[i - 1])
                                 /\ views[i] = Effect((a \o b)[i], views[i - 1])
  BY DEF Reaches
<1>3. CASE k <= n
  <2>1. \A i \in 1 .. k - 1 : (a \o b)[i] = a[i]
    BY <1>1, <1>3
  <2>2. Reaches(a, k - 1, v, u)
    BY <1>2, <2>1 DEF Reaches
  <2>3. k \in 1 .. n /\ (a \o b)[k] = a[k]
    BY <1>1, <1>3
  <2> QED BY <2>2, <2>3 DEF Solvent
<1>4. CASE ~(k <= n)
  <2> DEFINE j == k - n
  <2>1. j \in 1 .. m /\ n + j = k /\ (a \o b)[k] = b[j] /\ \A i \in 1 .. n : i \in 1 .. k - 1
    <3>1. j \in 1 .. m /\ n + j = k /\ \A i \in 1 .. n : i \in 1 .. k - 1
      <4>1. n \in Nat /\ m \in Nat /\ k \in 1 .. n + m /\ ~(k <= n)
        BY <1>1, <1>4
      <4> HIDE DEF n, m
      <4> QED BY <4>1
    <3> QED BY <1>1, <3>1
  <2>2. Reaches(a, n, v, views[n])
    <3>1. ASSUME NEW i \in 1 .. n
          PROVE  CanExecute(a[i], views[i - 1]) /\ views[i] = Effect(a[i], views[i - 1])
      BY <1>1, <1>2, <2>1
    <3> QED BY <1>2, <3>1 DEF Reaches
  <2>3. Executes(a, v, views[n])
    BY <2>2, ExecutesReaches
  <2> DEFINE rest == [i \in 0 .. j - 1 |-> views[n + i]]
  <2>4. rest[0] = views[n] /\ rest[j - 1] = u
    <3>1. n + (j - 1) = k - 1 /\ n + 0 = n /\ 0 \in 0 .. j - 1 /\ j - 1 \in 0 .. j - 1
      BY <1>1, <2>1
    <3> QED BY <1>2, <3>1
  <2>5. ASSUME NEW i \in 1 .. j - 1
        PROVE  CanExecute(b[i], rest[i - 1]) /\ rest[i] = Effect(b[i], rest[i - 1])
    <3>1. n + i \in 1 .. k - 1 /\ i \in 1 .. m /\ (a \o b)[n + i] = b[i]
      BY <1>1, <2>1
    <3>2. CanExecute(b[i], views[n + i - 1]) /\ views[n + i] = Effect(b[i], views[n + i - 1])
      BY <1>2, <3>1
    <3>3. rest[i] = views[n + i] /\ rest[i - 1] = views[n + i - 1]
      BY <1>1, <2>1
    <3> QED BY <3>2, <3>3
  <2> HIDE DEF rest
  <2>6. Reaches(b, j - 1, views[n], u)
    BY <2>4, <2>5 DEF Reaches
  <2>7. Solvent(ins, b, views[n])
    BY <2>3
  <2> HIDE DEF j
  <2> QED BY <2>1, <2>6, <2>7 DEF Solvent
<1> QED BY <1>3, <1>4

LEMMA SolventOne ==
    ASSUME NEW ins, NEW s, NEW v, CanPay(ins, s, v)
    PROVE  Solvent(ins, <<s>>, v)
<1> SUFFICES ASSUME NEW u, Reaches(<<s>>, 0, v, u) PROVE CanPay(ins, s, u)
  BY DEF Solvent
<1> QED BY DEF Reaches

\* checks pay nothing, nor do the calls that another key authorizes
LEMMA SolventChecks ==
    ASSUME NEW ins, NEW s, AreChecks(s), NEW v
    PROVE  Solvent(ins, s, v)
BY DEF Solvent, AreChecks, CanPay

LEMMA SolventWhen ==
    ASSUME NEW ins, NEW c \in BOOLEAN, NEW s, NEW v, c => Solvent(ins, s, v)
    PROVE  Solvent(ins, When(c, s), v)
<1>1. Solvent(ins, <<>>, v)
  BY DEF Solvent
<1> QED BY <1>1 DEF When

\* what is left to do is as solvent as the whole
LEMMA SolventFirst ==
    ASSUME NEW ins, NEW s, IsSequence(s), s # <<>>, NEW v, Solvent(ins, s, v)
    PROVE  CanPay(ins, Head(s), v)
<1>1. PICK S : s \in Seq(S)
  BY DEF IsSequence
<1>2. 1 \in 1 .. Len(s) /\ Head(s) = s[1]
  BY <1>1, HeadTailProperties, EmptySeq, LenProperties
<1>3. Reaches(s, 0, v, v)
  <2> DEFINE views == [i \in {0} |-> v]
  <2>1. views[0] = v
    OBVIOUS
  <2> HIDE DEF views
  <2> QED BY <2>1 DEF Reaches
<1> QED BY <1>2, <1>3 DEF Solvent

LEMMA SolventRest ==
    ASSUME NEW ins, NEW s, IsSequence(s), s # <<>>, NEW v, Solvent(ins, s, v),
           CanExecute(Head(s), v)
    PROVE  Solvent(ins, Tail(s), Effect(Head(s), v))
<1>1. PICK S : s \in Seq(S)
  BY DEF IsSequence
<1> DEFINE n == Len(s)
<1>2. /\ n \in Nat \ {0} /\ Len(Tail(s)) = n - 1
      /\ \A i \in 1 .. n - 1 : Tail(s)[i] = s[i + 1]
      /\ Head(s) = s[1]
  BY <1>1, HeadTailProperties, EmptySeq, LenProperties
<1> SUFFICES ASSUME NEW k \in 1 .. n - 1, NEW u, Reaches(Tail(s), k - 1, Effect(Head(s), v), u)
             PROVE  CanPay(ins, Tail(s)[k], u)
  BY <1>2 DEF Solvent
<1>3. PICK views :
        /\ views[0] = Effect(Head(s), v) /\ views[k - 1] = u
        /\ \A i \in 1 .. k - 1 : /\ CanExecute(Tail(s)[i], views[i - 1])
                                 /\ views[i] = Effect(Tail(s)[i], views[i - 1])
  BY DEF Reaches
<1> DEFINE all == [i \in 0 .. k |-> IF i = 0 THEN v ELSE views[i - 1]]
<1>4. all[0] = v /\ all[k] = u
  BY <1>2, <1>3
<1>5. ASSUME NEW i \in 1 .. k
      PROVE  CanExecute(s[i], all[i - 1]) /\ all[i] = Effect(s[i], all[i - 1])
  <2>1. CASE i = 1
    BY <1>2, <1>3, <2>1
  <2>2. CASE i # 1
    <3>1. /\ i - 1 \in 1 .. k - 1 /\ Tail(s)[i - 1] = s[i]
          /\ all[i - 1] = views[i - 1 - 1] /\ all[i] = views[i - 1]
      BY <1>2, <2>2
    <3> QED BY <1>3, <3>1
  <2> QED BY <2>1, <2>2
<1> HIDE DEF all
<1>6. Reaches(s, k, v, u)
  BY <1>4, <1>5 DEF Reaches
<1>7. k + 1 \in 1 .. n /\ (k + 1) - 1 = k /\ Tail(s)[k] = s[k + 1]
  BY <1>2
<1> QED BY <1>6, <1>7 DEF Solvent

\* the steps take nothing out of an account
Spares(steps, t) ==
    /\ IsSequence(steps)
    /\ \A i \in 1 .. Len(steps) :
         \/ steps[i].kind \in {"require", "mint_to"}
         \/ steps[i].kind \in {"transfer", "burn"} /\ steps[i].from # t

LEMMA ConcatSpares ==
    ASSUME NEW t, NEW a, NEW b, Spares(a, t), Spares(b, t) PROVE Spares(a \o b, t)
<1> DEFINE n == Len(a)
           m == Len(b)
<1>1. /\ n \in Nat /\ m \in Nat /\ IsSequence(a \o b) /\ Len(a \o b) = n + m
      /\ \A i \in 1 .. n : (a \o b)[i] = a[i]
      /\ \A i \in 1 .. m : (a \o b)[n + i] = b[i]
  BY SequenceFacts, ConcatFacts DEF Spares
<1>2. ASSUME NEW i \in 1 .. n + m
      PROVE  \/ (a \o b)[i].kind \in {"require", "mint_to"}
             \/ (a \o b)[i].kind \in {"transfer", "burn"} /\ (a \o b)[i].from # t
  <2>1. CASE i <= n
    BY <1>1, <2>1 DEF Spares
  <2>2. CASE ~(i <= n)
    <3>1. i - n \in 1 .. m /\ n + (i - n) = i
      BY <1>1, <2>2
    <3>2. (a \o b)[i] = b[i - n]
      BY <1>1, <3>1
    <3> QED BY <3>1, <3>2 DEF Spares
  <2> QED BY <2>1, <2>2
<1> QED BY <1>1, <1>2 DEF Spares

LEMMA OneStepSpares ==
    ASSUME NEW t, NEW s,
           \/ s.kind \in {"require", "mint_to"}
           \/ s.kind \in {"transfer", "burn"} /\ s.from # t
    PROVE  Spares(<<s>>, t)
<1>1. IsSequence(<<s>>) /\ Len(<<s>>) = 1 /\ <<s>>[1] = s
  BY OneStepIsASequence
<1> QED BY <1>1 DEF Spares

LEMMA ChecksSpare == ASSUME NEW t, NEW s, AreChecks(s) PROVE Spares(s, t)
BY DEF AreChecks, Spares

LEMMA WhenSpares ==
    ASSUME NEW t, NEW c \in BOOLEAN, NEW s, c => Spares(s, t) PROVE Spares(When(c, s), t)
<1>1. <<>> \in Seq({}) /\ Len(<<>>) = 0
  OBVIOUS
<1> QED BY <1>1 DEF When, Spares, IsSequence

\* accounts with numbers in them
IsView(v) == v = View(v.amm, v.bal, v.supply) /\ v.bal \in [TokenAccounts -> Int]

LEMMA LessElsewhere ==
    ASSUME NEW S, NEW b \in [S -> Int], NEW x, NEW n \in Nat, NEW t \in S, t # x
    PROVE  [b EXCEPT ![x] = @ - n] \in [S -> Int] /\ [b EXCEPT ![x] = @ - n][t] = b[t]
<1> DEFINE c == [y \in S |-> IF y = x THEN b[y] - n ELSE b[y]]
<1>1. [b EXCEPT ![x] = @ - n] = c
  OBVIOUS
<1>2. c \in [S -> Int]
  OBVIOUS
<1>3. c[t] = b[t]
  OBVIOUS
<1> HIDE DEF c
<1> QED BY <1>1, <1>2, <1>3

LEMMA MoreAnywhere ==
    ASSUME NEW S, NEW b \in [S -> Int], NEW x, NEW n \in Nat, NEW t \in S
    PROVE  [b EXCEPT ![x] = @ + n] \in [S -> Int] /\ [b EXCEPT ![x] = @ + n][t] >= b[t]
<1> DEFINE c == [y \in S |-> IF y = x THEN b[y] + n ELSE b[y]]
<1>1. [b EXCEPT ![x] = @ + n] = c
  OBVIOUS
<1>2. c \in [S -> Int]
  OBVIOUS
<1>3. c[t] >= b[t]
  OBVIOUS
<1> HIDE DEF c
<1> QED BY <1>1, <1>2, <1>3

LEMMA StepSpares ==
    ASSUME NEW t \in TokenAccounts, NEW s, NEW v, IsView(v), CanExecute(s, v),
           \/ s.kind \in {"require", "mint_to"}
           \/ s.kind \in {"transfer", "burn"} /\ s.from # t
    PROVE  IsView(Effect(s, v)) /\ Effect(s, v).bal[t] >= v.bal[t]
<1>1. PICK a, b, c : v = View(a, b, c) /\ v.bal = b /\ v.amm = a /\ v.supply = c
  BY DEF IsView
<1>2. b \in [TokenAccounts -> Int] /\ b[t] \in Int
  BY <1>1 DEF IsView
<1>3. CASE s.kind = "require"
  BY <1>1, <1>2, <1>3 DEF Effect
<1>4. CASE s.kind = "transfer"
  <2> DEFINE b1 == [b EXCEPT ![s.from] = @ - s.amount]
             b2 == [b1 EXCEPT ![s.to] = @ + s.amount]
  <2>1. s.amount \in Nat
    BY <1>1, <1>4, U64Assumption DEF CanExecute, CanTransfer, U64
  <2>2. s.from # t
    BY <1>4
  <2>3. b1 \in [TokenAccounts -> Int] /\ b1[t] = b[t]
    BY <1>2, <2>1, <2>2, LessElsewhere
  <2> HIDE DEF b1
  <2>4. b2 \in [TokenAccounts -> Int] /\ b2[t] >= b1[t]
    BY <1>2, <2>1, <2>3, MoreAnywhere
  <2>5. Effect(s, v) = View(a, b2, c)
    BY <1>1, <1>4 DEF Effect, View, Transfer, b1
  <2> HIDE DEF b2
  <2> QED BY <1>1, <2>3, <2>4, <2>5 DEF IsView, View
<1>5. CASE s.kind = "mint_to"
  <2> DEFINE b1 == [b EXCEPT ![s.to] = @ + s.amount]
  <2>1. s.amount \in Nat
    BY <1>1, <1>5, U64Assumption DEF CanExecute, CanMintTo, U64
  <2>2. b1 \in [TokenAccounts -> Int] /\ b1[t] >= b[t]
    BY <1>2, <2>1, MoreAnywhere
  <2>3. Effect(s, v) = View(a, b1, MoreSupply(c, s.mint, s.amount))
    BY <1>1, <1>5 DEF Effect, View, MintTo, MoreSupply
  <2> HIDE DEF b1
  <2> QED BY <1>1, <2>2, <2>3 DEF IsView, View
<1>6. CASE s.kind = "burn"
  <2> DEFINE b1 == [b EXCEPT ![s.from] = @ - s.amount]
  <2>1. s.amount \in Nat
    BY <1>1, <1>6, U64Assumption DEF CanExecute, CanBurn, U64
  <2>2. s.from # t
    BY <1>6
  <2>3. b1 \in [TokenAccounts -> Int] /\ b1[t] = b[t]
    BY <1>2, <2>1, <2>2, LessElsewhere
  <2>4. Effect(s, v) = View(a, b1, LessSupply(c, s.mint, s.amount))
    BY <1>1, <1>6 DEF Effect, View, Burn, LessSupply
  <2> HIDE DEF b1
  <2> QED BY <1>1, <1>2, <2>3, <2>4 DEF IsView, View
<1> QED BY <1>3, <1>4, <1>5, <1>6

\* an account that is spared holds at least what it held
LEMMA SparedAccountsKeep ==
    ASSUME NEW t \in TokenAccounts, NEW s, Spares(s, t), NEW v, IsView(v), NEW w, Executes(s, v, w)
    PROVE  w.bal[t] \in Int /\ w.bal[t] >= v.bal[t]
<1> DEFINE n == Len(s)
<1>1. PICK views :
        /\ views[0] = v /\ views[n] = w
        /\ \A i \in 1 .. n : /\ CanExecute(s[i], views[i - 1])
                             /\ views[i] = Effect(s[i], views[i - 1])
  BY DEF Executes
<1>2. n \in Nat
  BY SequenceFacts DEF Spares
<1>3. v.bal[t] \in Int
  BY DEF IsView
<1> DEFINE Good(i) == IsView(views[i]) /\ views[i].bal[t] >= v.bal[t]
<1>4. ASSUME NEW i \in 1 .. n, Good(i - 1) PROVE Good(i)
  <2>1. /\ IsView(views[i - 1]) /\ CanExecute(s[i], views[i - 1])
        /\ views[i] = Effect(s[i], views[i - 1])
    BY <1>1, <1>4
  <2>2. \/ s[i].kind \in {"require", "mint_to"}
        \/ s[i].kind \in {"transfer", "burn"} /\ s[i].from # t
    BY DEF Spares
  <2>3. IsView(views[i]) /\ views[i].bal[t] >= views[i - 1].bal[t]
    BY <2>1, <2>2, StepSpares
  <2>4. views[i].bal[t] \in Int /\ views[i - 1].bal[t] \in Int
    BY <2>1, <2>3 DEF IsView
  <2> QED BY <1>3, <1>4, <2>3, <2>4
<1>5. Good(0)
  BY <1>1, <1>3
<1>6. \A i \in 0 .. n : Good(i)
  <2> SUFFICES ASSUME NEW j \in 0 .. n, ~Good(j) PROVE FALSE
    OBVIOUS
  <2> DEFINE Bad == {i \in 0 .. n : ~Good(i)}
  <2> HIDE DEF Good
  <2>1. PICK i \in Bad : \A k \in Bad : ~(k < i)
    <3>1. Bad \subseteq Nat /\ j \in Bad
      BY <1>2
    <3> HIDE DEF Bad
    <3> QED BY <3>1, LeastNatural
  <2>2. i # 0
    BY <1>5, <2>1
  <2>3. i - 1 \in 0 .. n /\ i \in 1 .. n /\ i - 1 < i
    BY <1>2, <2>1, <2>2
  <2> QED BY <1>4, <2>1, <2>3
<1>7. Good(n)
  BY <1>2, <1>6
<1>8. w.bal[t] \in Int
  BY <1>1, <1>7 DEF IsView
<1> QED BY <1>1, <1>7, <1>8

LEMMA LoadedIsNumbers == ASSUME TypeOK PROVE IsView(Loaded)
<1>1. \A t \in TokenAccounts : bal[t] \in Int
  BY U64Assumption DEF TypeOK, Balances, U64
<1> QED BY <1>1 DEF TypeOK, Balances, Loaded, View, IsView

\* what is not a transfer by the pool's authority takes nothing from the pool
LEMMA OthersCanPay ==
    ASSUME NEW ins, NEW s, s.kind # "transfer", NEW v PROVE CanPay(ins, s, v)
BY DEF CanPay

LEMMA UsersCanPay ==
    ASSUME NEW ins, ins.acc.amm \in Pools, NEW from, NEW to, NEW amount, NEW user \in Users,
           NEW signers, NEW v
    PROVE  CanPay(ins, Pay(from, to, amount, user, signers), v)
BY UsersAssumption DEF CanPay, Pay

LEMMA PoolCanPay ==
    ASSUME NEW ins, NEW from, NEW to, NEW amount, NEW authority, NEW signers, NEW v,
           amount <= v.bal[from]
    PROVE  CanPay(ins, Pay(from, to, amount, authority, signers), v)
BY DEF CanPay, Pay

LEMMA WithdrawAllSolvent ==
    ASSUME TypeOK, OpenedInv, "side_b" \in repairs, NEW acc \in WithdrawAllAccounts, NEW arg,
           NEW ins, ins.acc.amm = acc.amm
    PROVE  Solvent(ins, WithdrawAllSteps(acc, arg), Loaded)
<1> DEFINE p       == acc.amm
           n       == arg.pool_token_amount
           signers == {acc.owner, SeedSigner(p)}
           in_a    == bal[acc.vault_token_a]
           in_b    == bal[acc.vault_token_b]
           fee     == WithdrawFee(acc, acc.source_info, n)
           rest    == { n - f : f \in { f \in fee : f <= n } }
           results == UNION { PoolTokensToTradingTokens(k, supply[acc.pool_mint], in_a, in_b,
                                                        "Floor") : k \in rest }
           get     == Given(results, [token_a_amount |-> 0, token_b_amount |-> 0])
           withdraw_fee   == Given(fee, 0)
           burn_amount    == Given(rest, 0)
           token_a_amount == AtMost(in_a, get.token_a_amount)
           token_b_amount == AtMost(in_b, get.token_b_amount)
           paid_on_side_b == SideBPayment(token_a_amount, token_b_amount)
           first   == << Require(WithdrawAllConstraints(acc), "Constraint") >>
           second  == CheckAccountsSteps(p, acc.vault_token_a, acc.vault_token_b, acc.pool_mint,
                              {acc.dest_token_a_info}, {acc.dest_token_b_info}, {acc.fee_account})
           checks  == << Require(fee # {}, "FeeCalculationFailure"),
                         Require(rest # {}, "CalculationFailure"),
                         Require(results # {}, "ZeroTradingTokens"),
                         Require(get.token_a_amount \in U64, "Panic"),
                         Require(arg.minimum_a <= token_a_amount, "ExceededSlippage"),
                         Require(token_a_amount = 0 => in_a = 0, "ZeroTradingTokens"),
                         Require(get.token_b_amount \in U64, "Panic"),
                         Require(arg.minimum_b <= token_b_amount, "ExceededSlippage"),
                         Require(token_b_amount = 0 => in_b = 0, "ZeroTradingTokens") >>
           charge  == When(withdraw_fee > 0,
                           << Pay(acc.source_info, acc.fee_account, withdraw_fee, acc.owner,
                                  {acc.owner}) >>)
           redeem  == Redeem(acc.pool_mint, acc.source_info, burn_amount, acc.owner)
           pay_a   == When(token_a_amount > 0,
                           << Pay(acc.vault_token_a, acc.dest_token_a_info, token_a_amount,
                                  Authority(p), signers) >>)
           pay_b   == When(token_b_amount > 0,
                           << Pay(acc.vault_token_b, acc.dest_token_b_info, paid_on_side_b,
                                  Authority(p), signers) >>)
<1>1. WithdrawAllSteps(acc, arg) = first \o second \o checks \o charge \o <<redeem>> \o pay_a \o pay_b
  BY DEF WithdrawAllSteps
<1> HIDE DEF rest, results, get, withdraw_fee, burn_amount, token_a_amount, token_b_amount, redeem
<1>2. /\ IsSequence(first) /\ IsSequence(second) /\ AreChecks(second) /\ IsSequence(charge)
      /\ IsSequence(<<redeem>>) /\ IsSequence(pay_a) /\ IsSequence(pay_b)
  <2>1. IsSequence(first) /\ IsSequence(<<redeem>>)
    BY OneStepIsASequence
  <2>2. AreChecks(second)
    BY CheckAccountsStepsFacts
  <2>3. IsSequence(charge)
    BY OneStepIsASequence, WhenIsASequence
  <2>4. IsSequence(pay_a)
    BY OneStepIsASequence, WhenIsASequence
  <2>5. IsSequence(pay_b)
    BY OneStepIsASequence, WhenIsASequence
  <2> QED BY <2>1, <2>2, <2>3, <2>4, <2>5 DEF AreChecks
<1>3. AreChecks(checks) /\ Len(checks) = 9
  <2> DEFINE S == {checks[i] : i \in 1 .. 9}
  <2>1. checks \in Seq(S) /\ Len(checks) = 9
    OBVIOUS
  <2>2. \A i \in 1 .. 9 : checks[i].kind = "require"
    BY DEF Require
  <2>3. \A i \in 1 .. 9 : checks[i].error \in Errors
    BY DEF Require, Errors, SwapError
  <2> HIDE DEF checks, S
  <2> QED BY <2>1, <2>2, <2>3 DEF AreChecks, IsSequence
<1> HIDE DEF first, second, checks, charge, pay_a, pay_b
<1>4. /\ IsSequence(first \o second) /\ IsSequence(first \o second \o checks)
      /\ IsSequence(first \o second \o checks \o charge)
      /\ IsSequence(first \o second \o checks \o charge \o <<redeem>>)
      /\ IsSequence(first \o second \o checks \o charge \o <<redeem>> \o pay_a)
  BY <1>2, <1>3, ConcatFacts DEF AreChecks
<1> DEFINE checked == first \o second \o checks
           charged == checked \o charge
           burned  == charged \o <<redeem>>
           paid_a  == burned \o pay_a
<1>5. acc.owner \in Users /\ p \in Pools /\ ins.acc.amm = p
  BY DEF WithdrawAllAccounts
<1>6. \A u : /\ Solvent(ins, first, u) /\ Solvent(ins, second, u) /\ Solvent(ins, checks, u)
             /\ Solvent(ins, charge, u) /\ Solvent(ins, <<redeem>>, u)
  <2> TAKE u
  <2>1. Solvent(ins, first, u)
    <3>1. CanPay(ins, Require(WithdrawAllConstraints(acc), "Constraint"), u)
      BY OthersCanPay DEF Require
    <3> QED BY <3>1, SolventOne DEF first
  <2>2. Solvent(ins, second, u) /\ Solvent(ins, checks, u)
    BY <1>2, <1>3, SolventChecks
  <2>3. Solvent(ins, charge, u)
    <3> DEFINE due == withdraw_fee > 0
               pay == Pay(acc.source_info, acc.fee_account, withdraw_fee, acc.owner, {acc.owner})
    <3>1. Solvent(ins, <<pay>>, u) /\ due \in BOOLEAN
      BY <1>5, UsersCanPay, SolventOne
    <3>2. charge = When(due, <<pay>>)
      BY DEF charge
    <3> HIDE DEF due, pay
    <3> QED BY <3>1, <3>2, SolventWhen
  <2>4. Solvent(ins, <<redeem>>, u)
    <3>1. CanPay(ins, redeem, u)
      BY OthersCanPay DEF redeem, Redeem
    <3> QED BY <3>1, SolventOne
  <2> QED BY <2>1, <2>2, <2>3, <2>4
<1>7. Solvent(ins, burned, Loaded)
  <2>1. Solvent(ins, first \o second, Loaded)
    BY <1>2, <1>6, SolventConcat
  <2>2. Solvent(ins, checked, Loaded)
    BY <1>3, <1>4, <1>6, <2>1, SolventConcat DEF AreChecks
  <2>3. Solvent(ins, charged, Loaded)
    BY <1>2, <1>4, <1>6, <2>2, SolventConcat
  <2> QED BY <1>2, <1>4, <1>6, <2>3, SolventConcat
<1>8. ASSUME NEW r, Executes(burned, Loaded, r)
      PROVE  /\ Live(p) /\ acc.source_info.mint = PoolMint(p)
             /\ acc.vault_token_a = Vault0(p) /\ acc.vault_token_b = Vault1(p)
             /\ token_a_amount \in Nat /\ token_a_amount <= in_a
             /\ token_b_amount \in Nat /\ token_b_amount <= in_b
  <2>1. PICK w_c : Executes(charged, Loaded, w_c)
    BY <1>2, <1>4, <1>8, ExecutesConcat
  <2>2. PICK u : Executes(checked, Loaded, u)
    BY <1>2, <1>4, <2>1, ExecutesConcat
  <2>3. PICK v : Executes(first \o second, Loaded, v) /\ Executes(checks, v, u)
    BY <1>2, <1>3, <1>4, <2>2, ExecutesConcat DEF AreChecks
  <2>4. PICK x : Executes(first, Loaded, x) /\ Executes(second, x, v)
    BY <1>2, <2>3, ExecutesConcat
  <2>5. WithdrawAllConstraints(acc)
    <3>1. WithdrawAllConstraints(acc) \in BOOLEAN
      BY DEF WithdrawAllConstraints
    <3> QED BY <2>4, <3>1, ExecutesOne, RequireStep DEF first
  <2>6. CheckAccounts(p, acc.vault_token_a, acc.vault_token_b, acc.pool_mint,
                      {acc.dest_token_a_info}, {acc.dest_token_b_info}, {acc.fee_account})
    BY <1>2, <2>4, ExecutesChecks, CheckAccountsStepsFacts DEF AreChecks, second
  <2>7. get.token_a_amount \in U64 /\ get.token_b_amount \in U64
    <3>1. checks[4].ok /\ checks[7].ok
      <4>1. \A i \in 1 .. 9 : checks[i].ok
        BY <1>3, <2>3, ExecutesChecks DEF AreChecks
      <4> QED BY <4>1
    <3> HIDE DEF fee
    <3> QED BY <3>1 DEF checks, Require
  <2>8. /\ token_a_amount \in Nat /\ token_a_amount <= in_a
        /\ token_b_amount \in Nat /\ token_b_amount <= in_b
    <3>1. in_a \in U64 /\ in_b \in U64
      BY DEF TypeOK, Balances, WithdrawAllAccounts
    <3> QED BY <2>7, <3>1, U64Assumption DEF U64, AtMost, token_a_amount, token_b_amount
  <2>9. Live(p) /\ acc.source_info.mint = acc.pool_mint
    BY <2>5 DEF WithdrawAllConstraints, Live
  <2>10. /\ acc.vault_token_a = amm[p].token_a_account /\ acc.vault_token_b = amm[p].token_b_account
         /\ acc.pool_mint = amm[p].pool_mint
    BY <2>6 DEF CheckAccounts
  <2> QED BY <1>5, <2>8, <2>9, <2>10, OpenPoolAccounts
<1>9. ASSUME NEW r, Executes(burned, Loaded, r), NEW t \in {acc.vault_token_a, acc.vault_token_b}
      PROVE  Spares(burned, t)
  <2>1. acc.source_info # t
    BY <1>5, <1>8, <1>9, OpenPoolAccounts
  <2>2. Spares(first, t) /\ Spares(second, t) /\ Spares(checks, t)
    <3>1. Spares(first, t)
      <4>1. Require(WithdrawAllConstraints(acc), "Constraint").kind = "require"
        BY DEF Require
      <4> QED BY <4>1, OneStepSpares DEF first
    <3> QED BY <1>2, <1>3, <3>1, ChecksSpare
  <2>3. Spares(charge, t)
    <3> DEFINE due == withdraw_fee > 0
               pay == Pay(acc.source_info, acc.fee_account, withdraw_fee, acc.owner, {acc.owner})
    <3>1. Spares(<<pay>>, t) /\ due \in BOOLEAN
      BY <2>1, OneStepSpares DEF Pay
    <3>2. charge = When(due, <<pay>>)
      BY DEF charge
    <3> HIDE DEF due, pay
    <3> QED BY <3>1, <3>2, WhenSpares
  <2>4. Spares(<<redeem>>, t)
    BY <2>1, OneStepSpares DEF redeem, Redeem
  <2> QED BY <2>2, <2>3, <2>4, ConcatSpares
<1>10. ASSUME NEW r, Executes(burned, Loaded, r) PROVE Solvent(ins, pay_a, r)
  <2>1. r.bal[acc.vault_token_a] \in Int /\ in_a <= r.bal[acc.vault_token_a] /\ in_a \in Int
    <3>1. acc.vault_token_a \in TokenAccounts /\ IsView(Loaded) /\ Spares(burned, acc.vault_token_a)
      BY <1>9, <1>10, LoadedIsNumbers DEF WithdrawAllAccounts
    <3>2. /\ r.bal[acc.vault_token_a] \in Int
          /\ r.bal[acc.vault_token_a] >= Loaded.bal[acc.vault_token_a]
      BY <1>10, <3>1, SparedAccountsKeep
    <3>3. Loaded.bal[acc.vault_token_a] = in_a /\ in_a \in Int
      BY <3>1 DEF Loaded, IsView
    <3> QED BY <3>2, <3>3
  <2>2. token_a_amount <= r.bal[acc.vault_token_a]
    BY <1>8, <1>10, <2>1
  <2> DEFINE due == token_a_amount > 0
             pay == Pay(acc.vault_token_a, acc.dest_token_a_info, token_a_amount, Authority(p), signers)
  <2>3. Solvent(ins, <<pay>>, r) /\ due \in BOOLEAN
    BY <2>2, PoolCanPay, SolventOne
  <2>4. pay_a = When(due, <<pay>>)
    BY DEF pay_a
  <2> HIDE DEF due, pay
  <2> QED BY <2>3, <2>4, SolventWhen
<1>11. ASSUME NEW r, Executes(paid_a, Loaded, r) PROVE Solvent(ins, pay_b, r)
  <2>1. PICK w_r : Executes(burned, Loaded, w_r)
    BY <1>2, <1>4, <1>11, ExecutesConcat
  <2>2. Spares(pay_a, acc.vault_token_b)
    <3> DEFINE due == token_a_amount > 0
               pay == Pay(acc.vault_token_a, acc.dest_token_a_info, token_a_amount, Authority(p),
                          signers)
    <3>1. acc.vault_token_a # acc.vault_token_b
      BY <1>5, <1>8, <2>1, OpenPoolAccounts
    <3>2. Spares(<<pay>>, acc.vault_token_b) /\ due \in BOOLEAN
      BY <3>1, OneStepSpares DEF Pay
    <3>3. pay_a = When(due, <<pay>>)
      BY DEF pay_a
    <3> HIDE DEF due, pay
    <3> QED BY <3>2, <3>3, WhenSpares
  <2>3. r.bal[acc.vault_token_b] \in Int /\ in_b <= r.bal[acc.vault_token_b] /\ in_b \in Int
    <3>1. acc.vault_token_b \in TokenAccounts /\ IsView(Loaded) /\ Spares(paid_a, acc.vault_token_b)
      BY <1>9, <2>1, <2>2, LoadedIsNumbers, ConcatSpares DEF WithdrawAllAccounts
    <3>2. /\ r.bal[acc.vault_token_b] \in Int
          /\ r.bal[acc.vault_token_b] >= Loaded.bal[acc.vault_token_b]
      BY <1>11, <3>1, SparedAccountsKeep
    <3>3. Loaded.bal[acc.vault_token_b] = in_b /\ in_b \in Int
      BY <3>1 DEF Loaded, IsView
    <3> QED BY <3>2, <3>3
  <2>4. token_b_amount <= r.bal[acc.vault_token_b] /\ paid_on_side_b = token_b_amount
    BY <1>8, <2>1, <2>3 DEF SideBPayment
  <2> DEFINE due == token_b_amount > 0
             pay == Pay(acc.vault_token_b, acc.dest_token_b_info, paid_on_side_b, Authority(p), signers)
  <2>5. Solvent(ins, <<pay>>, r) /\ due \in BOOLEAN
    <3> HIDE DEF paid_on_side_b
    <3> QED BY <2>4, PoolCanPay, SolventOne
  <2>6. pay_b = When(due, <<pay>>)
    BY DEF pay_b
  <2> HIDE DEF due, pay
  <2> QED BY <2>5, <2>6, SolventWhen
<1>12. Solvent(ins, paid_a, Loaded)
  BY <1>2, <1>4, <1>7, <1>10, SolventConcat
<1> QED BY <1>1, <1>2, <1>4, <1>11, <1>12, SolventConcat

\* what two parts lead to one after the other, the whole leads to
LEMMA ExecutesBoth ==
    ASSUME NEW a, NEW b, IsSequence(a), IsSequence(b), NEW v, NEW u, NEW w,
           Executes(a, v, u), Executes(b, u, w)
    PROVE  Executes(a \o b, v, w)
<1> DEFINE n == Len(a)
           m == Len(b)
<1>1. /\ n \in Nat /\ m \in Nat /\ Len(a \o b) = n + m
      /\ \A i \in 1 .. n : (a \o b)[i] = a[i]
      /\ \A i \in 1 .. m : (a \o b)[n + i] = b[i]
  BY SequenceFacts, ConcatFacts
<1>2. PICK f : /\ f[0] = v /\ f[n] = u
               /\ \A i \in 1 .. n : CanExecute(a[i], f[i - 1]) /\ f[i] = Effect(a[i], f[i - 1])
  BY DEF Executes
<1>3. PICK g : /\ g[0] = u /\ g[m] = w
               /\ \A i \in 1 .. m : CanExecute(b[i], g[i - 1]) /\ g[i] = Effect(b[i], g[i - 1])
  BY DEF Executes
<1> DEFINE all == [i \in 0 .. n + m |-> IF i <= n THEN f[i] ELSE g[i - n]]
<1>4. all[0] = v /\ \A i \in 0 .. n : all[i] = f[i]
  BY <1>1, <1>2
<1>5. \A i \in 0 .. m : all[n + i] = g[i]
  <2> TAKE i \in 0 .. m
  <2>1. CASE i = 0
    BY <1>1, <1>2, <1>3, <2>1
  <2>2. CASE i # 0
    BY <1>1, <2>2
  <2> QED BY <2>1, <2>2
<1> HIDE DEF all
<1>6. ASSUME NEW i \in 1 .. n + m
      PROVE  CanExecute((a \o b)[i], all[i - 1]) /\ all[i] = Effect((a \o b)[i], all[i - 1])
  <2>1. CASE i <= n
    <3>1. i \in 1 .. n /\ i - 1 \in 0 .. n /\ i \in 0 .. n
      BY <1>1, <2>1
    <3> QED BY <1>1, <1>2, <1>4, <3>1
  <2>2. CASE ~(i <= n)
    <3> DEFINE j == i - n
    <3>1. j \in 1 .. m /\ j - 1 \in 0 .. m /\ j \in 0 .. m /\ n + j = i /\ n + (j - 1) = i - 1
      BY <1>1, <2>2
    <3> HIDE DEF j
    <3>2. all[i] = g[j] /\ all[i - 1] = g[j - 1] /\ (a \o b)[i] = b[j]
      BY <1>1, <1>5, <3>1
    <3> QED BY <1>3, <3>1, <3>2
  <2> QED BY <2>1, <2>2
<1>7. all[n + m] = w
  BY <1>1, <1>3, <1>5
<1> QED BY <1>1, <1>4, <1>6, <1>7 DEF Executes

\* Without a trading fee the root of one minus the ratio exists only when the
\* reserve covers the withdrawal, if the ratio is not rounded down to one.
LEMMA RootsExistWithinTheReserve ==
    ASSUME NEW n \in Nat, NEW a \in Nat, NEW b \in Nat, NEW s, NEW d, NEW fees,
           fees.trade_fee.numerator = 0, CurveWithdrawSingle(n, a, b, s, d, fees) # {},
           SwapSourceAmount(a, b, d) <= ONE
    PROVE  n <= SwapSourceAmount(a, b, d)
<1> DEFINE r == SwapSourceAmount(a, b, d)
<1>1. r \in Nat /\ r <= ONE /\ ONE \in Nat \ {0, 1}
  BY OneAssumption DEF SwapSourceAmount
<1>2. CASE n = 0
  BY <1>1, <1>2
<1>3. CASE n # 0
  <2>1. WithdrawSingleTokenTypeExactOut(n, r, s, "Ceiling") # {}
    <3>1. PICK m \in LessHalfTradeFee(n, fees) : WithdrawSingleTokenTypeExactOut(m, r, s, "Ceiling") # {}
      BY <1>3 DEF CurveWithdrawSingle
    <3>2. m = n
      BY <3>1 DEF LessHalfTradeFee, TradingFee, CalculateFee, Some
    <3> QED BY <3>1, <3>2
  <2>2. PICK ratio \in PreciseDiv(Precise(n), Precise(r)) : PreciseSub(Precise(1), ratio) # {}
    BY <2>1 DEF WithdrawSingleTokenTypeExactOut
  <2>3. /\ r * ONE # 0 /\ ratio = (n * ONE * ONE + ONE \div 2) \div (r * ONE)
        /\ ratio <= 1 * ONE
    BY <2>2 DEF PreciseDiv, PreciseSub, Precise, Some, None
  <2> HIDE DEF r
  <2>4. r # 0 /\ r * ONE \in Nat \ {0} /\ n * ONE * ONE \in Nat /\ ONE \div 2 \in Nat
    <3>1. r # 0
      BY <1>1, <2>3
    <3>2. r * ONE \in Nat /\ n * ONE \in Nat
      BY <1>1
    <3>3. (n * ONE) * ONE \in Nat /\ ONE \div 2 \in Nat
      BY <1>1, <3>2
    <3> QED BY <2>3, <3>1, <3>2, <3>3
  <2> DEFINE x == n * ONE * ONE
             y == r * ONE
             h == ONE \div 2
  <2>5. x + h < y * (ONE + 1)
    <3>1. x \in Nat /\ h \in Nat /\ y \in Nat \ {0} /\ (x + h) \div y <= ONE
      BY <1>1, <2>3, <2>4
    <3> HIDE DEF x, y, h
    <3> DEFINE q == (x + h) \div y
    <3>2. q \in Nat /\ x + h < y * (q + 1)
      BY <3>1
    <3> HIDE DEF q
    <3>3. q <= ONE
      BY <3>1 DEF q
    <3>4. y * (q + 1) <= y * (ONE + 1)
      BY <1>1, <3>1, <3>2, <3>3
    <3>5. y * (q + 1) \in Nat /\ y * (ONE + 1) \in Nat
      BY <1>1, <3>1, <3>2
    <3> QED BY <3>1, <3>2, <3>4, <3>5
  <2>6. ASSUME n > r PROVE FALSE
    <3>1. n >= r + 1
      BY <1>1, <2>6
    <3>2. n * ONE >= (r + 1) * ONE
      BY <1>1, <3>1
    <3>3. (r + 1) * ONE = y + ONE /\ y \in Nat /\ n * ONE \in Nat
      BY <1>1
    <3> DEFINE z == n * ONE
    <3>4. z \in Nat /\ z >= y + ONE /\ x = z * ONE
      BY <3>2, <3>3
    <3> HIDE DEF x, y, z
    <3>5. z * ONE >= (y + ONE) * ONE
      BY <1>1, <3>3, <3>4
    <3>6. (y + ONE) * ONE = y * ONE + ONE * ONE
      BY <1>1, <3>3
    <3>7. y <= ONE * ONE
      BY <1>1 DEF y
    <3>8. y * (ONE + 1) = y * ONE + y
      BY <1>1, <3>3
    <3>9. x >= y * (ONE + 1)
      <4>1. y * ONE \in Nat /\ ONE * ONE \in Nat /\ z * ONE \in Nat
        BY <1>1, <3>3, <3>4
      <4> QED BY <3>3, <3>4, <3>5, <3>6, <3>7, <3>8, <4>1
    <3> QED
      <4>1. x \in Nat /\ h \in Nat /\ y * (ONE + 1) \in Nat
        BY <1>1, <2>4, <3>3 DEF x
      <4> HIDE DEF h
      <4> QED BY <2>5, <3>9, <4>1
  <2> QED BY <1>1, <2>6 DEF r
<1> QED BY <1>2, <1>3

LEMMA WithdrawSingleSolvent ==
    ASSUME TypeOK, OpenedInv, NEW acc \in WithdrawSingleAccounts, NEW arg,
           arg.destination_token_amount \in U64,
           NEW ins, ins.acc.amm = acc.amm, ins.name = "withdraw_single"
    PROVE  Solvent(ins, WithdrawSingleSteps(acc, arg), Loaded)
<1> DEFINE p       == acc.amm
           n       == arg.destination_token_amount
           maximum == arg.maximum
           signers == {acc.owner, SeedSigner(p)}
           side    == SideOf(acc.destination, acc.swap_token_a, acc.swap_token_b)
           on_a    == side = Some("AtoB")
           burnt_by(d) == CurveWithdrawSingle(n, bal[acc.swap_token_a], bal[acc.swap_token_b],
                                              supply[acc.pool_mint], d, amm[p].fees)
           burnt   == UNION { burnt_by(d) : d \in side }
           fees    == UNION { WithdrawFee(acc, acc.source, k) : k \in burnt }
           burn_amount  == Given(burnt, 0)
           withdraw_fee == Given(fees, 0)
           pool_token_amount == burn_amount + withdraw_fee
           vault   == IF on_a THEN acc.swap_token_a ELSE acc.swap_token_b
           first   == << Require(WithdrawSingleConstraints(acc), "Constraint"),
                         Require(side # {}, "IncorrectSwapAccount") >>
           second  == CheckAccountsSteps(p, acc.swap_token_a, acc.swap_token_b, acc.pool_mint,
                                         IF on_a THEN {acc.destination} ELSE {},
                                         IF on_a THEN {} ELSE {acc.destination}, {acc.fee_account})
           checks  == << Require(burnt # {}, "ZeroTradingTokens"),
                         Require(fees # {}, "FeeCalculationFailure"),
                         Require(pool_token_amount \in U64, "Panic"),
                         Require(pool_token_amount <= maximum, "ExceededSlippage"),
                         Require(pool_token_amount # 0, "ZeroTradingTokens") >>
           charge  == When(withdraw_fee > 0,
                           << Pay(acc.source, acc.fee_account, withdraw_fee, acc.owner,
                                  {acc.owner}) >>)
           redeem  == Redeem(acc.pool_mint, acc.source, burn_amount, acc.owner)
           pay     == Pay(vault, acc.destination, n, Authority(p), signers)
<1>1. WithdrawSingleSteps(acc, arg) = first \o second \o checks \o charge \o <<redeem, pay>>
  BY DEF WithdrawSingleSteps
<1> HIDE DEF burnt, fees, burn_amount, withdraw_fee, pool_token_amount, redeem, pay
<1>2. IsSequence(first) /\ IsSequence(second) /\ AreChecks(second) /\ IsSequence(charge)
  <2>1. IsSequence(first)
    BY TwoStepsAreASequence
  <2>2. AreChecks(second)
    BY CheckAccountsStepsFacts
  <2>3. IsSequence(charge)
    BY OneStepIsASequence, WhenIsASequence
  <2> QED BY <2>1, <2>2, <2>3 DEF AreChecks
<1>3. AreChecks(checks) /\ Len(checks) = 5
  <2> DEFINE S == {checks[i] : i \in 1 .. 5}
  <2>1. checks \in Seq(S) /\ Len(checks) = 5
    OBVIOUS
  <2>2. \A i \in 1 .. 5 : checks[i].kind = "require"
    BY DEF Require
  <2>3. \A i \in 1 .. 5 : checks[i].error \in Errors
    BY DEF Require, Errors, SwapError
  <2> HIDE DEF checks, S
  <2> QED BY <2>1, <2>2, <2>3 DEF AreChecks, IsSequence
<1>33. AreChecks(first) /\ Len(first) = 2
  <2>1. first \in Seq({first[1], first[2]}) /\ Len(first) = 2
    OBVIOUS
  <2>2. \A i \in 1 .. 2 : first[i].kind = "require"
    BY DEF Require
  <2>3. \A i \in 1 .. 2 : first[i].error \in Errors
    BY DEF Require, Errors, SwapError
  <2> QED BY <2>1, <2>2, <2>3 DEF AreChecks, IsSequence
<1> HIDE DEF first, second, checks, charge
<1>4. /\ IsSequence(first \o second) /\ IsSequence(first \o second \o checks)
      /\ IsSequence(first \o second \o checks \o charge) /\ IsSequence(<<redeem, pay>>)
  BY <1>2, <1>3, ConcatFacts, TwoStepsAreASequence DEF AreChecks
<1> DEFINE checked == first \o second \o checks
           charged == checked \o charge
<1>5. acc.owner \in Users /\ p \in Pools /\ ins.acc.amm = p
  BY DEF WithdrawSingleAccounts
<1>6. \A u : /\ Solvent(ins, first, u) /\ Solvent(ins, second, u) /\ Solvent(ins, checks, u)
             /\ Solvent(ins, charge, u) /\ Solvent(ins, <<redeem>>, u)
  <2> TAKE u
  <2>1. Solvent(ins, first, u)
    BY <1>33, SolventChecks
  <2>2. Solvent(ins, second, u) /\ Solvent(ins, checks, u)
    BY <1>2, <1>3, SolventChecks
  <2>3. Solvent(ins, charge, u)
    <3> DEFINE due == withdraw_fee > 0
               pay_fee == Pay(acc.source, acc.fee_account, withdraw_fee, acc.owner, {acc.owner})
    <3>1. Solvent(ins, <<pay_fee>>, u) /\ due \in BOOLEAN
      BY <1>5, UsersCanPay, SolventOne
    <3>2. charge = When(due, <<pay_fee>>)
      BY DEF charge
    <3> HIDE DEF due, pay_fee
    <3> QED BY <3>1, <3>2, SolventWhen
  <2>4. Solvent(ins, <<redeem>>, u)
    <3>1. CanPay(ins, redeem, u)
      BY OthersCanPay DEF redeem, Redeem
    <3> QED BY <3>1, SolventOne
  <2> QED BY <2>1, <2>2, <2>3, <2>4
<1>7. IsSequence(<<redeem>>) /\ IsSequence(<<pay>>) /\ <<redeem, pay>> = <<redeem>> \o <<pay>>
  BY OneStepIsASequence, TwoStepsAreASequence
<1>8. Solvent(ins, charged, Loaded)
  <2>1. Solvent(ins, first \o second, Loaded)
    BY <1>2, <1>6, SolventConcat
  <2>2. Solvent(ins, checked, Loaded)
    BY <1>3, <1>4, <1>6, <2>1, SolventConcat DEF AreChecks
  <2> QED BY <1>2, <1>4, <1>6, <2>2, SolventConcat
<1>9. ASSUME NEW u, Executes(checked, Loaded, u)
      PROVE  /\ u = Loaded /\ Live(p) /\ acc.source.mint = PoolMint(p)
             /\ acc.swap_token_a = Vault0(p) /\ acc.swap_token_b = Vault1(p)
             /\ side # {} /\ burnt # {}
  <2>3. PICK v : Executes(first \o second, Loaded, v) /\ Executes(checks, v, u)
    BY <1>2, <1>3, <1>4, <1>9, ExecutesConcat DEF AreChecks
  <2>4. PICK x : Executes(first, Loaded, x) /\ Executes(second, x, v)
    BY <1>2, <2>3, ExecutesConcat
  <2>5. WithdrawSingleConstraints(acc) /\ side # {} /\ x = Loaded
    <3>1. x = Loaded /\ \A i \in 1 .. 2 : first[i].ok
      BY <1>33, <2>4, ExecutesChecks DEF AreChecks
    <3>2. first[1].ok /\ first[2].ok
      BY <3>1
    <3>3. WithdrawSingleConstraints(acc) \in BOOLEAN /\ (side # {}) \in BOOLEAN
      BY DEF WithdrawSingleConstraints
    <3> QED BY <3>1, <3>2, <3>3 DEF first, Require
  <2>6. /\ v = x
        /\ CheckAccounts(p, acc.swap_token_a, acc.swap_token_b, acc.pool_mint,
                         IF on_a THEN {acc.destination} ELSE {},
                         IF on_a THEN {} ELSE {acc.destination}, {acc.fee_account})
    BY <1>2, <2>4, ExecutesChecks, CheckAccountsStepsFacts DEF AreChecks, second
  <2>7. u = v /\ burnt # {}
    <3>1. u = v /\ \A i \in 1 .. 5 : checks[i].ok
      BY <1>3, <2>3, ExecutesChecks DEF AreChecks
    <3>2. checks[1].ok
      BY <3>1
    <3> QED BY <3>1, <3>2 DEF checks, Require
  <2>9. Live(p) /\ acc.source.mint = acc.pool_mint
    BY <2>5 DEF WithdrawSingleConstraints, Live
  <2>10. /\ acc.swap_token_a = amm[p].token_a_account /\ acc.swap_token_b = amm[p].token_b_account
         /\ acc.pool_mint = amm[p].pool_mint
    BY <2>6 DEF CheckAccounts
  <2> QED BY <1>5, <2>5, <2>6, <2>7, <2>9, <2>10, OpenPoolAccounts
<1>10. ASSUME NEW u, Executes(charged, Loaded, u) PROVE Solvent(ins, <<redeem, pay>>, u)
  <2>1. PICK l : Executes(checked, Loaded, l) /\ Executes(charge, l, u)
    BY <1>2, <1>4, <1>10, ExecutesConcat
  <2>2. /\ l = Loaded /\ Live(p) /\ acc.source.mint = PoolMint(p)
        /\ acc.swap_token_a = Vault0(p) /\ acc.swap_token_b = Vault1(p)
        /\ side # {} /\ burnt # {}
    BY <1>9, <2>1
  <2>3. Executes(charge, Loaded, u)
    BY <2>1, <2>2
  <2>4. acc.source # vault /\ vault \in TokenAccounts
    <3>1. vault \in {Vault0(p), Vault1(p)}
      BY <2>2
    <3>2. acc.source.mint \notin {Vault0(p).mint, Vault1(p).mint}
      BY <1>5, <2>2, OpenPoolAccounts
    <3>3. vault \in TokenAccounts
      BY DEF WithdrawSingleAccounts
    <3> HIDE DEF vault
    <3> QED BY <3>1, <3>2, <3>3
  <2> HIDE DEF vault
  <2>5. Spares(charge \o <<redeem>>, vault)
    <3> DEFINE due == withdraw_fee > 0
               pay_fee == Pay(acc.source, acc.fee_account, withdraw_fee, acc.owner, {acc.owner})
    <3>1. Spares(<<pay_fee>>, vault) /\ due \in BOOLEAN
      BY <2>4, OneStepSpares DEF Pay
    <3>2. charge = When(due, <<pay_fee>>)
      BY DEF charge
    <3> HIDE DEF due, pay_fee
    <3>3. Spares(charge, vault)
      BY <3>1, <3>2, WhenSpares
    <3>4. Spares(<<redeem>>, vault)
      BY <2>4, OneStepSpares DEF redeem, Redeem
    <3> QED BY <3>3, <3>4, ConcatSpares
  <2>6. PICK d \in {"AtoB", "BtoA"} : side = {d}
    BY <2>2, OneSide
  <2>7. bal[vault] = SwapSourceAmount(bal[acc.swap_token_a], bal[acc.swap_token_b], d)
    BY <2>6 DEF SwapSourceAmount, vault, Some
  <2>8. burnt_by(d) # {}
    <3> HIDE DEF side, burnt_by
    <3> QED BY <2>2, <2>6 DEF burnt
  <2>9. ASSUME amm[p].fees.trade_fee.numerator = 0, bal[vault] <= ONE
        PROVE  n <= bal[vault]
    <3>1. /\ bal[acc.swap_token_a] \in Nat /\ bal[acc.swap_token_b] \in Nat /\ n \in Nat
      BY U64Assumption DEF TypeOK, Balances, WithdrawSingleAccounts, U64
    <3>2. CurveWithdrawSingle(n, bal[acc.swap_token_a], bal[acc.swap_token_b],
                              supply[acc.pool_mint], d, amm[p].fees) # {}
      BY <2>8
    <3>3. SwapSourceAmount(bal[acc.swap_token_a], bal[acc.swap_token_b], d) <= ONE
      BY <2>7, <2>9
    <3>4. n <= SwapSourceAmount(bal[acc.swap_token_a], bal[acc.swap_token_b], d)
      BY <2>9, <3>1, <3>2, <3>3, RootsExistWithinTheReserve
    <3> QED BY <2>7, <3>4
  <2>10. ASSUME NEW r, Executes(<<redeem>>, u, r) PROVE Solvent(ins, <<pay>>, r)
    <3>1. Executes(charge \o <<redeem>>, Loaded, r)
      <4>1. CanExecute(redeem, u) /\ r = Effect(redeem, u)
        BY <2>10, ExecutesOne
      <4> QED BY <1>2, <1>7, <2>3, <2>10, ExecutesBoth
    <3>2. r.bal[vault] \in Int /\ r.bal[vault] >= bal[vault] /\ bal[vault] \in Int
      <4>1. IsView(Loaded)
        BY LoadedIsNumbers
      <4>2. r.bal[vault] \in Int /\ r.bal[vault] >= Loaded.bal[vault]
        BY <2>4, <2>5, <3>1, <4>1, SparedAccountsKeep
      <4>3. Loaded.bal[vault] = bal[vault] /\ bal[vault] \in Int
        BY <2>4, <4>1 DEF Loaded, IsView
      <4> QED BY <4>2, <4>3
    <3>3. \/ n <= r.bal[vault]
          \/ amm[p].fees.trade_fee.numerator # 0
          \/ r.bal[vault] > ONE
      BY <2>9, <3>2, U64Assumption, OneAssumption DEF U64
    <3>4. CanPay(ins, pay, r)
      BY <1>5, <3>3 DEF CanPay, pay, Pay
    <3> QED BY <3>4, SolventOne
  <2>11. Solvent(ins, <<redeem>>, u)
    BY <1>6
  <2> QED BY <1>7, <2>10, <2>11, SolventConcat
<1> QED BY <1>1, <1>4, <1>8, <1>10, SolventConcat

LEMMA SwapSolvent ==
    ASSUME TypeOK, OpenedInv, NEW acc \in SwapAccounts, amm[acc.amm].is_initialized, NEW arg,
           NEW ins, ins.acc.amm = acc.amm
    PROVE  Solvent(ins, SwapSteps(acc, arg), Loaded)
<1> DEFINE p       == acc.amm
           a       == amm[p]
           m       == acc.pool_mint
           signers == {acc.owner, SeedSigner(p)}
           trade   == CurveSwap(arg.amount_in, bal[acc.swap_source], bal[acc.swap_destination], a.fees)
           fee_tokens == UNION { OwnerFeePoolTokens(acc, r) : r \in trade }
           result  == Given(trade, [source_amount_swapped |-> 0, destination_amount_swapped |-> 0])
           pool_token_amount == Given(fee_tokens, 0)
           named   == acc.host_fee_account # NoHost /\ pool_token_amount > 0
           hosts   == HostFee(a.fees, pool_token_amount)
           host_fee == IF named THEN Given(hosts, 0) ELSE 0
           owner_fee == pool_token_amount - host_fee
           checks  == << Require(SwapOwnersHold(acc), "Constraint"),
                         Require(Authority(p) = AuthorityId(p), "InvalidProgramAddress"),
                         Require(acc.swap_source \in {a.token_a_account, a.token_b_account},
                                 "IncorrectSwapAccount"),
                         Require(acc.swap_destination \in {a.token_a_account, a.token_b_account},
                                 "IncorrectSwapAccount"),
                         Require(acc.swap_source # acc.swap_destination, "InvalidInput"),
                         Require(acc.swap_source # acc.vault_source_info, "InvalidInput"),
                         Require(acc.swap_destination # acc.vault_destination_info, "InvalidInput"),
                         Require(acc.pool_mint = a.pool_mint, "IncorrectPoolMint"),
                         Require(acc.fee_account = a.pool_fee_account, "IncorrectFeeAccount"),
                         Require(trade # {}, "ZeroTradingTokens"),
                         Require(arg.minimum <= result.destination_amount_swapped,
                                 "ExceededSlippage") >>
           pay_in  == Pay(acc.vault_source_info, acc.swap_source, result.source_amount_swapped,
                          acc.owner, signers)
           priced  == Require(fee_tokens # {}, "FeeCalculationFailure")
           host_mint  == Require(acc.host_fee_account.mint = acc.pool_mint, "IncorrectPoolMint")
           host_known == Require(hosts # {}, "FeeCalculationFailure")
           host_part  == Require(host_fee <= pool_token_amount, "FeeCalculationFailure")
           naming  == When(named, <<host_mint, host_known, host_part>>)
           hosting == When(host_fee > 0,
                           << Require(host_fee \in U64, "Panic"),
                              Require(acc.writable, "TokenError"),
                              Issue(m, acc.host_fee_account, host_fee, Authority(p), signers) >>)
           owning  == When(pool_token_amount > 0,
                           << Require(owner_fee \in U64, "Panic"),
                              Require(acc.writable, "TokenError"),
                              Issue(m, acc.fee_account, owner_fee, Authority(p), signers) >>)
           pay_out == Pay(acc.swap_destination, acc.vault_destination_info,
                          result.destination_amount_swapped, Authority(p), signers)
<1>1. SwapSteps(acc, arg) = checks \o <<pay_in, priced>> \o naming \o hosting \o owning \o <<pay_out>>
  BY DEF SwapSteps
<1> HIDE DEF trade, fee_tokens, result, pool_token_amount, hosts, host_fee, owner_fee, pay_in, priced,
             host_mint, host_known, host_part, pay_out
<1>2. AreChecks(checks) /\ Len(checks) = 11
  <2> HIDE DEF a, p
  <2> DEFINE S == {checks[i] : i \in 1 .. 11}
  <2>1. checks \in Seq(S) /\ Len(checks) = 11
    OBVIOUS
  <2>2. \A i \in 1 .. 11 : checks[i].kind = "require"
    BY DEF Require
  <2>3. \A i \in 1 .. 11 : checks[i].error \in Errors
    BY DEF Require, Errors, SwapError
  <2> HIDE DEF checks, S
  <2> QED BY <2>1, <2>2, <2>3 DEF AreChecks, IsSequence
<1> HIDE DEF checks, named
<1>3. acc.owner \in Users /\ p \in Pools
  BY DEF SwapAccounts
\* before the payment nothing leaves the vault it is made from
<1>4. ASSUME NEW s, s.kind # "transfer"
      PROVE  \A u : Solvent(ins, <<s>>, u)
  BY <1>4, OthersCanPay, SolventOne
<1>5. \A u : Solvent(ins, <<pay_in, priced>>, u)
  <2> TAKE u
  <2>1. \A v : CanPay(ins, pay_in, v)
    BY <1>3, UsersCanPay DEF pay_in
  <2>2. \A v : Solvent(ins, <<pay_in>>, v)
    BY <2>1, SolventOne
  <2>3. \A v : Solvent(ins, <<priced>>, v)
    BY <1>4 DEF priced, Require
  <2> QED BY <2>2, <2>3, OneStepIsASequence, TwoStepsAreASequence, SolventConcat
<1>6. ASSUME NEW c \in BOOLEAN, NEW r, NEW s, NEW t,
             r.kind \in {"require", "mint_to"}, s.kind \in {"require", "mint_to"},
             t.kind \in {"require", "mint_to"}
      PROVE  /\ IsSequence(When(c, <<r, s, t>>))
             /\ \A u : Solvent(ins, When(c, <<r, s, t>>), u)
             /\ \A v : Spares(When(c, <<r, s, t>>), v)
  <2>1. /\ IsSequence(<<r>>) /\ IsSequence(<<s>>) /\ IsSequence(<<t>>) /\ IsSequence(<<r, s>>)
        /\ IsSequence(<<r, s, t>>) /\ <<r, s>> = <<r>> \o <<s>> /\ <<r, s, t>> = <<r, s>> \o <<t>>
    <3>1. IsSequence(<<r>>) /\ IsSequence(<<s>>) /\ IsSequence(<<t>>)
      BY OneStepIsASequence
    <3>2. IsSequence(<<r, s>>) /\ <<r, s>> = <<r>> \o <<s>>
      BY TwoStepsAreASequence
    <3>3. IsSequence(<<r, s, t>>) /\ <<r, s, t>> = <<r, s>> \o <<t>>
      BY ThreeStepsAreASequence
    <3> QED BY <3>1, <3>2, <3>3
  <2>2. IsSequence(When(c, <<r, s, t>>))
    BY <2>1, WhenIsASequence
  <2>3. ASSUME NEW u PROVE Solvent(ins, When(c, <<r, s, t>>), u)
    <3>1. \A v : Solvent(ins, <<r>>, v) /\ Solvent(ins, <<s>>, v) /\ Solvent(ins, <<t>>, v)
      BY <1>4, <1>6
    <3>2. \A v : Solvent(ins, <<r, s>>, v)
      BY <2>1, <3>1, SolventConcat
    <3>3. \A v : Solvent(ins, <<r, s, t>>, v)
      BY <2>1, <3>1, <3>2, SolventConcat
    <3> QED BY <3>3, SolventWhen
  <2>4. ASSUME NEW v PROVE Spares(When(c, <<r, s, t>>), v)
    <3>1. Spares(<<r>>, v) /\ Spares(<<s>>, v) /\ Spares(<<t>>, v)
      BY <1>6, OneStepSpares
    <3>2. Spares(<<r, s, t>>, v)
      BY <2>1, <3>1, ConcatSpares
    <3> QED BY <3>2, WhenSpares
  <2> QED BY <2>2, <2>3, <2>4
<1>7. /\ IsSequence(naming) /\ \A u : Solvent(ins, naming, u)
      /\ \A v : Spares(naming, v)
  <2>1. named \in BOOLEAN /\ host_mint.kind = "require" /\ host_known.kind = "require"
        /\ host_part.kind = "require"
    BY DEF named, host_mint, host_known, host_part, Require
  <2> QED BY <1>6, <2>1
<1>8. /\ IsSequence(hosting) /\ \A u : Solvent(ins, hosting, u)
      /\ \A v : Spares(hosting, v)
  <2> DEFINE some == host_fee > 0
             wide == Require(host_fee \in U64, "Panic")
             writable == Require(acc.writable, "TokenError")
             issue == Issue(m, acc.host_fee_account, host_fee, Authority(p), signers)
  <2>1. some \in BOOLEAN /\ wide.kind = "require" /\ writable.kind = "require"
        /\ issue.kind = "mint_to"
    BY DEF Require, Issue
  <2>2. hosting = When(some, <<wide, writable, issue>>)
    OBVIOUS
  <2> HIDE DEF some, wide, writable, issue, hosting
  <2> QED BY <1>6, <2>1, <2>2
<1>9. /\ IsSequence(owning) /\ \A u : Solvent(ins, owning, u)
      /\ \A v : Spares(owning, v)
  <2> DEFINE some == pool_token_amount > 0
             wide == Require(owner_fee \in U64, "Panic")
             writable == Require(acc.writable, "TokenError")
             issue == Issue(m, acc.fee_account, owner_fee, Authority(p), signers)
  <2>1. some \in BOOLEAN /\ wide.kind = "require" /\ writable.kind = "require"
        /\ issue.kind = "mint_to"
    BY DEF Require, Issue
  <2>2. owning = When(some, <<wide, writable, issue>>)
    OBVIOUS
  <2> HIDE DEF some, wide, writable, issue, owning
  <2> QED BY <1>6, <2>1, <2>2
<1> HIDE DEF naming, hosting, owning
<1>10. IsSequence(checks) /\ IsSequence(<<pay_in, priced>>) /\ IsSequence(<<pay_out>>)
  BY <1>2, OneStepIsASequence, TwoStepsAreASequence DEF AreChecks
<1> DEFINE charged == checks \o <<pay_in, priced>>
           before  == charged \o naming \o hosting \o owning
<1>11. /\ IsSequence(charged) /\ IsSequence(charged \o naming)
       /\ IsSequence(charged \o naming \o hosting) /\ IsSequence(before)
  BY <1>7, <1>8, <1>9, <1>10, ConcatFacts
<1>12. Solvent(ins, before, Loaded)
  <2>1. Solvent(ins, checks, Loaded)
    BY <1>2, SolventChecks
  <2>2. Solvent(ins, charged, Loaded)
    BY <1>5, <1>10, <2>1, SolventConcat
  <2> HIDE DEF charged
  <2>3. Solvent(ins, charged \o naming, Loaded)
    BY <1>7, <1>11, <2>2, SolventConcat
  <2>4. Solvent(ins, charged \o naming \o hosting, Loaded)
    BY <1>8, <1>11, <2>3, SolventConcat
  <2> QED BY <1>9, <1>11, <2>4, SolventConcat
<1>13. ASSUME NEW w, Executes(before, Loaded, w) PROVE Solvent(ins, <<pay_out>>, w)
  <2>1. PICK x : Executes(checks, Loaded, x)
    <3> HIDE DEF charged
    <3>1. PICK w_h : Executes(charged \o naming \o hosting, Loaded, w_h)
      BY <1>9, <1>11, <1>13, ExecutesConcat
    <3>2. PICK w_n : Executes(charged \o naming, Loaded, w_n)
      BY <1>8, <1>11, <3>1, ExecutesConcat
    <3>3. PICK w_c : Executes(charged, Loaded, w_c)
      BY <1>7, <1>11, <3>2, ExecutesConcat
    <3> QED BY <1>10, <3>3, ExecutesConcat DEF charged
  <2>2. /\ checks[1].ok /\ checks[4].ok /\ checks[3].ok /\ checks[10].ok
    <3>1. \A i \in 1 .. 11 : checks[i].ok
      BY <1>2, <2>1, ExecutesChecks DEF AreChecks
    <3> QED BY <3>1
  <2>3. /\ SwapOwnersHold(acc) /\ trade # {}
        /\ acc.swap_source \in {a.token_a_account, a.token_b_account}
        /\ acc.swap_destination \in {a.token_a_account, a.token_b_account}
    <3>1. SwapOwnersHold(acc) \in BOOLEAN
      BY DEF SwapOwnersHold
    <3> QED BY <2>2, <3>1 DEF checks, Require
  <2> DEFINE t == acc.swap_destination
  <2>4. t \in TokenAccounts /\ acc.vault_source_info # t
    <3>1. t \in {Vault0(p), Vault1(p)} /\ acc.swap_source \in {Vault0(p), Vault1(p)}
      BY <1>3, <2>3, OpenPoolAccounts DEF Live
    <3>2. /\ t.owner = Authority(p) /\ acc.swap_source.owner = Authority(p)
          /\ acc.owner # Authority(p)
      BY <1>3, <3>1, OpenPoolAccounts DEF Live
    <3>3. "swap_roles" \in repairs
      BY <2>3, <3>2 DEF SwapOwnersHold
    <3>4. acc.vault_source_info.owner = acc.owner
      BY <2>3, <3>3 DEF SwapOwnersHold
    <3> QED BY <3>2, <3>4 DEF SwapAccounts
  <2>5. Spares(before, t)
    <3>1. Spares(checks, t)
      BY <1>2, ChecksSpare
    <3>2. Spares(<<pay_in>>, t)
      BY <2>4, OneStepSpares DEF pay_in, Pay
    <3>3. Spares(<<priced>>, t)
      BY OneStepSpares DEF priced, Require
    <3>4. Spares(<<pay_in, priced>>, t)
      BY <3>2, <3>3, ConcatSpares, TwoStepsAreASequence
    <3>5. Spares(charged, t)
      BY <3>1, <3>4, ConcatSpares
    <3> HIDE DEF charged, t
    <3> QED BY <1>7, <1>8, <1>9, <3>5, ConcatSpares
  <2> HIDE DEF before
  <2>6. w.bal[t] \in Int /\ w.bal[t] >= bal[t] /\ bal[t] \in Nat
    <3>1. IsView(Loaded)
      BY LoadedIsNumbers
    <3>2. w.bal[t] \in Int /\ w.bal[t] >= Loaded.bal[t]
      BY <1>13, <2>4, <2>5, <3>1, SparedAccountsKeep
    <3>3. Loaded.bal[t] = bal[t] /\ bal[t] \in Nat
      BY <2>4, U64Assumption DEF Loaded, TypeOK, Balances, U64
    <3> QED BY <3>2, <3>3
  <2>7. result.destination_amount_swapped \in 1 .. bal[t] - 1
    <3>1. result \in trade
      BY <2>3 DEF Given, result
    <3>2. bal[acc.swap_source] \in Nat
      BY U64Assumption DEF TypeOK, Balances, U64, SwapAccounts
    <3> QED BY <2>6, <3>1, <3>2, CurveSwapLeavesSome DEF trade
  <2>8. result.destination_amount_swapped <= w.bal[t]
    <3> HIDE DEF t
    <3> QED BY <2>6, <2>7
  <2> QED BY <2>8, PoolCanPay, SolventOne DEF pay_out
<1> HIDE DEF charged
<1>14. Solvent(ins, before \o <<pay_out>>, Loaded)
  BY <1>10, <1>11, <1>12, <1>13, SolventConcat
<1> QED BY <1>1, <1>14 DEF charged

\* the steps make no payment that the pool signs
Unpaid(ins, steps) ==
    /\ IsSequence(steps)
    /\ \A i \in 1 .. Len(steps) : \A v : CanPay(ins, steps[i], v)

LEMMA UnpaidIsSolvent ==
    ASSUME NEW ins, NEW s, Unpaid(ins, s), NEW v PROVE Solvent(ins, s, v)
BY DEF Unpaid, Solvent

LEMMA ConcatUnpaid ==
    ASSUME NEW ins, NEW a, NEW b, Unpaid(ins, a), Unpaid(ins, b) PROVE Unpaid(ins, a \o b)
<1> DEFINE n == Len(a)
           m == Len(b)
<1>1. /\ n \in Nat /\ m \in Nat /\ IsSequence(a \o b) /\ Len(a \o b) = n + m
      /\ \A i \in 1 .. n : (a \o b)[i] = a[i]
      /\ \A i \in 1 .. m : (a \o b)[n + i] = b[i]
  BY SequenceFacts, ConcatFacts DEF Unpaid
<1>2. ASSUME NEW i \in 1 .. n + m PROVE \A v : CanPay(ins, (a \o b)[i], v)
  <2>1. CASE i <= n
    BY <1>1, <2>1 DEF Unpaid
  <2>2. CASE ~(i <= n)
    <3>1. i - n \in 1 .. m /\ n + (i - n) = i
      BY <1>1, <2>2
    <3>2. (a \o b)[i] = b[i - n]
      BY <1>1, <3>1
    <3> QED BY <3>1, <3>2 DEF Unpaid
  <2> QED BY <2>1, <2>2
<1> QED BY <1>1, <1>2 DEF Unpaid

LEMMA OneStepUnpaid ==
    ASSUME NEW ins, NEW s, \A v : CanPay(ins, s, v) PROVE Unpaid(ins, <<s>>)
<1>1. IsSequence(<<s>>) /\ Len(<<s>>) = 1 /\ <<s>>[1] = s
  BY OneStepIsASequence
<1> QED BY <1>1 DEF Unpaid

LEMMA ChecksUnpaid == ASSUME NEW ins, NEW s, AreChecks(s) PROVE Unpaid(ins, s)
BY OthersCanPay DEF AreChecks, Unpaid

LEMMA DepositAllSolvent ==
    ASSUME NEW acc \in DepositAllAccounts, NEW arg, NEW ins, ins.acc.amm = acc.amm, NEW v
    PROVE  Solvent(ins, DepositAllSteps(acc, arg), v)
<1> DEFINE p       == acc.amm
           signers == {acc.owner, SeedSigner(p)}
           live    == supply[acc.pool_mint] > 0
           pool_token_amount == IF live THEN arg.pool_token_amount ELSE NewPoolSupply
           pool_mint_supply  == IF live THEN supply[acc.pool_mint] ELSE NewPoolSupply
           results == PoolTokensToTradingTokens(pool_token_amount, pool_mint_supply,
                          bal[acc.vault_token_a], bal[acc.vault_token_b], "Ceiling")
           pay     == Given(results, [token_a_amount |-> 0, token_b_amount |-> 0])
           hold    == Require(DepositAllConstraints(acc), "Constraint")
           second  == CheckAccountsSteps(p, acc.vault_token_a, acc.vault_token_b, acc.pool_mint,
                                         {acc.source_a_info}, {acc.source_b_info}, {})
           checks  == << Require(results # {}, "ZeroTradingTokens"),
                         Require(pay.token_a_amount \in U64, "Panic"),
                         Require(pay.token_a_amount <= arg.maximum_a, "ExceededSlippage"),
                         Require(pay.token_a_amount # 0, "ZeroTradingTokens"),
                         Require(pay.token_b_amount \in U64, "Panic"),
                         Require(pay.token_b_amount <= arg.maximum_b, "ExceededSlippage"),
                         Require(pay.token_b_amount # 0, "ZeroTradingTokens") >>
           pay_a   == Pay(acc.source_a_info, acc.vault_token_a, pay.token_a_amount, acc.owner,
                          signers)
           pay_b   == Pay(acc.source_b_info, acc.vault_token_b, pay.token_b_amount, acc.owner,
                          signers)
           issue   == Issue(acc.pool_mint, acc.destination, pool_token_amount, Authority(p), signers)
<1>1. DepositAllSteps(acc, arg) = <<hold>> \o second \o checks \o <<pay_a, pay_b, issue>>
  BY DEF DepositAllSteps
<1> HIDE DEF results, pay, pool_token_amount, pool_mint_supply
<1>2. AreChecks(checks)
  <2> DEFINE S == {checks[i] : i \in 1 .. 7}
  <2>1. checks \in Seq(S) /\ Len(checks) = 7
    OBVIOUS
  <2>2. \A i \in 1 .. 7 : checks[i].kind = "require"
    BY DEF Require
  <2>3. \A i \in 1 .. 7 : checks[i].error \in Errors
    BY DEF Require, Errors, SwapError
  <2> HIDE DEF checks, S
  <2> QED BY <2>1, <2>2, <2>3 DEF AreChecks, IsSequence
<1>3. hold.kind = "require" /\ issue.kind = "mint_to"
  BY DEF Require, Issue
<1>4. AreChecks(second)
  BY CheckAccountsStepsFacts
<1>5. acc.owner \in Users /\ ins.acc.amm \in Pools
  BY DEF DepositAllAccounts
<1>6. Unpaid(ins, <<pay_a>>) /\ Unpaid(ins, <<pay_b>>)
  BY <1>5, UsersCanPay, OneStepUnpaid
<1> HIDE DEF hold, second, checks, pay_a, pay_b, issue
<1>7. Unpaid(ins, <<hold>>) /\ Unpaid(ins, second) /\ Unpaid(ins, checks) /\ Unpaid(ins, <<issue>>)
  BY <1>2, <1>3, <1>4, ChecksUnpaid, OthersCanPay, OneStepUnpaid
<1>8. Unpaid(ins, <<pay_a, pay_b, issue>>)
  <2>1. Unpaid(ins, <<pay_a, pay_b>>)
    BY <1>6, ConcatUnpaid, TwoStepsAreASequence
  <2>2. <<pay_a, pay_b, issue>> = <<pay_a, pay_b>> \o <<issue>>
    BY ThreeStepsAreASequence
  <2> QED BY <1>7, <2>1, <2>2, ConcatUnpaid
<1> QED BY <1>1, <1>7, <1>8, ConcatUnpaid, UnpaidIsSolvent

LEMMA DepositSingleSolvent ==
    ASSUME NEW acc \in DepositSingleAccounts, NEW arg, NEW ins, ins.acc.amm = acc.amm, NEW v
    PROVE  Solvent(ins, DepositSingleSteps(acc, arg), v)
<1> DEFINE p       == acc.amm
           n       == arg.source_token_amount
           side    == SideOf(acc.source, acc.swap_token_a, acc.swap_token_b)
           on_a    == side = Some("AtoB")
           tokens  == IF supply[acc.pool_mint] = 0 THEN Some(NewPoolSupply)
                      ELSE UNION { CurveDepositSingle(n, bal[acc.swap_token_a],
                                     bal[acc.swap_token_b], supply[acc.pool_mint], d, amm[p].fees) :
                                   d \in side }
           pool_token_amount == Given(tokens, 0)
           vault   == IF on_a THEN acc.swap_token_a ELSE acc.swap_token_b
           hold    == Require(DepositSingleConstraints(acc), "Constraint")
           known   == Require(side # {}, "IncorrectSwapAccount")
           second  == CheckAccountsSteps(p, acc.swap_token_a, acc.swap_token_b, acc.pool_mint,
                                         IF on_a THEN {acc.source} ELSE {},
                                         IF on_a THEN {} ELSE {acc.source}, {})
           checks  == << Require(tokens # {}, "ZeroTradingTokens"),
                         Require(pool_token_amount \in U64, "Panic"),
                         Require(arg.minimum <= pool_token_amount, "ExceededSlippage"),
                         Require(pool_token_amount # 0, "ZeroTradingTokens") >>
           pay     == Pay(acc.source, vault, n, acc.owner, {acc.owner})
           issue   == Issue(acc.pool_mint, acc.destination, pool_token_amount, Authority(p),
                            {acc.owner, SeedSigner(p)})
<1>1. DepositSingleSteps(acc, arg) = <<hold, known>> \o second \o checks \o <<pay, issue>>
  BY DEF DepositSingleSteps
<1> HIDE DEF tokens, pool_token_amount
<1>2. AreChecks(checks)
  <2> DEFINE S == {checks[i] : i \in 1 .. 4}
  <2>1. checks \in Seq(S) /\ Len(checks) = 4
    OBVIOUS
  <2>2. \A i \in 1 .. 4 : checks[i].kind = "require"
    BY DEF Require
  <2>3. \A i \in 1 .. 4 : checks[i].error \in Errors
    BY DEF Require, Errors, SwapError
  <2> HIDE DEF checks, S
  <2> QED BY <2>1, <2>2, <2>3 DEF AreChecks, IsSequence
<1>3. hold.kind = "require" /\ known.kind = "require" /\ issue.kind = "mint_to"
  BY DEF Require, Issue
<1>4. AreChecks(second)
  BY CheckAccountsStepsFacts
<1>5. acc.owner \in Users /\ ins.acc.amm \in Pools
  BY DEF DepositSingleAccounts
<1>6. Unpaid(ins, <<pay>>)
  BY <1>5, UsersCanPay, OneStepUnpaid
<1> HIDE DEF hold, known, second, checks, pay, issue
<1>7. /\ Unpaid(ins, <<hold>>) /\ Unpaid(ins, <<known>>) /\ Unpaid(ins, second)
      /\ Unpaid(ins, checks) /\ Unpaid(ins, <<issue>>)
  BY <1>2, <1>3, <1>4, ChecksUnpaid, OthersCanPay, OneStepUnpaid
<1>8. Unpaid(ins, <<hold, known>>) /\ Unpaid(ins, <<pay, issue>>)
  BY <1>6, <1>7, ConcatUnpaid, TwoStepsAreASequence
<1> QED BY <1>1, <1>7, <1>8, ConcatUnpaid, UnpaidIsSolvent

LEMMA InitPoolSolvent ==
    ASSUME NEW acc, NEW arg, NEW ins, NEW v PROVE Solvent(ins, InitPoolSteps(acc, arg), v)
<1> DEFINE p      == acc.amm
           create == Create(p, arg.amount0, arg.amount1)
           c1     == Require(p[1] # p[2], "RepeatedMint")
           c2     == Require(arg.curve_type \in CurveTypes, "Panic")
           c3     == Require(ValidateSupply(arg.amount0, arg.amount1), "EmptySupply")
           c4     == Require(supply[PoolMint(p)] = 0, "InvalidSupply")
           c5     == Require(\A c \in SWAP_CONSTRAINTS : acc.owner = c.owner_key, "InvalidOwner")
           c6     == Require(\A c \in SWAP_CONSTRAINTS : arg.curve_type \in c.valid_curve_types,
                             "UnsupportedCurveType")
           c7     == Require(\A c \in SWAP_CONSTRAINTS : ConstrainFees(arg.fees, c.fees),
                             "InvalidFee")
           c8     == Require(ValidateFees(arg.fees), "InvalidFee")
           checks == <<c1, c2, c3, c4, c5, c6, c7, c8>>
           issue  == Issue(PoolMint(p), Wallet(acc.owner, PoolMint(p)), NewPoolSupply, Authority(p),
                           {Authority(p)})
           record == Record(p, NewAmm(p, acc.owner, arg.fees))
<1>1. InitPoolSteps(acc, arg) = <<create>> \o checks \o <<issue, record>>
  BY DEF InitPoolSteps
<1>2. create.kind = "create" /\ issue.kind = "mint_to" /\ record.kind = "record"
  BY DEF Create, Issue, Record
<1>3. AreChecks(checks)
  <2> DEFINE S == {checks[i] : i \in 1 .. 8}
  <2>1. checks \in Seq(S) /\ Len(checks) = 8
    <3> HIDE DEF c1, c2, c3, c4, c5, c6, c7, c8
    <3> QED OBVIOUS
  <2>2. \A i \in 1 .. 8 : checks[i].kind = "require"
    BY DEF Require
  <2>3. \A i \in 1 .. 8 : checks[i].error \in Errors
    BY DEF Require, Errors, SwapError
  <2> HIDE DEF checks, S
  <2> QED BY <2>1, <2>2, <2>3 DEF AreChecks, IsSequence
<1> HIDE DEF create, checks, issue, record
<1>4. Unpaid(ins, <<create>>) /\ Unpaid(ins, <<issue>>) /\ Unpaid(ins, <<record>>)
  BY <1>2, OthersCanPay, OneStepUnpaid
<1>5. Unpaid(ins, checks)
  BY <1>3, ChecksUnpaid
<1>6. Unpaid(ins, <<issue, record>>)
  BY <1>4, ConcatUnpaid, TwoStepsAreASequence
<1> QED BY <1>1, <1>4, <1>5, <1>6, ConcatUnpaid, UnpaidIsSolvent

\* whatever a client sends, the pool has what it comes to pay
LEMMA StepsSolvent ==
    ASSUME TypeOK, OpenedInv, "side_b" \in repairs, NEW ins \in Instructions
    PROVE  Solvent(ins, Steps(ins), Loaded)
<1> DEFINE refused == Require(FALSE, "Constraint")
<1>1. Solvent(ins, <<refused>>, Loaded)
  BY OthersCanPay, SolventOne DEF Require
<1> HIDE DEF refused
<1>2. CASE ins.name # "init_pool" /\ ~amm[ins.acc.amm].is_initialized
  <2>1. Steps(ins) = <<refused>>
    BY <1>2 DEF Steps, refused
  <2> QED BY <1>1, <2>1
<1>3. CASE ~(ins.name # "init_pool" /\ ~amm[ins.acc.amm].is_initialized)
  <2>1. CASE ins.name = "init_pool"
    <3>1. Steps(ins) = InitPoolSteps(ins.acc, ins.arg)
      BY <1>3, <2>1 DEF Steps
    <3> QED BY <3>1, InitPoolSolvent
  <2>2. CASE ins.name = "swap"
    <3>1. ins.acc \in SwapAccounts /\ amm[ins.acc.amm].is_initialized
      BY <1>3, <2>2, InstructionCases, ClientAssumption
    <3>2. Steps(ins) = SwapSteps(ins.acc, ins.arg)
      BY <1>3, <2>2 DEF Steps
    <3> QED BY <3>1, <3>2, SwapSolvent
  <2>3. CASE ins.name = "deposit_all"
    <3>1. ins.acc \in DepositAllAccounts
      BY <2>3, InstructionCases, ClientAssumption
    <3>2. Steps(ins) = DepositAllSteps(ins.acc, ins.arg)
      BY <1>3, <2>3 DEF Steps
    <3> QED BY <3>1, <3>2, DepositAllSolvent
  <2>4. CASE ins.name = "deposit_single"
    <3>1. ins.acc \in DepositSingleAccounts
      BY <2>4, InstructionCases, ClientAssumption
    <3>2. Steps(ins) = DepositSingleSteps(ins.acc, ins.arg)
      BY <1>3, <2>4 DEF Steps
    <3> QED BY <3>1, <3>2, DepositSingleSolvent
  <2>5. CASE ins.name = "withdraw_all"
    <3>1. ins.acc \in WithdrawAllAccounts
      BY <2>5, InstructionCases, ClientAssumption
    <3>2. Steps(ins) = WithdrawAllSteps(ins.acc, ins.arg)
      BY <1>3, <2>5 DEF Steps
    <3> QED BY <3>1, <3>2, WithdrawAllSolvent
  <2>6. CASE ins.name = "withdraw_single"
    <3>1. ins.acc \in WithdrawSingleAccounts /\ ins.arg.destination_token_amount \in U64
      BY <2>6, InstructionCases, ClientAssumption
    <3>2. Steps(ins) = WithdrawSingleSteps(ins.acc, ins.arg)
      BY <1>3, <2>6 DEF Steps
    <3> QED BY <2>6, <3>1, <3>2, WithdrawSingleSolvent
  <2> QED BY <2>1, <2>2, <2>3, <2>4, <2>5, <2>6, InstructionCases
<1> QED BY <1>2, <1>3

\* while an instruction is in progress, what is left of it is solvent
PayInv ==
    /\ tx.phase = "running" => Solvent(tx.ins, tx.todo, tx.view)
    /\ tx.phase = "failed"  => CanPay(tx.ins, tx.at, tx.view)

LEMMA SolventStays ==
    ASSUME UNCHANGED vars, NEW ins, NEW s, NEW v
    PROVE  (Solvent(ins, s, v)' <=> Solvent(ins, s, v)) /\ (CanPay(ins, s, v)' <=> CanPay(ins, s, v))
<1>1. ASSUME NEW r, NEW u PROVE CanPay(ins, r, u)' <=> CanPay(ins, r, u)
  BY DEF CanPay, vars
<1> QED BY <1>1 DEF Solvent

LEMMA TxNextPays ==
    ASSUME RunInv, OpenedInv, "side_b" \in repairs, PayInv, [TxNext]_txVars PROVE PayInv'
<1>1. CASE Begin
  <2>1. PICK ins \in Instructions : tx' = Running(ins, Steps(ins), Loaded)
    BY <1>1 DEF Begin, Running
  <2>2. /\ tx'.phase = "running" /\ tx'.ins = ins /\ tx'.todo = Steps(ins) /\ tx'.view = Loaded
        /\ UNCHANGED vars
    BY <1>1, <2>1 DEF Begin, Running
  <2>3. Solvent(ins, Steps(ins), Loaded)
    BY StepsSolvent DEF RunInv
  <2>4. PICK steps, view : steps = Steps(ins) /\ view = Loaded
    OBVIOUS
  <2>5. Solvent(ins, steps, view)'
    BY <2>2, <2>3, <2>4, SolventStays
  <2>6. tx'.todo = steps /\ tx'.view = view
    BY <2>2, <2>4
  <2>7. Solvent(tx.ins, tx.todo, tx.view)'
    BY <2>2, <2>5, <2>6
  <2> QED BY <2>2, <2>7 DEF PayInv
<1>2. CASE Execute
  <2>1. /\ tx = Running(tx.ins, tx.todo, tx.view) /\ tx.phase = "running"
        /\ tx.todo # <<>> /\ CanExecute(Head(tx.todo), tx.view) /\ IsProgram(tx.todo)
        /\ tx' = [tx EXCEPT !.todo = Tail(@), !.view = Effect(Head(tx.todo), @)]
        /\ UNCHANGED vars
    BY <1>2 DEF Execute, RunInv
  <2>2. PICK ins, todo, view : tx = Running(ins, todo, view)
    BY <2>1
  <2>3. tx.ins = ins /\ tx.todo = todo /\ tx.view = view
    BY <2>2 DEF Running
  <2>4. Solvent(ins, Tail(todo), Effect(Head(todo), view))
    BY <2>1, <2>3, SolventRest DEF PayInv, IsProgram
  <2>5. /\ tx'.phase = "running" /\ tx'.ins = ins /\ tx'.todo = Tail(todo)
        /\ tx'.view = Effect(Head(todo), view)
    BY <2>1, <2>2, <2>3 DEF Running
  <2>6. Solvent(ins, Tail(todo), Effect(Head(todo), view))'
    BY <2>1, <2>4, SolventStays
  <2>7. Solvent(tx.ins, tx.todo, tx.view)'
    BY <2>5, <2>6
  <2> QED BY <2>5, <2>7 DEF PayInv
<1>3. CASE Abort
  <2>1. /\ tx.phase = "running" /\ tx.todo # <<>> /\ IsProgram(tx.todo)
        /\ tx' = [phase |-> "failed", ins |-> tx.ins, at |-> Head(tx.todo), view |-> tx.view]
        /\ UNCHANGED vars
    BY <1>3 DEF Abort, RunInv
  <2>2. PICK ins, step, view : tx.ins = ins /\ Head(tx.todo) = step /\ tx.view = view
    OBVIOUS
  <2>3. CanPay(ins, step, view)
    BY <2>1, <2>2, SolventFirst DEF PayInv, IsProgram
  <2>4. tx'.phase = "failed" /\ tx'.ins = ins /\ tx'.at = step /\ tx'.view = view
    BY <2>1, <2>2
  <2>5. CanPay(ins, step, view)'
    BY <2>1, <2>3, SolventStays
  <2>6. CanPay(tx.ins, tx.at, tx.view)'
    BY <2>4, <2>5
  <2> QED BY <2>4, <2>6 DEF PayInv
<1>4. CASE Commit \/ Dismiss
  BY <1>4 DEF Commit, Dismiss, Idle, PayInv
<1>5. CASE UNCHANGED txVars
  <2>1. tx' = tx /\ UNCHANGED vars
    BY <1>5 DEF txVars, vars
  <2>2. PICK ins, todo, step, view : /\ tx.ins = ins /\ tx.todo = todo /\ tx.at = step
                                     /\ tx.view = view
    OBVIOUS
  <2>3. /\ Solvent(ins, todo, view)' <=> Solvent(ins, todo, view)
        /\ CanPay(ins, step, view)' <=> CanPay(ins, step, view)
    BY <2>1, SolventStays
  <2>4. /\ Solvent(tx.ins, tx.todo, tx.view)' <=> Solvent(ins, todo, view)'
        /\ CanPay(tx.ins, tx.at, tx.view)' <=> CanPay(ins, step, view)'
    BY <2>1, <2>2
  <2> QED BY <2>1, <2>2, <2>3, <2>4 DEF PayInv
<1> QED BY <1>1, <1>2, <1>3, <1>4, <1>5 DEF TxNext

\* In every build that pays side B its own amount, a pool has what it has
\* decided to pay out: a call that fails at one of the pool's transfers fails
\* because the receiver is full or the signature wrong, never for want of the
\* tokens.  The one instruction that promises less is withdraw_single, of more
\* than the reserve, with a trading fee or with a reserve beyond ONE.
THEOREM VaultsAlwaysPay ==
    ASSUME SideBRepaired
    PROVE  TxSpec => []VaultsCanPay
<1>1. TxInit => PayInv
  BY DEF TxInit, Idle, PayInv
<1>2. RunInv => "side_b" \in repairs
  BY DEF RunInv, TypeOK, SideBRepaired
<1>3. RunInv /\ OpenedInv /\ PayInv /\ [TxNext]_txVars => PayInv'
  BY <1>2, TxNextPays
<1>4. TypeOK /\ OpenedInv /\ [Next]_vars => OpenedInv'
  BY NextOpened
<1>5. Spec => []OpenedInv
  BY InitType, NextType, InitOpened, NextOpened, PTL DEF Spec
<1>6. PayInv => VaultsCanPay
  BY DEF PayInv, VaultsCanPay
<1> QED BY <1>1, <1>3, <1>5, <1>6, RunInvHolds, TransactionsAreBehavioursOfAmm, PTL DEF TxSpec

-----------------------------------------------------------------------------
(* What an action allows, its instruction does: no order of checks and calls *)
(* refuses what the accounts and the arguments permit.                      *)

\* a list that can be executed begins with a step that can
LEMMA FirstExecutes ==
    ASSUME NEW s, IsSequence(s), s # <<>>, NEW v, NEW w, Executes(s, v, w)
    PROVE  CanExecute(Head(s), v) /\ Executes(Tail(s), Effect(Head(s), v), w)
<1>1. PICK S : s \in Seq(S)
  BY DEF IsSequence
<1> DEFINE n == Len(s)
<1>2. /\ n \in Nat \ {0} /\ Len(Tail(s)) = n - 1
      /\ \A i \in 1 .. n - 1 : Tail(s)[i] = s[i + 1]
      /\ Head(s) = s[1]
  BY <1>1, HeadTailProperties, EmptySeq, LenProperties
<1>3. PICK views :
        /\ views[0] = v /\ views[n] = w
        /\ \A i \in 1 .. n : CanExecute(s[i], views[i - 1]) /\ views[i] = Effect(s[i], views[i - 1])
  BY DEF Executes
<1>4. CanExecute(s[1], views[1 - 1]) /\ views[1] = Effect(s[1], views[1 - 1])
  BY <1>2, <1>3
<1>5. CanExecute(Head(s), v) /\ views[1] = Effect(Head(s), v)
  BY <1>2, <1>3, <1>4
<1> DEFINE rest == [i \in 0 .. n - 1 |-> views[i + 1]]
<1>6. rest[0] = views[1] /\ rest[n - 1] = w
  BY <1>2, <1>3
<1>7. ASSUME NEW i \in 1 .. n - 1
      PROVE  CanExecute(Tail(s)[i], rest[i - 1]) /\ rest[i] = Effect(Tail(s)[i], rest[i - 1])
  <2>1. i + 1 \in 1 .. n /\ i + 1 - 1 = i /\ Tail(s)[i] = s[i + 1]
    BY <1>2
  <2>2. CanExecute(s[i + 1], views[i + 1 - 1]) /\ views[i + 1] = Effect(s[i + 1], views[i + 1 - 1])
    BY <1>3, <2>1
  <2>3. rest[i] = views[i + 1] /\ rest[i - 1] = views[i]
    BY <1>2
  <2> QED BY <2>1, <2>2, <2>3
<1> HIDE DEF rest
<1>8. Executes(Tail(s), views[1], w)
  BY <1>2, <1>6, <1>7 DEF Executes
<1> QED BY <1>5, <1>8

\* checks that hold are executed, and change nothing
LEMMA ChecksExecute ==
    ASSUME NEW s, AreChecks(s), \A i \in 1 .. Len(s) : s[i].ok, NEW v
    PROVE  Executes(s, v, v)
<1> DEFINE n     == Len(s)
           views == [i \in 0 .. n |-> v]
<1>1. n \in Nat
  BY SequenceFacts DEF AreChecks
<1>2. views[0] = v /\ views[n] = v
  BY <1>1
<1>3. ASSUME NEW i \in 1 .. n
      PROVE  CanExecute(s[i], views[i - 1]) /\ views[i] = Effect(s[i], views[i - 1])
  <2>1. s[i].kind = "require" /\ s[i].ok
    BY DEF AreChecks
  <2>2. views[i - 1] = v /\ views[i] = v
    BY <1>1
  <2> HIDE DEF views
  <2> QED BY <2>1, <2>2 DEF CanExecute, Effect
<1> HIDE DEF views
<1> QED BY <1>2, <1>3 DEF Executes

\* a step that can be executed is
LEMMA StepExecutes ==
    ASSUME NEW s, NEW v, CanExecute(s, v)
    PROVE  Executes(<<s>>, v, Effect(s, v))
<1> DEFINE views == [i \in 0 .. 1 |-> IF i = 0 THEN v ELSE Effect(s, v)]
<1>1. views[0] = v /\ views[1] = Effect(s, v)
  OBVIOUS
<1> HIDE DEF views
<1>2. \A i \in 1 .. 1 : CanExecute(<<s>>[i], views[i - 1]) /\ views[i] = Effect(<<s>>[i], views[i - 1])
  BY <1>1
<1>3. Len(<<s>>) = 1
  OBVIOUS
<1> QED BY <1>1, <1>2, <1>3 DEF Executes

LEMMA TwoStepsExecute ==
    ASSUME NEW s, NEW t, NEW v, CanExecute(s, v), CanExecute(t, Effect(s, v))
    PROVE  Executes(<<s, t>>, v, Effect(t, Effect(s, v)))
<1>1. Executes(<<s>>, v, Effect(s, v)) /\ Executes(<<t>>, Effect(s, v), Effect(t, Effect(s, v)))
  BY StepExecutes
<1> QED BY <1>1, TwoStepsAreASequence, OneStepIsASequence, ExecutesBoth

LEMMA ThreeStepsExecute ==
    ASSUME NEW s, NEW t, NEW r, NEW v, CanExecute(s, v), CanExecute(t, Effect(s, v)),
           CanExecute(r, Effect(t, Effect(s, v)))
    PROVE  Executes(<<s, t, r>>, v, Effect(r, Effect(t, Effect(s, v))))
<1> DEFINE u == Effect(t, Effect(s, v))
<1>1. Executes(<<s, t>>, v, u)
  BY TwoStepsExecute
<1>2. Executes(<<r>>, u, Effect(r, u))
  BY StepExecutes
<1>3. IsSequence(<<s, t>>) /\ IsSequence(<<r>>)
  BY TwoStepsAreASequence, OneStepIsASequence
<1>4. <<s, t, r>> = <<s, t>> \o <<r>>
  BY ThreeStepsAreASequence
<1> HIDE DEF u
<1>5. Executes(<<s, t>> \o <<r>>, v, Effect(r, u))
  BY <1>1, <1>2, <1>3, ExecutesBoth
<1> QED BY <1>4, <1>5 DEF u

\* a conditional part is executed when its steps are, or are left out
LEMMA WhenExecutes ==
    ASSUME NEW c \in BOOLEAN, NEW s, NEW v, NEW w, c => Executes(s, v, w), ~c => w = v
    PROVE  Executes(When(c, s), v, w)
BY ExecutesNothing DEF When

\* a payment that is due and possible, or not due
LEMMA PayExecutes ==
    ASSUME NEW due \in Nat, NEW amount, NEW from, NEW to, NEW authority, NEW signers,
           NEW a, NEW b, NEW s, due # 0 => CanTransfer(b, from, to, amount, authority, signers)
    PROVE  Executes(When(due > 0, <<Pay(from, to, amount, authority, signers)>>), View(a, b, s),
                    View(a, IF due = 0 THEN b ELSE Transfer(b, from, to, amount), s))
<1> DEFINE some == due > 0
           pay  == Pay(from, to, amount, authority, signers)
           v    == View(a, b, s)
           w    == View(a, IF due = 0 THEN b ELSE Transfer(b, from, to, amount), s)
<1>1. some \in BOOLEAN /\ (some <=> due # 0)
  OBVIOUS
<1>2. ASSUME some PROVE Executes(<<pay>>, v, w)
  <2>1. due # 0
    BY <1>1, <1>2
  <2>2. CanExecute(pay, v)
    BY <2>1, PayStep
  <2>3. Effect(pay, v) = w
    BY <2>1, PayStep
  <2> HIDE DEF pay, v, w
  <2> QED BY <2>2, <2>3, StepExecutes
<1>3. ASSUME ~some PROVE w = v
  BY <1>1, <1>3
<1> HIDE DEF some, pay, v, w
<1>4. Executes(When(some, <<pay>>), v, w)
  BY <1>1, <1>2, <1>3, WhenExecutes
<1> QED BY <1>4 DEF some, pay, v, w

\* an issue of pool tokens that is due and possible, or not due
LEMMA IssueExecutes ==
    ASSUME NEW some \in BOOLEAN, NEW wide, wide.kind = "require", NEW writable,
           writable.kind = "require", NEW amount, NEW mint, NEW to, NEW authority, NEW signers,
           NEW a, NEW b, NEW s,
           some => wide.ok /\ writable.ok /\ CanMintTo(b, s[mint], to, amount, mint, authority, signers)
    PROVE  Executes(When(some, <<wide, writable, Issue(mint, to, amount, authority, signers)>>),
                    View(a, b, s),
                    View(a, IF some THEN MintTo(b, to, amount) ELSE b,
                         IF some THEN MoreSupply(s, mint, amount) ELSE s))
<1> DEFINE issue == Issue(mint, to, amount, authority, signers)
           v     == View(a, b, s)
           w     == View(a, IF some THEN MintTo(b, to, amount) ELSE b,
                         IF some THEN MoreSupply(s, mint, amount) ELSE s)
<1>1. ASSUME some PROVE Executes(<<wide, writable, issue>>, v, w)
  <2>1. CanExecute(issue, v)
    BY <1>1, IssueStep
  <2>2. Effect(issue, v) = w
    BY <1>1, IssueStep DEF MoreSupply
  <2> HIDE DEF issue, v, w
  <2>3. CanExecute(wide, v) /\ CanExecute(writable, v) /\ Effect(wide, v) = v /\ Effect(writable, v) = v
    BY <1>1 DEF CanExecute, Effect
  <2> QED BY <2>1, <2>2, <2>3, ThreeStepsExecute
<1>2. ASSUME ~some PROVE w = v
  BY <1>2
<1> HIDE DEF issue, v, w
<1>3. Executes(When(some, <<wide, writable, issue>>), v, w)
  BY <1>1, <1>2, WhenExecutes
<1> QED BY <1>3 DEF issue, v, w

\* accounts that the checks demand pass them
LEMMA CheckAccountsExecute ==
    ASSUME NEW p, NEW a, NEW b, NEW m, NEW ua, NEW ub, NEW f, CheckAccounts(p, a, b, m, ua, ub, f), NEW v
    PROVE  Executes(CheckAccountsSteps(p, a, b, m, ua, ub, f), v, v)
<1> DEFINE s == CheckAccountsSteps(p, a, b, m, ua, ub, f)
<1>1. AreChecks(s)
  BY CheckAccountsStepsFacts
<1>2. Len(s) = 7
  BY DEF CheckAccountsSteps
<1>3. \A i \in 1 .. 7 : s[i].ok
  <2>1. s[1].ok /\ s[2].ok /\ s[3].ok /\ s[4].ok
    BY DEF CheckAccountsSteps, Require, CheckAccounts
  <2>2. s[5].ok /\ s[6].ok /\ s[7].ok
    BY DEF CheckAccountsSteps, Require, CheckAccounts
  <2>3. \A i \in 1 .. 7 : i \in {1, 2, 3, 4, 5, 6, 7}
    OBVIOUS
  <2> HIDE DEF s
  <2> QED BY <2>1, <2>2, <2>3
<1> HIDE DEF s
<1>4. Executes(s, v, v)
  BY <1>1, <1>2, <1>3, ChecksExecute
<1> QED BY <1>4 DEF s

\* the value of an option is its element
LEMMA GivenIsTheElement ==
    ASSUME NEW S, IsOption(S), NEW x \in S, NEW default
    PROVE  S # {} /\ Given(S, default) = x
BY DEF IsOption, Given

\* one check that holds
LEMMA CheckExecutes ==
    ASSUME NEW ok \in BOOLEAN, ok, NEW error, NEW v
    PROVE  Executes(<<Require(ok, error)>>, v, v)
<1>1. CanExecute(Require(ok, error), v) /\ Effect(Require(ok, error), v) = v
  BY RequireStep
<1> QED BY <1>1, StepExecutes

LEMMA TradingTokensAreAnOption ==
    ASSUME NEW n, NEW s, NEW x, NEW y, NEW round
    PROVE  IsOption(PoolTokensToTradingTokens(n, s, x, y, round))
<1>1. ASSUME NEW z PROVE IsOption(Checked(z)) /\ IsOption(CheckedDiv(z, s))
  BY DEF IsOption, Checked, CheckedDiv, Some, None
<1>2. ASSUME NEW z PROVE IsOption(TradingTokens(n, s, z, round))
  <2> DEFINE products  == Checked(n * z)
             quotients == UNION { CheckedDiv(product, s) : product \in products }
  <2>1. IsOption(quotients)
    <3>1. IsOption(products)
      BY <1>1
    <3> HIDE DEF products
    <3> QED BY <1>1, <3>1 DEF IsOption
  <2>2. ASSUME NEW f, \A k \in TradingTokens(n, s, z, round) : \E q \in quotients : k = f[q]
        PROVE  IsOption(TradingTokens(n, s, z, round))
    <3> HIDE DEF quotients
    <3> QED BY <2>1, <2>2 DEF IsOption
  <2> DEFINE rounded == [q \in quotients |->
                           IF round = "Ceiling" /\ q > 0 /\ (n * z) % s > 0 THEN q + 1 ELSE q]
  <2>3. \A k \in TradingTokens(n, s, z, round) : \E q \in quotients : k = rounded[q]
    BY DEF TradingTokens
  <2> HIDE DEF quotients, rounded
  <2> QED BY <2>2, <2>3
<1> QED BY <1>2 DEF IsOption, PoolTokensToTradingTokens

LEMMA DepositAllPossible ==
    ASSUME TypeOK, NEW acc \in DepositAllAccounts, NEW n \in U64, NEW max_a \in U64,
           NEW max_b \in U64, NEW arg,
           arg = [pool_token_amount |-> n, maximum_a |-> max_a, maximum_b |-> max_b],
           DepositAll(acc, n, max_a, max_b)
    PROVE  \E w : Executes(DepositAllSteps(acc, arg), Loaded, w)
<1> DEFINE p       == acc.amm
           signers == {acc.owner, SeedSigner(p)}
           live    == supply[acc.pool_mint] > 0
           pool_token_amount == IF live THEN n ELSE NewPoolSupply
           pool_mint_supply  == IF live THEN supply[acc.pool_mint] ELSE NewPoolSupply
           results == PoolTokensToTradingTokens(pool_token_amount, pool_mint_supply,
                          bal[acc.vault_token_a], bal[acc.vault_token_b], "Ceiling")
           pay     == Given(results, [token_a_amount |-> 0, token_b_amount |-> 0])
           first   == << Require(DepositAllConstraints(acc), "Constraint") >>
           second  == CheckAccountsSteps(p, acc.vault_token_a, acc.vault_token_b, acc.pool_mint,
                                         {acc.source_a_info}, {acc.source_b_info}, {})
           checks  == << Require(results # {}, "ZeroTradingTokens"),
                         Require(pay.token_a_amount \in U64, "Panic"),
                         Require(pay.token_a_amount <= max_a, "ExceededSlippage"),
                         Require(pay.token_a_amount # 0, "ZeroTradingTokens"),
                         Require(pay.token_b_amount \in U64, "Panic"),
                         Require(pay.token_b_amount <= max_b, "ExceededSlippage"),
                         Require(pay.token_b_amount # 0, "ZeroTradingTokens") >>
           pay_a   == Pay(acc.source_a_info, acc.vault_token_a, pay.token_a_amount, acc.owner,
                          signers)
           pay_b   == Pay(acc.source_b_info, acc.vault_token_b, pay.token_b_amount, acc.owner,
                          signers)
           issue   == Issue(acc.pool_mint, acc.destination, pool_token_amount, Authority(p), signers)
<1>1. DepositAllSteps(acc, arg) = first \o second \o checks \o <<pay_a, pay_b, issue>>
  BY DEF DepositAllSteps
<1>2. live <=> ~(supply[acc.pool_mint] = 0)
  <2>1. supply[acc.pool_mint] \in U64
    BY DEF TypeOK, DepositAllAccounts
  <2> QED BY <2>1, U64Assumption DEF U64
<1>3. PICK r \in results :
        LET paid_a == Transfer(bal, acc.source_a_info, acc.vault_token_a, r.token_a_amount)
            paid_b == Transfer(paid_a, acc.source_b_info, acc.vault_token_b, r.token_b_amount)
        IN  /\ r.token_a_amount \in 1 .. max_a /\ r.token_b_amount \in 1 .. max_b
            /\ CanTransfer(bal, acc.source_a_info, acc.vault_token_a, r.token_a_amount, acc.owner,
                           signers)
            /\ CanTransfer(paid_a, acc.source_b_info, acc.vault_token_b, r.token_b_amount, acc.owner,
                           signers)
            /\ CanMintTo(paid_b, supply[acc.pool_mint], acc.destination, pool_token_amount,
                         acc.pool_mint, Authority(p), signers)
  BY <1>2 DEF DepositAll
<1>4. results # {} /\ pay = r
  BY TradingTokensAreAnOption, GivenIsTheElement
<1>5. DepositAllAccountsHold(acc)
  BY DEF DepositAll
<1> HIDE DEF results, pay, pool_token_amount, pool_mint_supply
<1> DEFINE paid_a == Transfer(bal, acc.source_a_info, acc.vault_token_a, pay.token_a_amount)
           paid_b == Transfer(paid_a, acc.source_b_info, acc.vault_token_b, pay.token_b_amount)
<1>6. /\ pay.token_a_amount \in 1 .. max_a /\ pay.token_b_amount \in 1 .. max_b
      /\ CanTransfer(bal, acc.source_a_info, acc.vault_token_a, pay.token_a_amount, acc.owner, signers)
      /\ CanTransfer(paid_a, acc.source_b_info, acc.vault_token_b, pay.token_b_amount, acc.owner,
                     signers)
      /\ CanMintTo(paid_b, supply[acc.pool_mint], acc.destination, pool_token_amount, acc.pool_mint,
                   Authority(p), signers)
  BY <1>3, <1>4
<1> HIDE DEF paid_a, paid_b
<1>7. Executes(first, Loaded, Loaded)
  <2>1. DepositAllConstraints(acc)
    BY <1>5 DEF DepositAllAccountsHold
  <2>2. DepositAllConstraints(acc) \in BOOLEAN
    BY DEF DepositAllConstraints
  <2> QED BY <2>1, <2>2, CheckExecutes
<1>8. Executes(second, Loaded, Loaded)
  BY <1>5, CheckAccountsExecute DEF DepositAllAccountsHold
<1>9. Executes(checks, Loaded, Loaded) /\ IsSequence(checks)
  <2> DEFINE S == {checks[i] : i \in 1 .. 7}
  <2>1. checks \in Seq(S) /\ Len(checks) = 7
    OBVIOUS
  <2>2. \A i \in 1 .. 7 : checks[i].kind = "require"
    BY DEF Require
  <2>3. \A i \in 1 .. 7 : checks[i].error \in Errors
    BY DEF Require, Errors, SwapError
  <2>4. /\ results # {} /\ pay.token_a_amount \in U64 /\ pay.token_b_amount \in U64
        /\ pay.token_a_amount <= max_a /\ pay.token_a_amount # 0
        /\ pay.token_b_amount <= max_b /\ pay.token_b_amount # 0
    BY <1>4, <1>6 DEF CanTransfer
  <2>5. checks[1].ok /\ checks[2].ok /\ checks[3].ok /\ checks[4].ok
    BY <2>4 DEF Require
  <2>6. checks[5].ok /\ checks[6].ok /\ checks[7].ok
    BY <2>4 DEF Require
  <2> HIDE DEF checks, S
  <2>7. \A i \in 1 .. 7 : checks[i].ok
    BY <2>5, <2>6
  <2>8. AreChecks(checks)
    BY <2>1, <2>2, <2>3 DEF AreChecks, IsSequence
  <2> QED BY <2>1, <2>7, <2>8, ChecksExecute DEF AreChecks
<1>10. \E w : Executes(<<pay_a, pay_b, issue>>, Loaded, w)
  <2>1. CanExecute(pay_a, Loaded) /\ Effect(pay_a, Loaded) = View(amm, paid_a, supply)
    BY <1>6, PayStep, LoadedView DEF paid_a
  <2>2. /\ CanExecute(pay_b, View(amm, paid_a, supply))
        /\ Effect(pay_b, View(amm, paid_a, supply)) = View(amm, paid_b, supply)
    BY <1>6, PayStep DEF paid_b
  <2>3. CanExecute(issue, View(amm, paid_b, supply))
    BY <1>6, IssueStep
  <2> HIDE DEF pay_a, pay_b, issue
  <2> QED BY <2>1, <2>2, <2>3, ThreeStepsExecute
<1>11. /\ IsSequence(first) /\ IsSequence(second) /\ IsSequence(<<pay_a, pay_b, issue>>)
  BY OneStepIsASequence, CheckAccountsStepsFacts, ThreeStepsAreASequence DEF AreChecks
<1> HIDE DEF first, second, checks, pay_a, pay_b, issue
<1>12. Executes(first \o second, Loaded, Loaded) /\ IsSequence(first \o second)
  BY <1>7, <1>8, <1>11, ExecutesBoth, ConcatFacts
<1>13. Executes(first \o second \o checks, Loaded, Loaded) /\ IsSequence(first \o second \o checks)
  BY <1>9, <1>12, ExecutesBoth, ConcatFacts
<1> QED BY <1>1, <1>10, <1>11, <1>13, ExecutesBoth

LEMMA DepositSingleIsAnOption ==
    ASSUME NEW n, NEW x, NEW y, NEW s, NEW d, NEW fees
    PROVE  IsOption(CurveDepositSingle(n, x, y, s, d, fees))
<1>1. ASSUME NEW z, NEW round PROVE IsOption(ToInteger(z, round))
  BY DEF IsOption, ToInteger, Checked, Some, None
<1>2. ASSUME NEW a, NEW b PROVE IsOption(PreciseSub(a, b)) /\ IsOption(PreciseDiv(a, b))
  BY DEF IsOption, PreciseSub, PreciseDiv, Some, None
<1>3. ASSUME NEW a, NEW r, NEW u PROVE IsOption(DepositSingleTokenType(a, r, u, "Floor"))
  BY <1>1, <1>2 DEF IsOption, DepositSingleTokenType
<1>4. IsOption(LessHalfTradeFee(n, fees))
  BY FeeIsAnOption DEF IsOption, LessHalfTradeFee, TradingFee
<1> QED BY <1>3, <1>4 DEF IsOption, CurveDepositSingle, Some

\* the side is the only one
LEMMA TheSide ==
    ASSUME NEW t, NEW a, NEW b, NEW d \in SideOf(t, a, b)
    PROVE  SideOf(t, a, b) = {d} /\ d \in {"AtoB", "BtoA"}
BY DEF SideOf, Some, None

\* two checks that hold
LEMMA TwoChecksExecute ==
    ASSUME NEW one \in BOOLEAN, one, NEW e, NEW two \in BOOLEAN, two, NEW f, NEW v
    PROVE  Executes(<<Require(one, e), Require(two, f)>>, v, v)
<1> DEFINE s == Require(one, e)
           t == Require(two, f)
<1>1. CanExecute(s, v) /\ Effect(s, v) = v /\ CanExecute(t, v) /\ Effect(t, v) = v
  BY RequireStep
<1> HIDE DEF s, t
<1>2. Executes(<<s, t>>, v, v)
  BY <1>1, TwoStepsExecute
<1> QED BY <1>2 DEF s, t

LEMMA DepositSinglePossible ==
    ASSUME TypeOK, NEW acc \in DepositSingleAccounts, NEW n \in U64, NEW minimum \in U64, NEW arg,
           arg = [source_token_amount |-> n, minimum |-> minimum], DepositSingle(acc, n, minimum)
    PROVE  \E w : Executes(DepositSingleSteps(acc, arg), Loaded, w)
<1> DEFINE p       == acc.amm
           signers == {acc.owner, SeedSigner(p)}
           side    == SideOf(acc.source, acc.swap_token_a, acc.swap_token_b)
           on_a    == side = Some("AtoB")
           tokens_by(d) == CurveDepositSingle(n, bal[acc.swap_token_a], bal[acc.swap_token_b],
                                              supply[acc.pool_mint], d, amm[p].fees)
           tokens  == IF supply[acc.pool_mint] = 0 THEN Some(NewPoolSupply)
                      ELSE UNION { tokens_by(d) : d \in side }
           pool_token_amount == Given(tokens, 0)
           vault   == IF on_a THEN acc.swap_token_a ELSE acc.swap_token_b
           first   == << Require(DepositSingleConstraints(acc), "Constraint"),
                         Require(side # {}, "IncorrectSwapAccount") >>
           second  == CheckAccountsSteps(p, acc.swap_token_a, acc.swap_token_b, acc.pool_mint,
                                         IF on_a THEN {acc.source} ELSE {},
                                         IF on_a THEN {} ELSE {acc.source}, {})
           checks  == << Require(tokens # {}, "ZeroTradingTokens"),
                         Require(pool_token_amount \in U64, "Panic"),
                         Require(minimum <= pool_token_amount, "ExceededSlippage"),
                         Require(pool_token_amount # 0, "ZeroTradingTokens") >>
           pay     == Pay(acc.source, vault, n, acc.owner, {acc.owner})
           issue   == Issue(acc.pool_mint, acc.destination, pool_token_amount, Authority(p), signers)
<1>1. DepositSingleSteps(acc, arg) = first \o second \o checks \o <<pay, issue>>
  BY DEF DepositSingleSteps
<1>2. PICK d \in side :
        /\ DepositSingleAccountsHold(acc, d)
        /\ \E k \in IF supply[acc.pool_mint] > 0 THEN tokens_by(d) ELSE Some(NewPoolSupply) :
             LET to   == IF d = "AtoB" THEN acc.swap_token_a ELSE acc.swap_token_b
                 paid == Transfer(bal, acc.source, to, n)
             IN  /\ minimum <= k /\ k # 0
                 /\ CanTransfer(bal, acc.source, to, n, acc.owner, {acc.owner})
                 /\ CanMintTo(paid, supply[acc.pool_mint], acc.destination, k, acc.pool_mint,
                              Authority(p), signers)
  BY DEF DepositSingle
<1>3. side = {d} /\ d \in {"AtoB", "BtoA"} /\ (on_a <=> d = "AtoB")
  BY <1>2, TheSide DEF Some
<1>4. tokens = IF supply[acc.pool_mint] > 0 THEN tokens_by(d) ELSE Some(NewPoolSupply)
  <2>1. supply[acc.pool_mint] \in U64
    BY DEF TypeOK, DepositSingleAccounts
  <2>2. supply[acc.pool_mint] > 0 <=> supply[acc.pool_mint] # 0
    BY <2>1, U64Assumption DEF U64
  <2> HIDE DEF side, tokens_by
  <2> QED BY <1>3, <2>2
<1>5. IsOption(tokens)
  <2>1. IsOption(tokens_by(d)) /\ IsOption(Some(NewPoolSupply))
    BY DepositSingleIsAnOption DEF IsOption, Some
  <2> HIDE DEF tokens, tokens_by
  <2> QED BY <1>4, <2>1
<1>6. DepositSingleAccountsHold(acc, d)
  BY <1>2
<1>7. vault = IF d = "AtoB" THEN acc.swap_token_a ELSE acc.swap_token_b
  BY <1>3
<1>8. PICK k \in tokens :
        /\ minimum <= k /\ k # 0
        /\ CanTransfer(bal, acc.source, vault, n, acc.owner, {acc.owner})
        /\ CanMintTo(Transfer(bal, acc.source, vault, n), supply[acc.pool_mint], acc.destination, k,
                     acc.pool_mint, Authority(p), signers)
  <2> HIDE DEF tokens, tokens_by, vault, side
  <2> QED BY <1>2, <1>4, <1>7
<1>9. tokens # {} /\ pool_token_amount = k
  <2> HIDE DEF tokens
  <2> QED BY <1>5, GivenIsTheElement
<1> HIDE DEF tokens, tokens_by, pool_token_amount, vault
<1> DEFINE paid == Transfer(bal, acc.source, vault, n)
<1> HIDE DEF paid
<1>10. /\ CanTransfer(bal, acc.source, vault, n, acc.owner, {acc.owner})
       /\ CanMintTo(paid, supply[acc.pool_mint], acc.destination, pool_token_amount, acc.pool_mint,
                    Authority(p), signers)
  BY <1>8, <1>9 DEF paid
<1>11. Executes(first, Loaded, Loaded)
  <2>1. DepositSingleConstraints(acc) /\ side # {}
    BY <1>3, <1>6 DEF DepositSingleAccountsHold
  <2>2. DepositSingleConstraints(acc) \in BOOLEAN /\ (side # {}) \in BOOLEAN
    BY DEF DepositSingleConstraints
  <2> QED BY <2>1, <2>2, TwoChecksExecute
<1>12. Executes(second, Loaded, Loaded)
  <2>1. CheckAccounts(p, acc.swap_token_a, acc.swap_token_b, acc.pool_mint,
                      IF on_a THEN {acc.source} ELSE {}, IF on_a THEN {} ELSE {acc.source}, {})
    BY <1>3, <1>6 DEF DepositSingleAccountsHold
  <2> HIDE DEF on_a
  <2> QED BY <2>1, CheckAccountsExecute
<1>13. Executes(checks, Loaded, Loaded) /\ IsSequence(checks)
  <2> DEFINE S == {checks[i] : i \in 1 .. 4}
  <2>1. checks \in Seq(S) /\ Len(checks) = 4
    OBVIOUS
  <2>2. \A i \in 1 .. 4 : checks[i].kind = "require"
    BY DEF Require
  <2>3. \A i \in 1 .. 4 : checks[i].error \in Errors
    BY DEF Require, Errors, SwapError
  <2>4. /\ tokens # {} /\ pool_token_amount \in U64 /\ minimum <= pool_token_amount
        /\ pool_token_amount # 0
    BY <1>8, <1>9, <1>10 DEF CanMintTo
  <2>5. checks[1].ok /\ checks[2].ok /\ checks[3].ok /\ checks[4].ok
    BY <2>4 DEF Require
  <2> HIDE DEF checks, S
  <2>6. \A i \in 1 .. 4 : checks[i].ok
    BY <2>5
  <2>7. AreChecks(checks)
    BY <2>1, <2>2, <2>3 DEF AreChecks, IsSequence
  <2> QED BY <2>1, <2>6, <2>7, ChecksExecute DEF AreChecks
<1>14. \E w : Executes(<<pay, issue>>, Loaded, w)
  <2>1. CanExecute(pay, Loaded) /\ Effect(pay, Loaded) = View(amm, paid, supply)
    BY <1>10, PayStep, LoadedView DEF paid
  <2>2. CanExecute(issue, View(amm, paid, supply))
    BY <1>10, IssueStep
  <2> HIDE DEF pay, issue
  <2> QED BY <2>1, <2>2, TwoStepsExecute
<1>15. IsSequence(first) /\ IsSequence(second) /\ IsSequence(<<pay, issue>>)
  BY TwoStepsAreASequence, CheckAccountsStepsFacts DEF AreChecks
<1> HIDE DEF first, second, checks, pay, issue
<1>16. Executes(first \o second, Loaded, Loaded) /\ IsSequence(first \o second)
  BY <1>11, <1>12, <1>15, ExecutesBoth, ConcatFacts
<1>17. Executes(first \o second \o checks, Loaded, Loaded) /\ IsSequence(first \o second \o checks)
  BY <1>13, <1>16, ExecutesBoth, ConcatFacts
<1> QED BY <1>1, <1>14, <1>15, <1>17, ExecutesBoth

\* the fee of a withdrawal from a pool that exists, of an amount that can be burnt
LEMMA WithdrawFeeIsNatural ==
    ASSUME TypeOK, NEW acc, acc.amm \in Pools, amm[acc.amm].is_initialized, NEW source, NEW k \in U64
    PROVE  IsOption(WithdrawFee(acc, source, k)) /\ WithdrawFee(acc, source, k) \subseteq Nat
<1>1. amm[acc.amm].fees \in CurveFees
  <2>1. amm[acc.amm] \in AmmData \cup {NoAmm}
    BY DEF TypeOK
  <2>2. amm[acc.amm] \in AmmData
    BY <2>1 DEF NoAmm
  <2> QED BY <2>2 DEF AmmData
<1> QED BY <1>1, FeesAreNatural, FeeIsAnOption DEF WithdrawFee, OwnerWithdrawFee, Some, IsOption

LEMMA WithdrawSinglePossible ==
    ASSUME TypeOK, NEW acc \in WithdrawSingleAccounts, NEW arg, arg.maximum \in U64,
           WithdrawSingle(acc, arg.destination_token_amount, arg.maximum)
    PROVE  \E w : Executes(WithdrawSingleSteps(acc, arg), Loaded, w)
<1> DEFINE p       == acc.amm
           n       == arg.destination_token_amount
           maximum == arg.maximum
           signers == {acc.owner, SeedSigner(p)}
           side    == SideOf(acc.destination, acc.swap_token_a, acc.swap_token_b)
           on_a    == side = Some("AtoB")
           burnt_by(d) == CurveWithdrawSingle(n, bal[acc.swap_token_a], bal[acc.swap_token_b],
                                              supply[acc.pool_mint], d, amm[p].fees)
           burnt   == UNION { burnt_by(d) : d \in side }
           fees    == UNION { WithdrawFee(acc, acc.source, k) : k \in burnt }
           burn_amount  == Given(burnt, 0)
           withdraw_fee == Given(fees, 0)
           pool_token_amount == burn_amount + withdraw_fee
           vault   == IF on_a THEN acc.swap_token_a ELSE acc.swap_token_b
           first   == << Require(WithdrawSingleConstraints(acc), "Constraint"),
                         Require(side # {}, "IncorrectSwapAccount") >>
           second  == CheckAccountsSteps(p, acc.swap_token_a, acc.swap_token_b, acc.pool_mint,
                                         IF on_a THEN {acc.destination} ELSE {},
                                         IF on_a THEN {} ELSE {acc.destination}, {acc.fee_account})
           checks  == << Require(burnt # {}, "ZeroTradingTokens"),
                         Require(fees # {}, "FeeCalculationFailure"),
                         Require(pool_token_amount \in U64, "Panic"),
                         Require(pool_token_amount <= maximum, "ExceededSlippage"),
                         Require(pool_token_amount # 0, "ZeroTradingTokens") >>
           charge  == When(withdraw_fee > 0,
                           << Pay(acc.source, acc.fee_account, withdraw_fee, acc.owner,
                                  {acc.owner}) >>)
           redeem  == Redeem(acc.pool_mint, acc.source, burn_amount, acc.owner)
           pay     == Pay(vault, acc.destination, n, Authority(p), signers)
<1>1. WithdrawSingleSteps(acc, arg) = first \o second \o checks \o charge \o <<redeem, pay>>
  BY DEF WithdrawSingleSteps
<1>2. PICK d \in side :
        /\ WithdrawSingleAccountsHold(acc, d)
        /\ \E k \in burnt_by(d) : \E f \in WithdrawFee(acc, acc.source, k) :
             LET to   == IF d = "AtoB" THEN acc.swap_token_a ELSE acc.swap_token_b
                 paid == IF f = 0 THEN bal ELSE Transfer(bal, acc.source, acc.fee_account, f)
             IN  /\ k + f \in 1 .. maximum
                 /\ f # 0 => CanTransfer(bal, acc.source, acc.fee_account, f, acc.owner, {acc.owner})
                 /\ CanBurn(paid, supply[acc.pool_mint], acc.source, k, acc.pool_mint, acc.owner,
                            {acc.owner})
                 /\ CanTransfer(Burn(paid, acc.source, k), to, acc.destination, n, Authority(p),
                                signers)
  BY DEF WithdrawSingle
<1>3. side = {d} /\ d \in {"AtoB", "BtoA"} /\ (on_a <=> d = "AtoB")
  BY <1>2, TheSide DEF Some
<1>4. burnt = burnt_by(d)
  <2> HIDE DEF side, burnt_by
  <2> QED BY <1>3
<1>41. IsOption(burnt)
  <2>1. IsOption(burnt_by(d))
    BY WithdrawSingleIsAnOption
  <2> HIDE DEF burnt, burnt_by
  <2> QED BY <1>4, <2>1
<1>5. vault = IF d = "AtoB" THEN acc.swap_token_a ELSE acc.swap_token_b
  BY <1>3
<1>6. WithdrawSingleAccountsHold(acc, d)
  BY <1>2
<1> DEFINE Withdraws(k, f) ==
        LET paid == IF f = 0 THEN bal ELSE Transfer(bal, acc.source, acc.fee_account, f)
        IN  /\ k + f \in 1 .. maximum
            /\ f # 0 => CanTransfer(bal, acc.source, acc.fee_account, f, acc.owner, {acc.owner})
            /\ CanBurn(paid, supply[acc.pool_mint], acc.source, k, acc.pool_mint, acc.owner,
                       {acc.owner})
            /\ CanTransfer(Burn(paid, acc.source, k), vault, acc.destination, n, Authority(p),
                           signers)
<1>70. PICK k \in burnt : \E f \in WithdrawFee(acc, acc.source, k) : Withdraws(k, f)
  <2> HIDE DEF burnt, burnt_by, vault, side
  <2> QED BY <1>2, <1>4, <1>5
<1>7. PICK f \in WithdrawFee(acc, acc.source, k) : Withdraws(k, f)
  <2> HIDE DEF Withdraws, burnt
  <2> QED BY <1>70
<1>8. k \in U64
  BY <1>7 DEF CanBurn
<1>9. burnt # {} /\ burn_amount = k
  <2> HIDE DEF burnt
  <2> QED BY <1>41, GivenIsTheElement
<1>10. fees = WithdrawFee(acc, acc.source, k)
  <2> HIDE DEF burnt
  <2> QED BY <1>41 DEF IsOption
<1>11. fees # {} /\ withdraw_fee = f /\ f \in Nat
  <2>1. p \in Pools /\ amm[p].is_initialized
    BY <1>6 DEF WithdrawSingleAccountsHold, WithdrawSingleConstraints, WithdrawSingleAccounts
  <2>2. IsOption(fees) /\ fees \subseteq Nat
    <3> HIDE DEF fees
    <3>1. IsOption(WithdrawFee(acc, acc.source, k)) /\ WithdrawFee(acc, acc.source, k) \subseteq Nat
      BY <1>8, <2>1, WithdrawFeeIsNatural
    <3> QED BY <1>10, <3>1
  <2>3. f \in fees
    BY <1>10
  <2> HIDE DEF fees
  <2> QED BY <2>2, <2>3, GivenIsTheElement
<1> HIDE DEF burnt, burnt_by, fees, burn_amount, withdraw_fee, vault
<1> DEFINE charged == IF withdraw_fee = 0 THEN bal
                      ELSE Transfer(bal, acc.source, acc.fee_account, withdraw_fee)
           burned  == Burn(charged, acc.source, burn_amount)
           left    == LessSupply(supply, acc.pool_mint, burn_amount)
<1>12. /\ pool_token_amount \in 1 .. maximum /\ withdraw_fee \in Nat
       /\ withdraw_fee # 0 => CanTransfer(bal, acc.source, acc.fee_account, withdraw_fee, acc.owner,
                                          {acc.owner})
       /\ CanBurn(charged, supply[acc.pool_mint], acc.source, burn_amount, acc.pool_mint, acc.owner,
                  {acc.owner})
       /\ CanTransfer(burned, vault, acc.destination, n, Authority(p), signers)
  BY <1>7, <1>9, <1>11
<1> HIDE DEF pool_token_amount
<1>13. Executes(first, Loaded, Loaded)
  <2>1. WithdrawSingleConstraints(acc) /\ side # {}
    BY <1>3, <1>6 DEF WithdrawSingleAccountsHold
  <2>2. WithdrawSingleConstraints(acc) \in BOOLEAN /\ (side # {}) \in BOOLEAN
    BY DEF WithdrawSingleConstraints
  <2> QED BY <2>1, <2>2, TwoChecksExecute
<1>14. Executes(second, Loaded, Loaded)
  <2>1. CheckAccounts(p, acc.swap_token_a, acc.swap_token_b, acc.pool_mint,
                      IF on_a THEN {acc.destination} ELSE {}, IF on_a THEN {} ELSE {acc.destination},
                      {acc.fee_account})
    BY <1>3, <1>6 DEF WithdrawSingleAccountsHold
  <2> HIDE DEF on_a
  <2> QED BY <2>1, CheckAccountsExecute
<1>15. Executes(checks, Loaded, Loaded) /\ IsSequence(checks)
  <2> DEFINE S == {checks[i] : i \in 1 .. 5}
  <2>1. checks \in Seq(S) /\ Len(checks) = 5
    OBVIOUS
  <2>2. \A i \in 1 .. 5 : checks[i].kind = "require"
    BY DEF Require
  <2>3. \A i \in 1 .. 5 : checks[i].error \in Errors
    BY DEF Require, Errors, SwapError
  <2>4. /\ burnt # {} /\ fees # {} /\ pool_token_amount \in U64 /\ pool_token_amount <= maximum
        /\ pool_token_amount # 0
    BY <1>9, <1>11, <1>12, U64Assumption DEF U64
  <2>5. checks[1].ok /\ checks[2].ok /\ checks[3].ok /\ checks[4].ok /\ checks[5].ok
    BY <2>4 DEF Require
  <2> HIDE DEF checks, S
  <2>6. \A i \in 1 .. 5 : checks[i].ok
    BY <2>5
  <2>7. AreChecks(checks)
    BY <2>1, <2>2, <2>3 DEF AreChecks, IsSequence
  <2> QED BY <2>1, <2>6, <2>7, ChecksExecute DEF AreChecks
<1> HIDE DEF burned, left
<1>16. Executes(charge, Loaded, View(amm, charged, supply)) /\ IsSequence(charge)
  <2>1. Executes(charge, View(amm, bal, supply), View(amm, charged, supply))
    BY <1>12, PayExecutes
  <2>2. IsSequence(charge)
    BY OneStepIsASequence, WhenIsASequence
  <2> QED BY <2>1, <2>2, LoadedView
<1> HIDE DEF charged
<1>17. \E w : Executes(<<redeem, pay>>, View(amm, charged, supply), w)
  <2>1. /\ CanExecute(redeem, View(amm, charged, supply))
        /\ Effect(redeem, View(amm, charged, supply)) = View(amm, burned, left)
    <3>1. CanExecute(redeem, View(amm, charged, supply))
      BY <1>12, RedeemStep
    <3>2. Effect(redeem, View(amm, charged, supply)) = View(amm, burned, left)
      BY RedeemEffect DEF burned, left
    <3> QED BY <3>1, <3>2
  <2>2. CanExecute(pay, View(amm, burned, left))
    BY <1>12, PayStep
  <2> HIDE DEF redeem, pay
  <2> QED BY <2>1, <2>2, TwoStepsExecute
<1>18. IsSequence(first) /\ IsSequence(second) /\ IsSequence(<<redeem, pay>>)
  BY TwoStepsAreASequence, CheckAccountsStepsFacts DEF AreChecks
<1> HIDE DEF first, second, checks, charge, redeem, pay
<1>19. Executes(first \o second, Loaded, Loaded) /\ IsSequence(first \o second)
  BY <1>13, <1>14, <1>18, ExecutesBoth, ConcatFacts
<1>20. Executes(first \o second \o checks, Loaded, Loaded) /\ IsSequence(first \o second \o checks)
  BY <1>15, <1>19, ExecutesBoth, ConcatFacts
<1>21. /\ Executes(first \o second \o checks \o charge, Loaded, View(amm, charged, supply))
       /\ IsSequence(first \o second \o checks \o charge)
  BY <1>16, <1>20, ExecutesBoth, ConcatFacts
<1> QED BY <1>1, <1>17, <1>18, <1>21, ExecutesBoth

\* what f tokens of fee and the payments r leave of the checks of withdraw_all
WithdrawsAll(acc, n, minimum_a, minimum_b, f, r) ==
    LET signers  == {acc.owner, SeedSigner(acc.amm)}
        amount_a == AtMost(bal[acc.vault_token_a], r.token_a_amount)
        amount_b == AtMost(bal[acc.vault_token_b], r.token_b_amount)
        on_b     == SideBPayment(amount_a, amount_b)
        charged  == IF f = 0 THEN bal ELSE Transfer(bal, acc.source_info, acc.fee_account, f)
        burned   == Burn(charged, acc.source_info, n - f)
        paid_a   == IF amount_a = 0 THEN burned
                    ELSE Transfer(burned, acc.vault_token_a, acc.dest_token_a_info, amount_a)
    IN  /\ f <= n
        /\ r.token_a_amount \in U64 /\ minimum_a <= amount_a
        /\ amount_a = 0 => bal[acc.vault_token_a] = 0
        /\ r.token_b_amount \in U64 /\ minimum_b <= amount_b
        /\ amount_b = 0 => bal[acc.vault_token_b] = 0
        /\ f # 0 => CanTransfer(bal, acc.source_info, acc.fee_account, f, acc.owner, {acc.owner})
        /\ CanBurn(charged, supply[acc.pool_mint], acc.source_info, n - f, acc.pool_mint,
                   acc.owner, {acc.owner})
        /\ amount_a # 0 => CanTransfer(burned, acc.vault_token_a, acc.dest_token_a_info,
                                       amount_a, Authority(acc.amm), signers)
        /\ amount_b # 0 => CanTransfer(paid_a, acc.vault_token_b, acc.dest_token_b_info,
                                       on_b, Authority(acc.amm), signers)

LEMMA WithdrawAllServed ==
    ASSUME TypeOK, NEW acc \in WithdrawAllAccounts, NEW arg, arg.pool_token_amount \in U64,
           WithdrawAllAccountsHold(acc),
           \E f \in WithdrawFee(acc, acc.source_info, arg.pool_token_amount) :
             \E r \in PoolTokensToTradingTokens(arg.pool_token_amount - f, supply[acc.pool_mint],
                          bal[acc.vault_token_a], bal[acc.vault_token_b], "Floor") :
               WithdrawsAll(acc, arg.pool_token_amount, arg.minimum_a, arg.minimum_b, f, r)
    PROVE  \E w : Executes(WithdrawAllSteps(acc, arg), Loaded, w)
<1> DEFINE p       == acc.amm
           n       == arg.pool_token_amount
           signers == {acc.owner, SeedSigner(p)}
           in_a    == bal[acc.vault_token_a]
           in_b    == bal[acc.vault_token_b]
           fee     == WithdrawFee(acc, acc.source_info, n)
           rest    == { n - f : f \in { f \in fee : f <= n } }
           results == UNION { PoolTokensToTradingTokens(k, supply[acc.pool_mint], in_a, in_b,
                                                        "Floor") : k \in rest }
           get     == Given(results, [token_a_amount |-> 0, token_b_amount |-> 0])
           withdraw_fee   == Given(fee, 0)
           burn_amount    == Given(rest, 0)
           token_a_amount == AtMost(in_a, get.token_a_amount)
           token_b_amount == AtMost(in_b, get.token_b_amount)
           paid_on_side_b == SideBPayment(token_a_amount, token_b_amount)
           first   == << Require(WithdrawAllConstraints(acc), "Constraint") >>
           second  == CheckAccountsSteps(p, acc.vault_token_a, acc.vault_token_b, acc.pool_mint,
                              {acc.dest_token_a_info}, {acc.dest_token_b_info}, {acc.fee_account})
           checks  == << Require(fee # {}, "FeeCalculationFailure"),
                         Require(rest # {}, "CalculationFailure"),
                         Require(results # {}, "ZeroTradingTokens"),
                         Require(get.token_a_amount \in U64, "Panic"),
                         Require(arg.minimum_a <= token_a_amount, "ExceededSlippage"),
                         Require(token_a_amount = 0 => in_a = 0, "ZeroTradingTokens"),
                         Require(get.token_b_amount \in U64, "Panic"),
                         Require(arg.minimum_b <= token_b_amount, "ExceededSlippage"),
                         Require(token_b_amount = 0 => in_b = 0, "ZeroTradingTokens") >>
           charge  == When(withdraw_fee > 0,
                           << Pay(acc.source_info, acc.fee_account, withdraw_fee, acc.owner,
                                  {acc.owner}) >>)
           redeem  == Redeem(acc.pool_mint, acc.source_info, burn_amount, acc.owner)
           pay_a   == When(token_a_amount > 0,
                           << Pay(acc.vault_token_a, acc.dest_token_a_info, token_a_amount,
                                  Authority(p), signers) >>)
           pay_b   == When(token_b_amount > 0,
                           << Pay(acc.vault_token_b, acc.dest_token_b_info, paid_on_side_b,
                                  Authority(p), signers) >>)
<1>1. WithdrawAllSteps(acc, arg) = first \o second \o checks \o charge \o <<redeem>> \o pay_a \o pay_b
  BY DEF WithdrawAllSteps
<1> DEFINE Withdraws(f, r) ==
             LET amount_a == AtMost(in_a, r.token_a_amount)
                 amount_b == AtMost(in_b, r.token_b_amount)
                 on_b     == SideBPayment(amount_a, amount_b)
                 charged  == IF f = 0 THEN bal ELSE Transfer(bal, acc.source_info, acc.fee_account, f)
                 burned   == Burn(charged, acc.source_info, n - f)
                 paid_a   == IF amount_a = 0 THEN burned
                             ELSE Transfer(burned, acc.vault_token_a, acc.dest_token_a_info, amount_a)
             IN  /\ f <= n
                 /\ r.token_a_amount \in U64 /\ arg.minimum_a <= amount_a
                 /\ amount_a = 0 => in_a = 0
                 /\ r.token_b_amount \in U64 /\ arg.minimum_b <= amount_b
                 /\ amount_b = 0 => in_b = 0
                 /\ f # 0 => CanTransfer(bal, acc.source_info, acc.fee_account, f, acc.owner,
                                         {acc.owner})
                 /\ CanBurn(charged, supply[acc.pool_mint], acc.source_info, n - f, acc.pool_mint,
                            acc.owner, {acc.owner})
                 /\ amount_a # 0 => CanTransfer(burned, acc.vault_token_a, acc.dest_token_a_info,
                                                amount_a, Authority(p), signers)
                 /\ amount_b # 0 => CanTransfer(paid_a, acc.vault_token_b, acc.dest_token_b_info,
                                                on_b, Authority(p), signers)
<1>2. WithdrawAllAccountsHold(acc)
  OBVIOUS
<1>3. \E f \in fee : \E r \in PoolTokensToTradingTokens(n - f, supply[acc.pool_mint], in_a, in_b,
                                                        "Floor") : Withdraws(f, r)
  BY DEF WithdrawsAll
<1>4. PICK f \in fee : \E r \in PoolTokensToTradingTokens(n - f, supply[acc.pool_mint], in_a, in_b,
                                                          "Floor") : Withdraws(f, r)
  <2> HIDE DEF fee, Withdraws
  <2> QED BY <1>3
<1>5. PICK r \in PoolTokensToTradingTokens(n - f, supply[acc.pool_mint], in_a, in_b, "Floor") :
        Withdraws(f, r)
  <2> HIDE DEF fee, Withdraws
  <2> QED BY <1>4
<1>6. fee # {} /\ withdraw_fee = f /\ f \in Nat /\ IsOption(fee)
  <2>1. p \in Pools /\ amm[p].is_initialized
    BY <1>2 DEF WithdrawAllAccountsHold, WithdrawAllConstraints, WithdrawAllAccounts
  <2>2. IsOption(fee) /\ fee \subseteq Nat
    BY <2>1, WithdrawFeeIsNatural
  <2> HIDE DEF fee
  <2> QED BY <2>2, GivenIsTheElement
<1>7. rest # {} /\ burn_amount = n - f /\ rest = {n - f}
  <2>1. f <= n
    BY <1>5
  <2> HIDE DEF fee
  <2>2. rest = {n - f}
    BY <1>6, <2>1 DEF IsOption
  <2> HIDE DEF rest
  <2>3. IsOption(rest) /\ n - f \in rest
    BY <2>2 DEF IsOption
  <2> QED BY <2>2, <2>3, GivenIsTheElement
<1>8. results # {} /\ get = r
  <2> HIDE DEF rest
  <2>1. results = PoolTokensToTradingTokens(n - f, supply[acc.pool_mint], in_a, in_b, "Floor")
    BY <1>7
  <2> HIDE DEF results
  <2>2. IsOption(results) /\ r \in results
    BY <2>1, TradingTokensAreAnOption
  <2> QED BY <2>2, GivenIsTheElement
<1> HIDE DEF fee, rest, results, get, withdraw_fee, burn_amount, token_a_amount, token_b_amount
<1> DEFINE charged == IF withdraw_fee = 0 THEN bal
                      ELSE Transfer(bal, acc.source_info, acc.fee_account, withdraw_fee)
           burned  == Burn(charged, acc.source_info, burn_amount)
           left    == LessSupply(supply, acc.pool_mint, burn_amount)
           paid_a  == IF token_a_amount = 0 THEN burned
                      ELSE Transfer(burned, acc.vault_token_a, acc.dest_token_a_info, token_a_amount)
           paid_b  == IF token_b_amount = 0 THEN paid_a
                      ELSE Transfer(paid_a, acc.vault_token_b, acc.dest_token_b_info, paid_on_side_b)
<1>9. /\ get.token_a_amount \in U64 /\ arg.minimum_a <= token_a_amount
      /\ token_a_amount = 0 => in_a = 0
      /\ get.token_b_amount \in U64 /\ arg.minimum_b <= token_b_amount
      /\ token_b_amount = 0 => in_b = 0
  BY <1>5, <1>8 DEF token_a_amount, token_b_amount
<1>10. /\ withdraw_fee # 0 => CanTransfer(bal, acc.source_info, acc.fee_account, withdraw_fee,
                                          acc.owner, {acc.owner})
       /\ CanBurn(charged, supply[acc.pool_mint], acc.source_info, burn_amount, acc.pool_mint,
                  acc.owner, {acc.owner})
  BY <1>5, <1>6, <1>7
<1>11. token_a_amount # 0 => CanTransfer(burned, acc.vault_token_a, acc.dest_token_a_info,
                                         token_a_amount, Authority(p), signers)
  BY <1>5, <1>6, <1>7, <1>8 DEF token_a_amount
<1>12. token_b_amount # 0 => CanTransfer(paid_a, acc.vault_token_b, acc.dest_token_b_info,
                                         paid_on_side_b, Authority(p), signers)
  BY <1>5, <1>6, <1>7, <1>8 DEF token_a_amount, token_b_amount
<1> HIDE DEF Withdraws
<1>13. token_a_amount \in Nat /\ token_b_amount \in Nat
  <2>1. in_a \in U64 /\ in_b \in U64
    BY DEF TypeOK, Balances, WithdrawAllAccounts
  <2> QED BY <1>9, <2>1, U64Assumption DEF U64, AtMost, token_a_amount, token_b_amount
<1>14. Executes(first, Loaded, Loaded)
  <2>1. WithdrawAllConstraints(acc)
    BY <1>2 DEF WithdrawAllAccountsHold
  <2>2. WithdrawAllConstraints(acc) \in BOOLEAN
    BY DEF WithdrawAllConstraints
  <2> QED BY <2>1, <2>2, CheckExecutes
<1>15. Executes(second, Loaded, Loaded)
  BY <1>2, CheckAccountsExecute DEF WithdrawAllAccountsHold
<1>16. Executes(checks, Loaded, Loaded) /\ IsSequence(checks)
  <2> DEFINE S == {checks[i] : i \in 1 .. 9}
  <2>1. checks \in Seq(S) /\ Len(checks) = 9
    OBVIOUS
  <2>2. \A i \in 1 .. 9 : checks[i].kind = "require"
    BY DEF Require
  <2>3. \A i \in 1 .. 9 : checks[i].error \in Errors
    BY DEF Require, Errors, SwapError
  <2>4. checks[1].ok /\ checks[2].ok /\ checks[3].ok
    BY <1>6, <1>7, <1>8 DEF Require
  <2>5. checks[4].ok /\ checks[5].ok /\ checks[6].ok
    BY <1>9 DEF Require
  <2>6. checks[7].ok /\ checks[8].ok /\ checks[9].ok
    BY <1>9 DEF Require
  <2> HIDE DEF checks, S
  <2>7. \A i \in 1 .. 9 : checks[i].ok
    BY <2>4, <2>5, <2>6
  <2>8. AreChecks(checks)
    BY <2>1, <2>2, <2>3 DEF AreChecks, IsSequence
  <2> QED BY <2>1, <2>7, <2>8, ChecksExecute DEF AreChecks
<1>17. Executes(charge, Loaded, View(amm, charged, supply)) /\ IsSequence(charge)
  <2>1. withdraw_fee \in Nat
    BY <1>6
  <2>2. Executes(charge, View(amm, bal, supply), View(amm, charged, supply))
    BY <1>10, <2>1, PayExecutes
  <2>3. IsSequence(charge)
    BY OneStepIsASequence, WhenIsASequence
  <2> QED BY <2>2, <2>3, LoadedView
<1> HIDE DEF charged
<1>18. Executes(<<redeem>>, View(amm, charged, supply), View(amm, burned, left)) /\ IsSequence(<<redeem>>)
  <2>1. CanExecute(redeem, View(amm, charged, supply))
    BY <1>10, RedeemStep
  <2>2. Effect(redeem, View(amm, charged, supply)) = View(amm, burned, left)
    BY RedeemEffect
  <2> HIDE DEF redeem, burned, left
  <2> QED BY <2>1, <2>2, StepExecutes, OneStepIsASequence
<1> HIDE DEF burned, left
<1>19. Executes(pay_a, View(amm, burned, left), View(amm, paid_a, left)) /\ IsSequence(pay_a)
  <2>1. Executes(pay_a, View(amm, burned, left), View(amm, paid_a, left))
    BY <1>11, <1>13, PayExecutes
  <2> QED BY <2>1, OneStepIsASequence, WhenIsASequence
<1> HIDE DEF paid_a, paid_on_side_b
<1>20. Executes(pay_b, View(amm, paid_a, left), View(amm, paid_b, left)) /\ IsSequence(pay_b)
  <2>1. Executes(pay_b, View(amm, paid_a, left), View(amm, paid_b, left))
    BY <1>12, <1>13, PayExecutes
  <2> QED BY <2>1, OneStepIsASequence, WhenIsASequence
<1>21. IsSequence(first) /\ IsSequence(second)
  BY OneStepIsASequence, CheckAccountsStepsFacts DEF AreChecks
<1> HIDE DEF first, second, checks, charge, redeem, pay_a, pay_b, paid_b
<1>22. Executes(first \o second, Loaded, Loaded) /\ IsSequence(first \o second)
  BY <1>14, <1>15, <1>21, ExecutesBoth, ConcatFacts
<1>23. Executes(first \o second \o checks, Loaded, Loaded) /\ IsSequence(first \o second \o checks)
  BY <1>16, <1>22, ExecutesBoth, ConcatFacts
<1>24. /\ Executes(first \o second \o checks \o charge, Loaded, View(amm, charged, supply))
       /\ IsSequence(first \o second \o checks \o charge)
  BY <1>17, <1>23, ExecutesBoth, ConcatFacts
<1>25. /\ Executes(first \o second \o checks \o charge \o <<redeem>>, Loaded, View(amm, burned, left))
       /\ IsSequence(first \o second \o checks \o charge \o <<redeem>>)
  BY <1>18, <1>24, ExecutesBoth, ConcatFacts
<1>26. /\ Executes(first \o second \o checks \o charge \o <<redeem>> \o pay_a, Loaded,
                   View(amm, paid_a, left))
       /\ IsSequence(first \o second \o checks \o charge \o <<redeem>> \o pay_a)
  BY <1>19, <1>25, ExecutesBoth, ConcatFacts
<1> QED BY <1>1, <1>20, <1>26, ExecutesBoth

LEMMA WithdrawAllPossible ==
    ASSUME TypeOK, NEW acc \in WithdrawAllAccounts, NEW arg, arg.pool_token_amount \in U64,
           WithdrawAll(acc, arg.pool_token_amount, arg.minimum_a, arg.minimum_b)
    PROVE  \E w : Executes(WithdrawAllSteps(acc, arg), Loaded, w)
<1>1. WithdrawAllAccountsHold(acc)
  BY DEF WithdrawAll
<1>2. \E f \in WithdrawFee(acc, acc.source_info, arg.pool_token_amount) :
        \E r \in PoolTokensToTradingTokens(arg.pool_token_amount - f, supply[acc.pool_mint],
                     bal[acc.vault_token_a], bal[acc.vault_token_b], "Floor") :
          WithdrawsAll(acc, arg.pool_token_amount, arg.minimum_a, arg.minimum_b, f, r)
  BY DEF WithdrawAll, WithdrawsAll
<1> QED BY <1>1, <1>2, WithdrawAllServed

LEMMA SwapPossible ==
    ASSUME TypeOK, NEW acc \in SwapAccounts, NEW arg, Swap(acc, arg.amount_in, arg.minimum)
    PROVE  \E w : Executes(SwapSteps(acc, arg), Loaded, w)
<1> DEFINE p       == acc.amm
           a       == amm[p]
           m       == acc.pool_mint
           signers == {acc.owner, SeedSigner(p)}
           trade   == CurveSwap(arg.amount_in, bal[acc.swap_source], bal[acc.swap_destination], a.fees)
           fee_tokens == UNION { OwnerFeePoolTokens(acc, r) : r \in trade }
           result  == Given(trade, [source_amount_swapped |-> 0, destination_amount_swapped |-> 0])
           pool_token_amount == Given(fee_tokens, 0)
           named   == acc.host_fee_account # NoHost /\ pool_token_amount > 0
           hosts   == HostFee(a.fees, pool_token_amount)
           host_fee == IF named THEN Given(hosts, 0) ELSE 0
           owner_fee == pool_token_amount - host_fee
           checks  == << Require(SwapOwnersHold(acc), "Constraint"),
                         Require(Authority(p) = AuthorityId(p), "InvalidProgramAddress"),
                         Require(acc.swap_source \in {a.token_a_account, a.token_b_account},
                                 "IncorrectSwapAccount"),
                         Require(acc.swap_destination \in {a.token_a_account, a.token_b_account},
                                 "IncorrectSwapAccount"),
                         Require(acc.swap_source # acc.swap_destination, "InvalidInput"),
                         Require(acc.swap_source # acc.vault_source_info, "InvalidInput"),
                         Require(acc.swap_destination # acc.vault_destination_info, "InvalidInput"),
                         Require(acc.pool_mint = a.pool_mint, "IncorrectPoolMint"),
                         Require(acc.fee_account = a.pool_fee_account, "IncorrectFeeAccount"),
                         Require(trade # {}, "ZeroTradingTokens"),
                         Require(arg.minimum <= result.destination_amount_swapped,
                                 "ExceededSlippage") >>
           pay_in  == Pay(acc.vault_source_info, acc.swap_source, result.source_amount_swapped,
                          acc.owner, signers)
           priced  == Require(fee_tokens # {}, "FeeCalculationFailure")
           host_mint  == Require(acc.host_fee_account.mint = acc.pool_mint, "IncorrectPoolMint")
           host_known == Require(hosts # {}, "FeeCalculationFailure")
           host_part  == Require(host_fee <= pool_token_amount, "FeeCalculationFailure")
           naming  == When(named, <<host_mint, host_known, host_part>>)
           hosting == When(host_fee > 0,
                           << Require(host_fee \in U64, "Panic"),
                              Require(acc.writable, "TokenError"),
                              Issue(m, acc.host_fee_account, host_fee, Authority(p), signers) >>)
           owning  == When(pool_token_amount > 0,
                           << Require(owner_fee \in U64, "Panic"),
                              Require(acc.writable, "TokenError"),
                              Issue(m, acc.fee_account, owner_fee, Authority(p), signers) >>)
           pay_out == Pay(acc.swap_destination, acc.vault_destination_info,
                          result.destination_amount_swapped, Authority(p), signers)
<1>1. SwapSteps(acc, arg) = checks \o <<pay_in, priced>> \o naming \o hosting \o owning \o <<pay_out>>
  BY DEF SwapSteps
<1> DEFINE Trades(r, k, f) ==
             LET paid   == Transfer(bal, acc.vault_source_info, acc.swap_source,
                                    r.source_amount_swapped)
                 hosted == IF f.host = 0 THEN paid ELSE MintTo(paid, acc.host_fee_account, f.host)
                 minted == IF k = 0 THEN hosted ELSE MintTo(hosted, acc.fee_account, f.owner)
             IN  /\ arg.minimum <= r.destination_amount_swapped
                 /\ CanTransfer(bal, acc.vault_source_info, acc.swap_source,
                                r.source_amount_swapped, acc.owner, signers)
                 /\ k # 0 => acc.writable
                 /\ f.host # 0 => CanMintTo(paid, supply[m], acc.host_fee_account, f.host, m,
                                            Authority(p), signers)
                 /\ k # 0 => CanMintTo(hosted, supply[m] + f.host, acc.fee_account, f.owner, m,
                                       Authority(p), signers)
                 /\ CanTransfer(minted, acc.swap_destination, acc.vault_destination_info,
                                r.destination_amount_swapped, Authority(p), signers)
<1>2. SwapAccountsHold(acc)
  BY DEF Swap
<1>3. \E r \in trade : \E k \in OwnerFeePoolTokens(acc, r) : \E f \in FeeMints(acc, k) : Trades(r, k, f)
  BY DEF Swap
<1> HIDE DEF Trades
<1>4. PICK r \in trade : \E k \in OwnerFeePoolTokens(acc, r) : \E f \in FeeMints(acc, k) : Trades(r, k, f)
  <2> HIDE DEF trade
  <2> QED BY <1>3
<1>5. PICK k \in OwnerFeePoolTokens(acc, r) : \E f \in FeeMints(acc, k) : Trades(r, k, f)
  BY <1>4
<1>6. PICK f \in FeeMints(acc, k) : Trades(r, k, f)
  BY <1>5
<1>7. trade # {} /\ result = r /\ IsOption(trade)
  <2>1. IsOption(trade)
    BY SwapIsAnOption
  <2> HIDE DEF trade
  <2> QED BY <2>1, GivenIsTheElement
<1> HIDE DEF trade
<1>8. fee_tokens # {} /\ pool_token_amount = k /\ k \in Nat
  <2>1. fee_tokens = OwnerFeePoolTokens(acc, r)
    BY <1>7 DEF IsOption
  <2> HIDE DEF fee_tokens
  <2>2. IsOption(fee_tokens) /\ fee_tokens \subseteq Nat
    <3>1. IsOption(OwnerFeePoolTokens(acc, r))
      BY WithdrawSingleIsAnOption DEF OwnerFeePoolTokens
    <3>2. OwnerFeePoolTokens(acc, r) \subseteq Nat
      BY WithdrawSingleIsNatural DEF OwnerFeePoolTokens
    <3> QED BY <2>1, <3>1, <3>2
  <2>3. k \in fee_tokens
    BY <2>1
  <2> QED BY <2>2, <2>3, GivenIsTheElement
<1> HIDE DEF fee_tokens, result, pool_token_amount
<1>9. /\ host_fee = f.host /\ owner_fee = f.owner /\ host_fee \in Nat
      /\ host_fee # 0 => pool_token_amount # 0
      /\ named => /\ acc.host_fee_account.mint = acc.pool_mint /\ hosts # {}
                  /\ host_fee <= pool_token_amount
  <2>1. CASE ~named
    <3>1. k = 0 \/ acc.host_fee_account = NoHost
      BY <1>8, <2>1
    <3>2. f = [host |-> 0, owner |-> k]
      BY <3>1 DEF FeeMints, Some
    <3> QED BY <1>8, <2>1, <3>2
  <2>2. CASE named
    <3>1. ~(k = 0 \/ acc.host_fee_account = NoHost)
      BY <1>8, <2>2
    <3>2. PICK h \in hosts : /\ acc.host_fee_account.mint = acc.pool_mint /\ h <= k
                             /\ f = [host |-> h, owner |-> k - h]
      BY <1>8, <3>1 DEF FeeMints
    <3>3. a.fees \in CurveFees
      <4>1. a \in AmmData \cup {NoAmm} /\ a.is_initialized
        BY <1>2 DEF TypeOK, SwapAccounts, SwapAccountsHold
      <4>2. a \in AmmData
        BY <4>1 DEF NoAmm
      <4> QED BY <4>2 DEF AmmData
    <3>4. hosts \subseteq Nat /\ IsOption(hosts)
      BY <1>8, <3>3, FeeIsNatural, FeeIsAnOption DEF HostFee, CurveFees
    <3> HIDE DEF hosts
    <3>5. hosts # {} /\ Given(hosts, 0) = h
      BY <3>2, <3>4, GivenIsTheElement
    <3>6. host_fee = h
      BY <2>2, <3>5
    <3> QED BY <1>8, <3>1, <3>2, <3>4, <3>5, <3>6
  <2> QED BY <2>1, <2>2
<1> HIDE DEF hosts, host_fee, owner_fee
<1> DEFINE paid   == Transfer(bal, acc.vault_source_info, acc.swap_source, result.source_amount_swapped)
           hosted == IF host_fee > 0 THEN MintTo(paid, acc.host_fee_account, host_fee) ELSE paid
           minted == IF pool_token_amount > 0 THEN MintTo(hosted, acc.fee_account, owner_fee) ELSE hosted
           more   == IF host_fee > 0 THEN MoreSupply(supply, m, host_fee) ELSE supply
           most   == IF pool_token_amount > 0 THEN MoreSupply(more, m, owner_fee) ELSE more
<1>10. /\ host_fee > 0 <=> ~(f.host = 0)
       /\ pool_token_amount > 0 <=> ~(k = 0)
  BY <1>8, <1>9
<1>11. /\ arg.minimum <= result.destination_amount_swapped
       /\ CanTransfer(bal, acc.vault_source_info, acc.swap_source, result.source_amount_swapped,
                      acc.owner, signers)
       /\ pool_token_amount > 0 => acc.writable
  BY <1>6, <1>7, <1>10 DEF Trades
<1>12. host_fee > 0 => CanMintTo(paid, supply[m], acc.host_fee_account, host_fee, m, Authority(p),
                                 signers)
  BY <1>6, <1>7, <1>9, <1>10 DEF Trades
<1>13. pool_token_amount > 0 => CanMintTo(hosted, supply[m] + host_fee, acc.fee_account, owner_fee, m,
                                          Authority(p), signers)
  BY <1>6, <1>7, <1>9, <1>10 DEF Trades
<1>14. CanTransfer(minted, acc.swap_destination, acc.vault_destination_info,
                   result.destination_amount_swapped, Authority(p), signers)
  BY <1>6, <1>7, <1>9, <1>10 DEF Trades
<1>15. more[m] = supply[m] + host_fee
  <2>1. supply \in [PoolMints -> U64] /\ m \in PoolMints /\ supply[m] \in Nat
    BY U64Assumption DEF TypeOK, SwapAccounts, U64
  <2> HIDE DEF m
  <2> QED BY <1>9, <2>1 DEF MoreSupply
<1> HIDE DEF paid, hosted, minted, more, most
<1>16. Executes(checks, Loaded, Loaded) /\ IsSequence(checks)
  <2>1. /\ SwapOwnersHold(acc) /\ Authority(p) = AuthorityId(p)
        /\ acc.swap_source \in {a.token_a_account, a.token_b_account}
        /\ acc.swap_destination \in {a.token_a_account, a.token_b_account}
        /\ acc.swap_source # acc.swap_destination /\ acc.swap_source # acc.vault_source_info
        /\ acc.swap_destination # acc.vault_destination_info
        /\ acc.pool_mint = a.pool_mint /\ acc.fee_account = a.pool_fee_account
    BY <1>2 DEF SwapAccountsHold
  <2>2. checks[1].ok /\ checks[2].ok
    BY <2>1 DEF Require
  <2>3. checks[3].ok /\ checks[4].ok
    BY <2>1 DEF Require
  <2>4. checks[5].ok /\ checks[6].ok /\ checks[7].ok
    BY <2>1 DEF Require
  <2>5. checks[8].ok /\ checks[9].ok
    BY <2>1 DEF Require
  <2>6. checks[10].ok /\ checks[11].ok
    BY <1>7, <1>11 DEF Require
  <2> HIDE DEF a, p
  <2> DEFINE S == {checks[i] : i \in 1 .. 11}
  <2>7. checks \in Seq(S) /\ Len(checks) = 11
    OBVIOUS
  <2>8. \A i \in 1 .. 11 : checks[i].kind = "require"
    BY DEF Require
  <2>9. \A i \in 1 .. 11 : checks[i].error \in Errors
    BY DEF Require, Errors, SwapError
  <2> HIDE DEF checks, S
  <2>10. \A i \in 1 .. 11 : checks[i].ok
    BY <2>2, <2>3, <2>4, <2>5, <2>6
  <2>11. AreChecks(checks)
    BY <2>7, <2>8, <2>9 DEF AreChecks, IsSequence
  <2> QED BY <2>7, <2>10, <2>11, ChecksExecute DEF AreChecks
<1>17. Executes(<<pay_in, priced>>, Loaded, View(amm, paid, supply))
  <2> DEFINE v == View(amm, paid, supply)
  <2>1. CanExecute(pay_in, Loaded) /\ Effect(pay_in, Loaded) = v
    BY <1>11, PayStep, LoadedView DEF paid
  <2> HIDE DEF v
  <2>2. CanExecute(priced, v) /\ Effect(priced, v) = v
    BY <1>8, RequireStep
  <2> HIDE DEF pay_in, priced
  <2>3. Executes(<<pay_in, priced>>, Loaded, v)
    BY <2>1, <2>2, TwoStepsExecute
  <2> QED BY <2>3 DEF v
<1>18. Executes(naming, View(amm, paid, supply), View(amm, paid, supply))
  <2> DEFINE v == View(amm, paid, supply)
  <2> HIDE DEF v
  <2>1. ASSUME named PROVE Executes(<<host_mint, host_known, host_part>>, v, v)
    <3>1. host_mint.ok /\ host_known.ok /\ host_part.ok
      BY <1>9, <2>1 DEF Require
    <3>2. host_mint.kind = "require" /\ host_known.kind = "require" /\ host_part.kind = "require"
      BY DEF Require
    <3> HIDE DEF host_mint, host_known, host_part
    <3>3. /\ CanExecute(host_mint, v) /\ CanExecute(host_known, v) /\ CanExecute(host_part, v)
          /\ Effect(host_mint, v) = v /\ Effect(host_known, v) = v /\ Effect(host_part, v) = v
      BY <3>1, <3>2 DEF CanExecute, Effect
    <3> QED BY <3>3, ThreeStepsExecute
  <2>2. named \in BOOLEAN
    OBVIOUS
  <2> HIDE DEF named, host_mint, host_known, host_part
  <2>3. Executes(naming, v, v)
    BY <2>1, <2>2, WhenExecutes
  <2> QED BY <2>3 DEF v
<1>19. Executes(hosting, View(amm, paid, supply), View(amm, hosted, more))
  <2> DEFINE some     == host_fee > 0
             wide     == Require(host_fee \in U64, "Panic")
             writable == Require(acc.writable, "TokenError")
  <2>1. /\ some \in BOOLEAN /\ wide.kind = "require" /\ writable.kind = "require"
        /\ hosted = IF some THEN MintTo(paid, acc.host_fee_account, host_fee) ELSE paid
        /\ more = IF some THEN MoreSupply(supply, m, host_fee) ELSE supply
    BY DEF Require, hosted, more
  <2>2. some => /\ wide.ok /\ writable.ok
                /\ CanMintTo(paid, supply[m], acc.host_fee_account, host_fee, m, Authority(p), signers)
    <3> SUFFICES ASSUME some
                 PROVE  /\ wide.ok /\ writable.ok
                        /\ CanMintTo(paid, supply[m], acc.host_fee_account, host_fee, m,
                                     Authority(p), signers)
      OBVIOUS
    <3>1. CanMintTo(paid, supply[m], acc.host_fee_account, host_fee, m, Authority(p), signers)
      BY <1>12
    <3>2. host_fee \in U64
      BY <3>1 DEF CanMintTo
    <3>3. acc.writable
      <4>1. host_fee # 0
        BY <1>9
      <4>2. pool_token_amount > 0
        BY <1>8, <1>9, <4>1
      <4> QED BY <1>11, <4>2
    <3> QED BY <3>1, <3>2, <3>3 DEF Require
  <2> HIDE DEF some, wide, writable
  <2>3. Executes(When(some, <<wide, writable, Issue(m, acc.host_fee_account, host_fee, Authority(p),
                                                    signers)>>),
                 View(amm, paid, supply), View(amm, hosted, more))
    BY <2>1, <2>2, IssueExecutes
  <2> QED BY <2>3 DEF some, wide, writable
<1>20. Executes(owning, View(amm, hosted, more), View(amm, minted, most))
  <2> DEFINE some     == pool_token_amount > 0
             wide     == Require(owner_fee \in U64, "Panic")
             writable == Require(acc.writable, "TokenError")
  <2>1. /\ some \in BOOLEAN /\ wide.kind = "require" /\ writable.kind = "require"
        /\ minted = IF some THEN MintTo(hosted, acc.fee_account, owner_fee) ELSE hosted
        /\ most = IF some THEN MoreSupply(more, m, owner_fee) ELSE more
    BY DEF Require, minted, most
  <2>2. some => /\ wide.ok /\ writable.ok
                /\ CanMintTo(hosted, more[m], acc.fee_account, owner_fee, m, Authority(p), signers)
    BY <1>11, <1>13, <1>15 DEF CanMintTo, Require
  <2> HIDE DEF some, wide, writable
  <2>3. Executes(When(some, <<wide, writable, Issue(m, acc.fee_account, owner_fee, Authority(p),
                                                    signers)>>),
                 View(amm, hosted, more), View(amm, minted, most))
    BY <2>1, <2>2, IssueExecutes
  <2> QED BY <2>3 DEF some, wide, writable
<1>21. \E w : Executes(<<pay_out>>, View(amm, minted, most), w)
  <2>1. CanExecute(pay_out, View(amm, minted, most))
    BY <1>14, PayStep
  <2> HIDE DEF pay_out
  <2> QED BY <2>1, StepExecutes
<1>22. /\ IsSequence(<<pay_in, priced>>) /\ IsSequence(naming) /\ IsSequence(hosting)
       /\ IsSequence(owning) /\ IsSequence(<<pay_out>>)
  <2>1. IsSequence(<<pay_in, priced>>) /\ IsSequence(<<pay_out>>)
    BY OneStepIsASequence, TwoStepsAreASequence
  <2>2. IsSequence(naming)
    BY ThreeStepsAreASequence, WhenIsASequence
  <2>3. IsSequence(hosting)
    BY ThreeStepsAreASequence, WhenIsASequence
  <2>4. IsSequence(owning)
    BY ThreeStepsAreASequence, WhenIsASequence
  <2> QED BY <2>1, <2>2, <2>3, <2>4
<1> HIDE DEF checks, pay_in, priced, naming, hosting, owning, pay_out
<1>23. /\ Executes(checks \o <<pay_in, priced>>, Loaded, View(amm, paid, supply))
       /\ IsSequence(checks \o <<pay_in, priced>>)
  BY <1>16, <1>17, <1>22, ExecutesBoth, ConcatFacts
<1>24. /\ Executes(checks \o <<pay_in, priced>> \o naming, Loaded, View(amm, paid, supply))
       /\ IsSequence(checks \o <<pay_in, priced>> \o naming)
  BY <1>18, <1>22, <1>23, ExecutesBoth, ConcatFacts
<1>25. /\ Executes(checks \o <<pay_in, priced>> \o naming \o hosting, Loaded, View(amm, hosted, more))
       /\ IsSequence(checks \o <<pay_in, priced>> \o naming \o hosting)
  BY <1>19, <1>22, <1>24, ExecutesBoth, ConcatFacts
<1>26. /\ Executes(checks \o <<pay_in, priced>> \o naming \o hosting \o owning, Loaded,
                   View(amm, minted, most))
       /\ IsSequence(checks \o <<pay_in, priced>> \o naming \o hosting \o owning)
  BY <1>20, <1>22, <1>25, ExecutesBoth, ConcatFacts
<1> QED BY <1>1, <1>21, <1>22, <1>26, ExecutesBoth

LEMMA InitPoolPossible ==
    ASSUME TypeOK, NEW acc, acc.amm \in Pools, acc.owner \in Users, NEW arg,
           InitPool(acc.amm, acc.owner, arg.fees, arg.curve_type, arg.amount0, arg.amount1)
    PROVE  \E w : Executes(InitPoolSteps(acc, arg), Loaded, w)
<1> DEFINE p      == acc.amm
           m      == PoolMint(p)
           wallet == Wallet(acc.owner, m)
           create == Create(p, arg.amount0, arg.amount1)
           c1     == Require(p[1] # p[2], "RepeatedMint")
           c2     == Require(arg.curve_type \in CurveTypes, "Panic")
           c3     == Require(ValidateSupply(arg.amount0, arg.amount1), "EmptySupply")
           c4     == Require(supply[PoolMint(p)] = 0, "InvalidSupply")
           c5     == Require(\A c \in SWAP_CONSTRAINTS : acc.owner = c.owner_key, "InvalidOwner")
           c6     == Require(\A c \in SWAP_CONSTRAINTS : arg.curve_type \in c.valid_curve_types,
                             "UnsupportedCurveType")
           c7     == Require(\A c \in SWAP_CONSTRAINTS : ConstrainFees(arg.fees, c.fees),
                             "InvalidFee")
           c8     == Require(ValidateFees(arg.fees), "InvalidFee")
           checks == <<c1, c2, c3, c4, c5, c6, c7, c8>>
           issue  == Issue(m, wallet, NewPoolSupply, Authority(p), {Authority(p)})
           record == Record(p, NewAmm(p, acc.owner, arg.fees))
           opened == Opened(bal, p, arg.amount0, arg.amount1)
<1>1. InitPoolSteps(acc, arg) = <<create>> \o checks \o <<issue, record>>
  BY DEF InitPoolSteps
<1>2. /\ ~amm[p].is_initialized /\ p[1] # p[2] /\ arg.curve_type \in CurveTypes
      /\ ValidateSupply(arg.amount0, arg.amount1) /\ supply[m] = 0
      /\ ConstraintsHold(acc.owner, arg.curve_type, arg.fees) /\ ValidateFees(arg.fees)
      /\ CanMintTo(bal, supply[m], wallet, NewPoolSupply, m, Authority(p), {Authority(p)})
  BY DEF InitPool
<1>3. Executes(<<create>>, Loaded, View(amm, opened, supply))
  <2>1. CanExecute(create, View(amm, bal, supply))
    BY <1>2, CreateStep
  <2>2. Effect(create, View(amm, bal, supply)) = View(amm, opened, supply)
    BY CreateEffect
  <2> HIDE DEF create, opened
  <2> QED BY <2>1, <2>2, StepExecutes, LoadedView
<1>4. CanMintTo(opened, supply[m], wallet, NewPoolSupply, m, Authority(p), {Authority(p)})
  <2>1. wallet # Vault0(p) /\ wallet # Vault1(p)
    BY DEF Wallet, Vault0, Vault1, TokenAccount
  <2>2. opened[wallet] = bal[wallet]
    <3>1. bal \in Balances /\ wallet \in TokenAccounts
      BY DEF TypeOK, TokenAccounts, Wallets, PoolMints
    <3> HIDE DEF wallet, p
    <3> QED BY <2>1, <3>1 DEF Opened, Balances
  <2> HIDE DEF wallet, m, p, opened
  <2> QED BY <1>2, <2>2 DEF CanMintTo
<1> HIDE DEF opened
<1>5. AreChecks(checks) /\ Len(checks) = 8 /\ \A i \in 1 .. 8 : checks[i].ok
  <2> DEFINE S == {checks[i] : i \in 1 .. 8}
  <2>1. checks \in Seq(S) /\ Len(checks) = 8
    <3> HIDE DEF c1, c2, c3, c4, c5, c6, c7, c8
    <3> QED OBVIOUS
  <2>2. \A i \in 1 .. 8 : checks[i].kind = "require"
    BY DEF Require
  <2>3. \A i \in 1 .. 8 : checks[i].error \in Errors
    BY DEF Require, Errors, SwapError
  <2>4. c1.ok /\ c2.ok /\ c3.ok /\ c4.ok
    BY <1>2 DEF Require
  <2>5. c5.ok /\ c6.ok /\ c7.ok
    BY <1>2 DEF Require, ConstraintsHold
  <2>6. c8.ok
    BY <1>2 DEF Require
  <2> HIDE DEF c1, c2, c3, c4, c5, c6, c7, c8
  <2>7. \A i \in 1 .. 8 : checks[i].ok
    BY <2>4, <2>5, <2>6
  <2> QED BY <2>1, <2>2, <2>3, <2>7 DEF AreChecks, IsSequence
<1> HIDE DEF checks
<1>6. Executes(checks, View(amm, opened, supply), View(amm, opened, supply)) /\ IsSequence(checks)
  BY <1>5, ChecksExecute DEF AreChecks
<1>7. \E w : Executes(<<issue, record>>, View(amm, opened, supply), w)
  <2> HIDE DEF wallet, m, p
  <2>1. CanExecute(issue, View(amm, opened, supply))
    BY <1>4, IssueStep
  <2>2. \A v : CanExecute(record, v)
    BY DEF CanExecute, Record
  <2> HIDE DEF issue, record
  <2> QED BY <2>1, <2>2, TwoStepsExecute
<1>8. IsSequence(<<create>>) /\ IsSequence(<<issue, record>>)
  BY OneStepIsASequence, TwoStepsAreASequence
<1> HIDE DEF create, issue, record
<1>9. /\ Executes(<<create>> \o checks, Loaded, View(amm, opened, supply))
      /\ IsSequence(<<create>> \o checks)
  BY <1>3, <1>6, <1>8, ExecutesBoth, ConcatFacts
<1> QED BY <1>1, <1>7, <1>8, <1>9, ExecutesBoth

\* Every action that is possible is executed to its end: read the other way
\* round, no state and no next state of the accounts satisfies the action of an
\* instruction that cannot be.
LEMMA AtomicIsExecuted ==
    ASSUME TypeOK, NEW ins \in Instructions, Atomic(ins)
    PROVE  \E w : Executes(Steps(ins), Loaded, w)
<1>1. CASE ins.name = "init_pool"
  <2>1. ins.acc.amm \in Pools /\ ins.acc.owner \in Users
    BY <1>1, InstructionCases
  <2>2. InitPool(ins.acc.amm, ins.acc.owner, ins.arg.fees, ins.arg.curve_type, ins.arg.amount0,
                 ins.arg.amount1)
    BY <1>1 DEF Atomic
  <2>3. Steps(ins) = InitPoolSteps(ins.acc, ins.arg)
    BY <1>1 DEF Steps
  <2> QED BY <2>1, <2>2, <2>3, InitPoolPossible
<1>2. CASE ins.name = "swap"
  <2>1. ins.acc \in SwapAccounts
    BY <1>2, InstructionCases, ClientAssumption
  <2>2. Swap(ins.acc, ins.arg.amount_in, ins.arg.minimum)
    BY <1>2 DEF Atomic
  <2>3. amm[ins.acc.amm].is_initialized
    BY <2>2 DEF Swap, SwapAccountsHold
  <2>4. Steps(ins) = SwapSteps(ins.acc, ins.arg)
    BY <1>2, <2>3 DEF Steps
  <2> QED BY <2>1, <2>2, <2>4, SwapPossible
<1>3. CASE ins.name = "deposit_all"
  <2>1. PICK n \in Amounts, m1 \in Limits, m2 \in Limits :
          ins.arg = [pool_token_amount |-> n, maximum_a |-> m1, maximum_b |-> m2]
    BY <1>3, InstructionCases
  <2>2. ins.acc \in DepositAllAccounts /\ n \in U64 /\ m1 \in U64 /\ m2 \in U64
    BY <1>3, InstructionCases, ClientAssumption
  <2>3. DepositAll(ins.acc, n, m1, m2)
    BY <1>3, <2>1 DEF Atomic
  <2>4. amm[ins.acc.amm].is_initialized
    BY <2>3 DEF DepositAll, DepositAllAccountsHold, DepositAllConstraints
  <2>5. Steps(ins) = DepositAllSteps(ins.acc, ins.arg)
    BY <1>3, <2>4 DEF Steps
  <2> QED BY <2>1, <2>2, <2>3, <2>5, DepositAllPossible
<1>4. CASE ins.name = "deposit_single"
  <2>1. PICK n \in Amounts, m \in Limits : ins.arg = [source_token_amount |-> n, minimum |-> m]
    BY <1>4, InstructionCases
  <2>2. ins.acc \in DepositSingleAccounts /\ n \in U64 /\ m \in U64
    BY <1>4, InstructionCases, ClientAssumption
  <2>3. DepositSingle(ins.acc, n, m)
    BY <1>4, <2>1 DEF Atomic
  <2>4. amm[ins.acc.amm].is_initialized
    BY <2>3 DEF DepositSingle, DepositSingleAccountsHold, DepositSingleConstraints
  <2>5. Steps(ins) = DepositSingleSteps(ins.acc, ins.arg)
    BY <1>4, <2>4 DEF Steps
  <2> QED BY <2>1, <2>2, <2>3, <2>5, DepositSinglePossible
<1>5. CASE ins.name = "withdraw_all"
  <2>1. /\ ins.acc \in AccountLists.withdraw_all
        /\ ins.arg.pool_token_amount \in Amounts \cup {bal[ins.acc.source_info]}
    BY <1>5, InstructionCases
  <2>2. ins.acc \in WithdrawAllAccounts
    BY <2>1, ClientAssumption
  <2>3. ins.arg.pool_token_amount \in U64
    <3>1. bal[ins.acc.source_info] \in U64
      BY <2>2 DEF TypeOK, Balances, WithdrawAllAccounts
    <3> QED BY <2>1, <3>1, ClientAssumption
  <2>4. WithdrawAll(ins.acc, ins.arg.pool_token_amount, ins.arg.minimum_a, ins.arg.minimum_b)
    BY <1>5 DEF Atomic
  <2>5. amm[ins.acc.amm].is_initialized
    BY <2>4 DEF WithdrawAll, WithdrawAllAccountsHold, WithdrawAllConstraints
  <2>6. Steps(ins) = WithdrawAllSteps(ins.acc, ins.arg)
    BY <1>5, <2>5 DEF Steps
  <2> QED BY <2>2, <2>3, <2>4, <2>6, WithdrawAllPossible
<1>6. CASE ins.name = "withdraw_single"
  <2>1. ins.acc \in WithdrawSingleAccounts /\ ins.arg.maximum \in U64
    BY <1>6, InstructionCases, ClientAssumption
  <2>2. WithdrawSingle(ins.acc, ins.arg.destination_token_amount, ins.arg.maximum)
    BY <1>6 DEF Atomic
  <2>3. amm[ins.acc.amm].is_initialized
    BY <2>2 DEF WithdrawSingle, WithdrawSingleAccountsHold, WithdrawSingleConstraints
  <2>4. Steps(ins) = WithdrawSingleSteps(ins.acc, ins.arg)
    BY <1>6, <2>3 DEF Steps
  <2> QED BY <2>1, <2>2, <2>4, WithdrawSinglePossible
<1> QED BY <1>1, <1>2, <1>3, <1>4, <1>5, <1>6, InstructionCases

\* the instruction's list cannot be executed to its end on the accounts as they are
Refused(ins) == \A w : ~Executes(Steps(ins), Loaded, w)

\* Nothing that was executed so far has cost the instruction its success, and
\* one that failed had none.
Follows(ins, todo, view) == \A w : Executes(Steps(ins), Loaded, w) => Executes(todo, view, w)

FailInv ==
    /\ tx.phase = "running" => Follows(tx.ins, tx.todo, tx.view)
    /\ tx.phase = "failed"  => tx.ins \in Instructions /\ Refused(tx.ins)

LEMMA RefusalsStay ==
    ASSUME TypeOK, UNCHANGED vars, NEW ins, NEW todo, NEW view
    PROVE  (Follows(ins, todo, view)' <=> Follows(ins, todo, view)) /\ (Refused(ins)' <=> Refused(ins))
<1>1. Steps(ins)' = Steps(ins) /\ Loaded' = Loaded
  BY StepsStay, AccountsStay
<1> QED BY <1>1 DEF Follows, Refused

LEMMA TxNextRefuses == ASSUME RunInv, FailInv, [TxNext]_txVars PROVE FailInv'
<1>0. TypeOK
  BY DEF RunInv
<1>1. CASE Begin
  <2>1. PICK ins \in Instructions : tx' = Running(ins, Steps(ins), Loaded)
    BY <1>1 DEF Begin, Running
  <2>2. /\ tx'.phase = "running" /\ tx'.ins = ins /\ tx'.todo = Steps(ins) /\ tx'.view = Loaded
        /\ UNCHANGED vars
    BY <1>1, <2>1 DEF Begin, Running
  <2>3. PICK steps, view : steps = Steps(ins) /\ view = Loaded
    OBVIOUS
  <2>4. Follows(ins, steps, view)
    BY <2>3 DEF Follows
  <2>5. Follows(ins, steps, view)'
    BY <1>0, <2>2, <2>4, RefusalsStay
  <2>6. tx'.todo = steps /\ tx'.view = view
    BY <2>2, <2>3
  <2>7. Follows(tx.ins, tx.todo, tx.view)'
    BY <2>2, <2>5, <2>6
  <2> QED BY <2>2, <2>7 DEF FailInv
<1>2. CASE Execute
  <2>1. /\ tx = Running(tx.ins, tx.todo, tx.view) /\ tx.phase = "running"
        /\ tx.todo # <<>> /\ IsProgram(tx.todo)
        /\ tx' = [tx EXCEPT !.todo = Tail(@), !.view = Effect(Head(tx.todo), @)]
        /\ UNCHANGED vars
    BY <1>2 DEF Execute, RunInv
  <2>2. PICK ins, todo, view : tx = Running(ins, todo, view)
    BY <2>1
  <2>3. tx.ins = ins /\ tx.todo = todo /\ tx.view = view
    BY <2>2 DEF Running
  <2>4. PICK rest, next : rest = Tail(todo) /\ next = Effect(Head(todo), view)
    OBVIOUS
  <2>5. Follows(ins, rest, next)
    <3> SUFFICES ASSUME NEW w, Executes(Steps(ins), Loaded, w) PROVE Executes(rest, next, w)
      BY DEF Follows
    <3>1. Executes(todo, view, w)
      BY <2>1, <2>3 DEF FailInv, Follows
    <3> QED BY <2>1, <2>3, <2>4, <3>1, FirstExecutes DEF IsProgram
  <2>6. /\ tx'.phase = "running" /\ tx'.ins = ins /\ tx'.todo = rest /\ tx'.view = next
    BY <2>1, <2>2, <2>3, <2>4 DEF Running
  <2>7. Follows(ins, rest, next)'
    BY <1>0, <2>1, <2>5, RefusalsStay
  <2>8. Follows(tx.ins, tx.todo, tx.view)'
    BY <2>6, <2>7
  <2> QED BY <2>6, <2>8 DEF FailInv
<1>3. CASE Abort
  <2>1. /\ tx.phase = "running" /\ tx.todo # <<>> /\ IsProgram(tx.todo) /\ tx.ins \in Instructions
        /\ ~CanExecute(Head(tx.todo), tx.view)
        /\ tx' = [phase |-> "failed", ins |-> tx.ins, at |-> Head(tx.todo), view |-> tx.view]
        /\ UNCHANGED vars
    BY <1>3 DEF Abort, RunInv
  <2>2. PICK ins : tx.ins = ins
    OBVIOUS
  <2>3. Refused(ins)
    <3> SUFFICES ASSUME NEW w, Executes(Steps(ins), Loaded, w) PROVE FALSE
      BY DEF Refused
    <3>1. Executes(tx.todo, tx.view, w)
      BY <2>1, <2>2 DEF FailInv, Follows
    <3> QED BY <2>1, <3>1, FirstExecutes DEF IsProgram
  <2>4. Refused(ins)' /\ Instructions' = Instructions
    BY <1>0, <2>1, <2>3, RefusalsStay, InstructionsStay
  <2>5. tx'.phase = "failed" /\ tx'.ins = ins /\ ins \in Instructions'
    BY <2>1, <2>2, <2>4
  <2>6. Refused(tx.ins)' /\ tx'.ins \in Instructions'
    BY <2>4, <2>5
  <2> QED BY <2>5, <2>6 DEF FailInv
<1>4. CASE Commit \/ Dismiss
  BY <1>4 DEF Commit, Dismiss, Idle, FailInv
<1>5. CASE UNCHANGED txVars
  <2>1. tx' = tx /\ UNCHANGED vars
    BY <1>5 DEF txVars, vars
  <2>2. PICK ins, todo, view : tx.ins = ins /\ tx.todo = todo /\ tx.view = view
    OBVIOUS
  <2>3. /\ Follows(ins, todo, view)' <=> Follows(ins, todo, view)
        /\ Refused(ins)' <=> Refused(ins)
        /\ Instructions' = Instructions
    BY <1>0, <2>1, RefusalsStay, InstructionsStay
  <2>4. /\ Follows(tx.ins, tx.todo, tx.view)' <=> Follows(ins, todo, view)'
        /\ Refused(tx.ins)' <=> Refused(ins)'
        /\ tx'.ins = ins /\ tx'.phase = tx.phase
    BY <2>1, <2>2
  <2> QED BY <2>2, <2>3, <2>4 DEF FailInv
<1> QED BY <1>1, <1>2, <1>3, <1>4, <1>5 DEF TxNext

\* An instruction that failed, at whatever check or call, could not have
\* succeeded: its whole list cannot be executed on the accounts it was given.
\* Nothing of what it had done before was the cause.
THEOREM FailuresAreRefusals ==
    TxSpec => [](tx.phase = "failed" => tx.ins \in Instructions /\ Refused(tx.ins))
<1>1. TxInit => FailInv
  BY DEF TxInit, Idle, FailInv
<1>2. RunInv /\ FailInv /\ [TxNext]_txVars => FailInv'
  BY TxNextRefuses
<1>3. FailInv => (tx.phase = "failed" => tx.ins \in Instructions /\ Refused(tx.ins))
  BY DEF FailInv
<1> QED BY <1>1, <1>2, <1>3, RunInvHolds, PTL DEF TxSpec

\* What is refused is impossible: with these accounts and arguments, there is
\* no next state that the instruction's action leads to.  The next state is any
\* at all, so this is what FailsOnlyIfImpossible says with ENABLED.
THEOREM RefusalsAreJustified ==
    ASSUME TypeOK, NEW ins \in Instructions, Refused(ins)
    PROVE  ~Atomic(ins)
BY AtomicIsExecuted DEF Refused

-----------------------------------------------------------------------------
(* The last provider: the one withdrawal that must never fail.              *)

\* all the pool tokens are worth all of a reserve
LEMMA AllOfAReserve ==
    ASSUME NEW S \in U64 \ {0}, NEW a \in U64
    PROVE  TradingTokens(S, S, a, "Floor") = {a}
<1>1. S \in Nat \ {0} /\ a \in Nat /\ S <= U64Max /\ a <= U64Max /\ U64Max \in Nat
  BY U64Assumption DEF U64
<1>2. S * a \in Nat /\ S * a <= U64Max * U64Max
  BY <1>1, ProductsGrow
<1>3. U64Max * U64Max <= U128Max /\ U128Max \in Nat
  <2>1. U128Max = U64Max * U64Max + 2 * U64Max
    BY <1>1 DEF U128Max
  <2> QED BY <1>1, <2>1
<1>4. S * a \in U128
  BY <1>2, <1>3, <1>1 DEF U128
<1>5. (S * a) \div S = a
  <2>1. a * S <= S * a /\ S * a < a * S + S
    BY <1>1
  <2> QED BY <1>1, <1>2, <2>1, QuotientIs
<1> QED BY <1>1, <1>4, <1>5 DEF TradingTokens, Checked, CheckedDiv, Some

\* A provider who holds all tokens of the pool and pays no fee on them, names the
\* recorded accounts, and has room for both reserves.
LastProvider(acc) ==
    /\ HoldsEverythingFree(acc) /\ WithdrawAllAccountsHold(acc)
    /\ acc.source_info.owner = acc.owner
    /\ acc.dest_token_a_info.mint = acc.vault_token_a.mint
    /\ acc.dest_token_b_info.mint = acc.vault_token_b.mint
    /\ bal[acc.dest_token_a_info] + bal[acc.vault_token_a] <= U64Max
    /\ bal[acc.dest_token_b_info] + bal[acc.vault_token_b] <= U64Max

\* that provider asks for everything, with limits up to the whole reserves
AsksForAll(acc, arg) ==
    /\ arg.pool_token_amount = bal[acc.source_info]
    /\ arg.minimum_a <= bal[acc.vault_token_a]
    /\ arg.minimum_b <= bal[acc.vault_token_b]

\* such a withdrawal passes every check and call
LEMMA LastProviderWithdraws ==
    ASSUME TypeOK, OpenedInv, {"signer_seeds", "side_b"} \subseteq repairs,
           NEW acc \in WithdrawAllAccounts, LastProvider(acc), NEW arg, AsksForAll(acc, arg)
    PROVE  LET n == arg.pool_token_amount
           IN  \E f \in WithdrawFee(acc, acc.source_info, n) :
                 \E r \in PoolTokensToTradingTokens(n - f, supply[acc.pool_mint],
                              bal[acc.vault_token_a], bal[acc.vault_token_b], "Floor") :
                   WithdrawsAll(acc, n, arg.minimum_a, arg.minimum_b, f, r)
<1> DEFINE p == acc.amm
           a == bal[acc.vault_token_a]
           b == bal[acc.vault_token_b]
           n == arg.pool_token_amount
           r == [token_a_amount |-> a, token_b_amount |-> b]
           signers == {acc.owner, SeedSigner(p)}
           burned  == Burn(bal, acc.source_info, n)
           paid_a  == IF a = 0 THEN burned
                      ELSE Transfer(burned, acc.vault_token_a, acc.dest_token_a_info, a)
<1>1. /\ p \in Pools /\ Live(p) /\ acc.source_info \in TokenAccounts
      /\ acc.vault_token_a \in TokenAccounts /\ acc.vault_token_b \in TokenAccounts
      /\ acc.dest_token_a_info \in TokenAccounts /\ acc.dest_token_b_info \in TokenAccounts
      /\ Supply(p) > 0 /\ n = Supply(p) /\ n = bal[acc.source_info]
  BY DEF LastProvider, HoldsEverythingFree, AsksForAll, WithdrawAllAccounts
<1>2. /\ acc.vault_token_a = Vault0(p) /\ acc.vault_token_b = Vault1(p)
      /\ acc.pool_mint = PoolMint(p) /\ acc.fee_account = amm[p].pool_fee_account
      /\ acc.source_info.mint = PoolMint(p) /\ acc.source_info.owner = acc.owner
      /\ acc.vault_token_a \notin {acc.dest_token_a_info}
      /\ acc.vault_token_b \notin {acc.dest_token_b_info}
  <2>1. WithdrawAllConstraints(acc)
    BY DEF LastProvider, WithdrawAllAccountsHold
  <2>2. CheckAccounts(p, acc.vault_token_a, acc.vault_token_b, acc.pool_mint,
                      {acc.dest_token_a_info}, {acc.dest_token_b_info}, {acc.fee_account})
    BY DEF LastProvider, WithdrawAllAccountsHold
  <2>3. amm[p].token_a_account = Vault0(p) /\ amm[p].token_b_account = Vault1(p)
        /\ amm[p].pool_mint = PoolMint(p)
    BY <1>1, OpenPoolAccounts
  <2> QED BY <2>1, <2>2, <2>3 DEF CheckAccounts, WithdrawAllConstraints, LastProvider
<1>3. /\ acc.vault_token_a.mint = p[1] /\ acc.vault_token_b.mint = p[2]
      /\ acc.vault_token_a.owner = Authority(p) /\ acc.vault_token_b.owner = Authority(p)
      /\ p[1] # p[2] /\ PoolMint(p) # p[1] /\ PoolMint(p) # p[2]
      /\ acc.dest_token_a_info.mint = p[1] /\ acc.dest_token_b_info.mint = p[2]
  BY <1>1, <1>2, OpenPoolAccounts DEF LastProvider
<1>4. SeedSigner(p) = Authority(p)
  BY DEF SeedSigner, Authority
<1>5. /\ a \in U64 /\ b \in U64 /\ n \in U64 \ {0} /\ supply[acc.pool_mint] = n
      /\ bal[acc.dest_token_a_info] + a <= U64Max /\ bal[acc.dest_token_b_info] + b <= U64Max
  <2>1. bal \in Balances
    BY DEF TypeOK
  <2>2. a \in U64 /\ b \in U64 /\ n \in U64
    BY <1>1, <2>1 DEF Balances
  <2>3. n # 0
    BY <1>1
  <2>4. supply[acc.pool_mint] = n
    BY <1>1, <1>2 DEF Supply
  <2>5. bal[acc.dest_token_a_info] + a <= U64Max /\ bal[acc.dest_token_b_info] + b <= U64Max
    BY DEF LastProvider
  <2> QED BY <2>2, <2>3, <2>4, <2>5
<1>6. 0 \in WithdrawFee(acc, acc.source_info, n)
  BY <1>1, <1>2 DEF WithdrawFee, LastProvider, HoldsEverythingFree, Some
<1>7. r \in PoolTokensToTradingTokens(n - 0, supply[acc.pool_mint], a, b, "Floor")
  <2>1. TradingTokens(n, n, a, "Floor") = {a} /\ TradingTokens(n, n, b, "Floor") = {b}
    BY <1>5, AllOfAReserve
  <2>2. n - 0 = n
    BY <1>5, U64Assumption DEF U64
  <2> HIDE DEF a, b, n
  <2> QED BY <1>5, <2>1, <2>2 DEF PoolTokensToTradingTokens
<1>8. burned[acc.vault_token_a] = a /\ burned[acc.vault_token_b] = b
      /\ burned[acc.dest_token_a_info] = bal[acc.dest_token_a_info]
      /\ burned[acc.dest_token_b_info] = bal[acc.dest_token_b_info]
      /\ burned \in [TokenAccounts -> Int]
  <2>1. bal \in [TokenAccounts -> U64] /\ U64 \subseteq Int
    BY U64Assumption DEF TypeOK, Balances, U64
  <2> QED BY <1>1, <1>2, <1>3, <1>5, <2>1 DEF Burn
<1>9. paid_a[acc.vault_token_b] = b /\ paid_a[acc.dest_token_b_info] = bal[acc.dest_token_b_info]
  <2> HIDE DEF burned
  <2> QED BY <1>1, <1>2, <1>3, <1>8 DEF Transfer
<1>10. AtMost(a, r.token_a_amount) = a /\ AtMost(b, r.token_b_amount) = b /\ SideBPayment(a, b) = b
  BY DEF AtMost, SideBPayment
<1>11. CanBurn(bal, supply[acc.pool_mint], acc.source_info, n, acc.pool_mint, acc.owner, {acc.owner})
  BY <1>1, <1>2, <1>5, U64Assumption DEF CanBurn, U64
<1>12. CanTransfer(burned, acc.vault_token_a, acc.dest_token_a_info, a, Authority(p), signers)
  <2> HIDE DEF burned
  <2> QED BY <1>3, <1>4, <1>5, <1>8, U64Assumption DEF CanTransfer, U64
<1>13. CanTransfer(paid_a, acc.vault_token_b, acc.dest_token_b_info, b, Authority(p), signers)
  <2> HIDE DEF paid_a
  <2> QED BY <1>3, <1>4, <1>5, <1>9, U64Assumption DEF CanTransfer, U64
<1>14. arg.minimum_a <= a /\ arg.minimum_b <= b
  BY DEF AsksForAll
<1>15. WithdrawsAll(acc, n, arg.minimum_a, arg.minimum_b, 0, r)
  <2>1. n - 0 = n /\ 0 <= n
    BY <1>5, U64Assumption DEF U64
  <2> HIDE DEF n
  <2> QED BY <1>5, <1>10, <1>11, <1>12, <1>13, <1>14, <2>1 DEF WithdrawsAll
<1>16. \E f \in WithdrawFee(acc, acc.source_info, n) :
         \E t \in PoolTokensToTradingTokens(n - f, supply[acc.pool_mint], a, b, "Floor") :
           WithdrawsAll(acc, n, arg.minimum_a, arg.minimum_b, f, t)
  <2> HIDE DEF r, n, a, b
  <2> QED BY <1>6, <1>7, <1>15
<1> QED BY <1>16

\* Whoever holds all the tokens of a pool, pays no fee on them, names the recorded
\* accounts and has room for both reserves is never refused, whatever the vaults
\* hold and whatever the other instructions did: no check or call of withdraw_all
\* fails for everything, with limits up to the whole reserves.
THEOREM TheLastProviderIsNeverRefused ==
    ASSUME \A build \in Builds : {"signer_seeds", "side_b"} \subseteq build
    PROVE  TxSpec => []( tx.phase = "failed" /\ tx.ins.name = "withdraw_all" =>
                           ~(LastProvider(tx.ins.acc) /\ AsksForAll(tx.ins.acc, tx.ins.arg)) )
<1>1. ASSUME TypeOK, OpenedInv, NEW ins \in Instructions, Refused(ins), ins.name = "withdraw_all",
             LastProvider(ins.acc), AsksForAll(ins.acc, ins.arg)
      PROVE  FALSE
  <2>1. {"signer_seeds", "side_b"} \subseteq repairs
    BY <1>1 DEF TypeOK
  <2>2. ins.acc \in WithdrawAllAccounts
    BY <1>1, InstructionCases, ClientAssumption
  <2>3. amm[ins.acc.amm].is_initialized
    BY <1>1 DEF LastProvider, WithdrawAllAccountsHold, WithdrawAllConstraints
  <2>4. Steps(ins) = WithdrawAllSteps(ins.acc, ins.arg)
    BY <1>1, <2>3 DEF Steps
  <2>5. ins.arg.pool_token_amount \in U64
    <3>1. bal[ins.acc.source_info] \in U64
      BY <1>1, <2>2 DEF TypeOK, Balances, WithdrawAllAccounts
    <3> QED BY <1>1, <3>1 DEF AsksForAll
  <2>6. WithdrawAllAccountsHold(ins.acc)
    BY <1>1 DEF LastProvider
  <2>7. \E w : Executes(WithdrawAllSteps(ins.acc, ins.arg), Loaded, w)
    BY <1>1, <2>1, <2>2, <2>5, <2>6, LastProviderWithdraws, WithdrawAllServed
  <2> QED BY <1>1, <2>4, <2>7 DEF Refused
<1>2. RunInv => TypeOK
  BY DEF RunInv
<1>3. TypeOK /\ OpenedInv /\ (tx.phase = "failed" => tx.ins \in Instructions /\ Refused(tx.ins)) =>
        ( tx.phase = "failed" /\ tx.ins.name = "withdraw_all" =>
            ~(LastProvider(tx.ins.acc) /\ AsksForAll(tx.ins.acc, tx.ins.arg)) )
  BY <1>1
<1>4. Spec => []OpenedInv
  BY InitType, NextType, InitOpened, NextOpened, PTL DEF Spec
<1> QED BY <1>2, <1>3, <1>4, RunInvHolds, FailuresAreRefusals, TransactionsAreBehavioursOfAmm, PTL
=============================================================================
