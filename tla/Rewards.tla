------------------------------ MODULE Rewards ------------------------------
(***************************************************************************)
(* What a reward is to the people who use it, with no accounts, mints or   *)
(* authorities: a shop gives out numbered rewards; each is in one wallet   *)
(* or in none; its holder shows it at the counter and may take it back;    *)
(* the shop honours only what is being shown and in date; what is late     *)
(* can only lapse; and a shop leaves only when nothing it gave is out.     *)
(* RewardsKept says that the loyalty program implements this.              *)
(***************************************************************************)
EXTENDS Naturals

CONSTANTS Shops, Numbers, People

VARIABLES
  trading,    \* trading[m]: shop m is open
  stage,      \* stage[m][i] of reward i of shop m: "none", "out" or "shown"
  holder,     \* holder[m][i]: the people who have it
  late,       \* late[m][i]: it is past its date
  honoured    \* honoured[m]: how many shop m has honoured since it opened

rewardVars == <<trading, stage, holder, late, honoured>>

Init ==
  /\ trading \in [Shops -> BOOLEAN]
  /\ stage = [m \in Shops |-> [i \in Numbers |-> "none"]]
  /\ holder = [m \in Shops |-> [i \in Numbers |-> {}]]
  /\ late = [m \in Shops |-> [i \in Numbers |-> FALSE]]
  /\ honoured = [m \in Shops |-> 0]

Open(m) ==
  /\ ~trading[m]
  /\ trading' = [trading EXCEPT ![m] = TRUE]
  /\ UNCHANGED <<stage, holder, late, honoured>>

Leave(m) ==
  /\ trading[m]
  /\ \A i \in Numbers : stage[m][i] = "none"
  /\ trading' = [trading EXCEPT ![m] = FALSE]
  /\ honoured' = [honoured EXCEPT ![m] = 0]
  /\ UNCHANGED <<stage, holder, late>>

Give(m, i, c) ==
  /\ trading[m]
  /\ stage[m][i] = "none"
  /\ stage' = [stage EXCEPT ![m][i] = "out"]
  /\ holder' = [holder EXCEPT ![m][i] = {c}]
  /\ UNCHANGED <<trading, late, honoured>>

Show(m, i) ==
  /\ stage[m][i] = "out" /\ holder[m][i] # {} /\ ~late[m][i]
  /\ stage' = [stage EXCEPT ![m][i] = "shown"]
  /\ UNCHANGED <<trading, holder, late, honoured>>

TakeBack(m, i) ==
  /\ stage[m][i] = "shown"
  /\ stage' = [stage EXCEPT ![m][i] = "out"]
  /\ UNCHANGED <<trading, holder, late, honoured>>

\* What is not being shown its holder may hand on, or lose for good.
HandOn(m, i, c) ==
  /\ stage[m][i] = "out" /\ holder[m][i] # {}
  /\ holder' = [holder EXCEPT ![m][i] = {c}]
  /\ UNCHANGED <<trading, stage, late, honoured>>

Lose(m, i) ==
  /\ stage[m][i] = "out"
  /\ holder' = [holder EXCEPT ![m][i] = {}]
  /\ UNCHANGED <<trading, stage, late, honoured>>

End(m, i) ==
  /\ stage' = [stage EXCEPT ![m][i] = "none"]
  /\ holder' = [holder EXCEPT ![m][i] = {}]
  /\ late' = [late EXCEPT ![m][i] = FALSE]

Honour(m, i) ==
  /\ trading[m] /\ stage[m][i] = "shown" /\ ~late[m][i]
  /\ End(m, i)
  /\ honoured' = [honoured EXCEPT ![m] = @ + 1]
  /\ UNCHANGED trading

Lapse(m, i) ==
  /\ trading[m] /\ stage[m][i] # "none" /\ late[m][i]
  /\ End(m, i)
  /\ UNCHANGED <<trading, honoured>>

\* Time passes: rewards that are out may become late, and stay so.
GrowLate ==
  /\ late' \in [Shops -> [Numbers -> BOOLEAN]]
  /\ \A m \in Shops, i \in Numbers :
       /\ late[m][i] => late'[m][i]
       /\ late'[m][i] => stage[m][i] # "none"
  /\ UNCHANGED <<trading, stage, holder, honoured>>

Next ==
  \/ \E m \in Shops : Open(m) \/ Leave(m)
  \/ \E m \in Shops, i \in Numbers :
       \/ \E c \in People : Give(m, i, c) \/ HandOn(m, i, c)
       \/ Show(m, i)
       \/ TakeBack(m, i)
       \/ Lose(m, i)
       \/ Honour(m, i)
       \/ Lapse(m, i)
  \/ GrowLate

Spec == Init /\ [][Next]_rewardVars
=============================================================================
