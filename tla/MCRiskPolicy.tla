---------------------------- MODULE MCRiskPolicy ----------------------------
(***************************************************************************)
(* RiskPolicy with a MON of 6 wei and "small" amounts below 4: what matters *)
(* is on which side of the limits and caps an amount is.                    *)
(***************************************************************************)
EXTENDS RiskPolicy

Known == "0xa"
Unknown == "0xb"
MCAddresses == {Known, Unknown}

Decimal(n) == [form |-> "canonical", n |-> n]

(* Amounts on either side of the limits and of SmallAmount, 2^256 - 1 and   *)
(* one more, and those that are no canonical decimals.                      *)
MCAmounts ==
  {Decimal(n) : n \in {0, 3, 4, 5, 100, 101}}
    \cup [form : {"fraction", "spelled"}, n : {3, 5}]
    \cup [form : {"uint256.max", "word"}, n : {0}]

(* An amount a host adds is missing, or small enough for every limit.       *)
Added == {None, Decimal(3)}

Blank(tool) ==
  [tool |-> tool, to |-> None, token |-> None, spender |-> None, value |-> None,
   amount |-> None, amount_atomic |-> None, amount_wei |-> None, chain |-> None,
   ruled |-> FALSE]

(* Every main amount with every choice of added ones; and every address,    *)
(* missing ones included, with an ordinary amount.                          *)
Sends ==
  {[Blank("send_transaction") EXCEPT !.to = Known, !.token = t, !.value = v,
                                     !.amount = a, !.amount_atomic = x, !.amount_wei = y] :
     t \in {Known, None}, v \in MCAmounts \cup {None}, a, x, y \in Added}
  \cup {[Blank("send_transaction") EXCEPT !.to = to, !.token = t, !.value = Decimal(3)] :
          to, t \in MCAddresses \cup {None}}
Transfers ==
  {[Blank("transfer_token") EXCEPT !.to = Known, !.token = Known, !.amount = a,
                                   !.value = v, !.amount_atomic = x, !.amount_wei = y] :
     a \in MCAmounts \cup {None}, v, x, y \in Added}
  \cup {[Blank("transfer_token") EXCEPT !.to = to, !.token = t, !.amount = Decimal(3)] :
          to, t \in MCAddresses \cup {None}}
Approvals ==
  {[Blank("approve_token") EXCEPT !.token = Known, !.spender = s, !.amount = a,
                                  !.value = v, !.amount_atomic = x, !.amount_wei = y] :
     s \in MCAddresses, a \in MCAmounts \cup {None}, v, x, y \in Added}
  \cup {[Blank("approve_token") EXCEPT !.token = t, !.spender = s, !.amount = Decimal(3)] :
          t, s \in MCAddresses \cup {None}}

MCRequests ==
  Sends \cup Transfers \cup Approvals
  \cup {[Blank("sign_typed_data") EXCEPT !.ruled = b] : b \in BOOLEAN}
  \cup {[Blank("switch_chain") EXCEPT !.chain = ch] : ch \in {Monad, OtherChain, None}}

Entry(spender, max, enabled) ==
  [token |-> Known, spender |-> spender, max |-> max, enabled |-> enabled]

(* Lists of spenders: none, an enabled or a disabled entry, one as high as  *)
(* a uint256 goes, and two entries for different spenders.                  *)
(* validatePolicySnapshot refuses a list with two entries for one token and *)
(* spender.                                                                 *)
MCSpenders ==
  {<<>>, <<Entry(Known, 4, TRUE)>>, <<Entry(Known, 9, FALSE)>>, <<Entry(Known, 100, TRUE)>>,
   <<Entry(Unknown, 9, FALSE), Entry(Known, 4, TRUE)>>,
   <<Entry(Known, 4, TRUE), Entry(Unknown, 9, TRUE)>>}

MCPolicies ==
  [tools : {{}, {"send_transaction", "transfer_token", "approve_token",
                 "sign_typed_data", "switch_chain"}},
   recipients : {{}, {Known}}, tokens : {{Known}},
   native : {3, 4}, erc20 : {4, 100}, spenders : MCSpenders]

(* A call that has been judged is over. *)
Done == verdict # "none" /\ UNCHANGED vars

MCSpec == Init /\ [][Next \/ Done]_vars

=============================================================================
