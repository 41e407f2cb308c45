----------------------------- MODULE MCExplain -----------------------------
(***************************************************************************)
(* Policies of two statements against every payload of two claims.  As on  *)
(* AWS's Default tab, aud is read from azp, or from aud when the token     *)
(* sets no azp; the other key is one of no claim a token is known to       *)
(* carry, so that it is open in every payload.                             *)
(***************************************************************************)
EXTENDS Explain

MCLanguage == [p \in Pattern |-> {}]

On(claim, operator, values) == [claim |-> claim, operator |-> operator, values |-> values]

MCCondition ==
    [i \in Issuer |->
        { On("aud", "StringEquals", {Exact("x")}),
          On("aud", "StringLike", {Any}),
          On("user_id", "StringEquals", {Exact("x")}) }]

MCHidden == { {}, Tokens }

MCKeyClaim ==
    [k \in Claim |->
        IF k = "aud" THEN [claim |-> "azp", fallback |-> "aud"]
        ELSE [claim |-> NoClaim, fallback |-> NoClaim]]

MCFold == { <<"folded", "issuer">> }
=============================================================================
