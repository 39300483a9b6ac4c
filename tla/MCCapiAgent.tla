---------------------------- MODULE MCCapiAgent ----------------------------
(***************************************************************************)
(* Instances of CapiAgent: a smart card certificate, one for BitLocker     *)
(* over the same key, and an ECDSA certificate without key usages.         *)
(***************************************************************************)
EXTENDS CapiAgent, TLC

CONSTANTS cl1, cl2, c1, c2, c3, k1, k2

AllAttr ==
  (c1 :> [key |-> k1, type |-> "rsa", eku |-> {"clientAuth", "smartCardLogon"}, private |-> TRUE])
  @@ (c2 :> [key |-> k2, type |-> "ecdsa", eku |-> {}, private |-> TRUE])
  @@ (c3 :> [key |-> k1, type |-> "rsa", eku |-> {"bitLocker"}, private |-> TRUE])

MCAttr == [c \in Certs |-> AllAttr[c]]

MCStores == {Certs, Certs \ {c1}}

NoFile == [serial |-> "absent", cn |-> "absent"]
MCFiles ==
  { [c \in Certs |-> NoFile],
    [c \in Certs |-> IF c = c2 THEN [serial |-> "otherKey", cn |-> "matching"]
                     ELSE [serial |-> "unusable", cn |-> "matching"]] }
=============================================================================
