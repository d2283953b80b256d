------------------------------ MODULE MCAccess ------------------------------
(* A small instance of Access: what files, clients and tokens there are. *)
EXTENDS Access

Alice == [name |-> "alice", groups |-> {"ops"}]
Bob == [name |-> "bob", groups |-> {}]

MCKeys == [k1 |-> [family |-> "RS", small |-> FALSE], k2 |-> [family |-> "RS", small |-> TRUE]]

ThisUnit == [type |-> "Service", id |-> "u1"]
Everything == {ThisNode, ThisUnit, [type |-> "Image", id |-> "i1"],
               [type |-> "Config", id |-> "machine"]}

Policy(effect, who, acts, on, fails) ==
    [effect |-> effect, who |-> who, acts |-> acts, on |-> on, fails |-> fails]

PermitOps == Policy("permit", {"ops", "bearer-token"}, Rpcs, Everything, FALSE)
PermitOnNode == Policy("permit", {"bob"}, Rpcs, {ThisNode}, FALSE)
ForbidStop == Policy("forbid", {"alice"}, {"StopService"}, {ThisUnit}, FALSE)
ForbidFails == Policy("forbid", {"alice"}, Rpcs, Everything, TRUE)

MCTexts == {<<PermitOps, PermitOnNode>>, <<ForbidStop>>, <<ForbidFails, PermitOps>>}

MCConfigs == {
    [auth |-> "mtls", authz |-> "cedar", plugins |-> Known],
    [auth |-> "oidc", authz |-> "cedar", plugins |-> {"services", "diagnostics"}],
    [auth |-> "token", authz |-> "allow-all", plugins |-> {"lifecycle"}],
    [auth |-> "mtls", authz |-> "allow-all", plugins |-> {"services", "firewall"}]}

NoJwt == [id |-> NoId]
Jwt(id, kid, signer, iss, exp, nbf, iat) ==
    [id |-> id, kid |-> kid, alg |-> "RS", signer |-> signer, iss |-> iss, aud |-> {"hbctl"},
     exp |-> exp, nbf |-> nbf, iat |-> iat]

MCCreds ==
    {[cert |-> c, bearer |-> b, jwt |-> NoJwt] :
        c \in {NoId, Bob}, b \in {"none", "token"}}
    \cup {[cert |-> Alice, bearer |-> "wrong", jwt |-> NoJwt]}
    \cup {[cert |-> Bob, bearer |-> "jwt", jwt |-> j] : j \in {
            Jwt(Alice, "k1", "k1", "issuer", 2, -1, 0),
            Jwt(Bob, "k1", "k1", "issuer", 1, 1, -1),
            Jwt(Alice, "k1", "mallory", "issuer", 2, -1, -1),
            Jwt(Alice, "k2", "k2", "issuer", 2, -1, -1)}}
=============================================================================
