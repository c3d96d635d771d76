---------------------------- MODULE MCDecryption ----------------------------
(***************************************************************************)
(* Two keys, two salts, databases of up to three pages and a WhatsApp      *)
(* backup; pages damaged, moved, doubled and lost; dumps with wrong,       *)
(* undecodable and right secrets in any order, named or lying beside the   *)
(* archive.                                                                *)
(***************************************************************************)
EXTENDS Decryption, FiniteSets

CONSTANTS k1, k2, s1, s2, t1, t2, t3

(* Data that decode to the same bytes under every encoding, and hexadecimal
   text that is no base64. *)
Bytes(bytes) == [e \in Encodings |-> bytes]
HexOnly(bytes) == [Bytes(bytes) EXCEPT !["base64"] = Undecodable]

SecretOf(service, data) ==
    [attrs |-> [f \in Fields |-> IF f = "service" THEN service ELSE None], data |-> data]

Right == SecretOf("signal", Bytes(<<k1>>))
Keyspec == SecretOf("signal", Bytes(<<k1, s2>>))
Wrong == SecretOf("signal", Bytes(<<k2>>))
Odd == SecretOf("signal", Bytes(<<k1, s1, s1>>))
Broken == SecretOf("signal", HexOnly(<<k1>>))
Stranger == SecretOf("other", Bytes(<<k1>>))

Profile(scheme, encoding) ==
    [valid |-> TRUE, platform |-> "ios", folder |-> "ios", db |-> {"db"},
     wants |-> [f \in Fields |-> IF f = "service" THEN "signal" ELSE None],
     encoding |-> encoding, scheme |-> scheme, usable |-> TRUE, use_hmac |-> TRUE,
     params |-> 4, iv_offsets |-> <<8, 51>>]

Unauthenticated == [Profile("sqlcipher", "raw") EXCEPT !.use_hmac = FALSE]

(* A database sealed with a key and a salt. *)
Written == <<t1, t2, t3>>
PageOf(n, opener) ==
    [number |-> n, text |-> Written[n], sealed |-> opener, params |-> 4, damage |-> "none"]
Database(opener, salt) ==
    [path |-> "db", whole |-> TRUE, salt |-> salt, pages |-> [n \in 1 .. 3 |-> PageOf(n, opener)],
     written |-> Written, intact |-> TRUE, inflates |-> TRUE, iv_at |-> 0, sealed |-> None]

Raw == Database([key |-> k1, salt |-> s1], s1)
OwnSalt == Database([key |-> k1, salt |-> s2], s1)
Stretched == Database([key |-> <<<<k1>>, s1>>, salt |-> s1], s1)

Damaged(e) ==
    {e, [e EXCEPT !.whole = FALSE]}
    \cup {[e EXCEPT !.salt = s2, !.pages[1].damage = "mac"]}  \* the first page's MAC covers the salt
    \cup {[e EXCEPT !.pages[n].damage = d] : n \in 1 .. 3, d \in {"mac", "text"}}
    \cup {[e EXCEPT !.pages = [i \in DOMAIN order |-> e.pages[order[i]]]] :
             order \in {<<>>, <<1>>, <<1, 2>>, <<2, 3>>, <<1, 3, 2>>, <<1, 2, 2>>, <<2, 1, 3>>, <<1, 1>>}}
    \cup {[e EXCEPT !.pages = [n \in DOMAIN @ |-> [@[n] EXCEPT !.params = 3]]]}

(* Another database's page, under another key, in the place of one. *)
Foreign(e) == {[e EXCEPT !.pages[n].sealed.key = k2] : n \in 1 .. 3}

Backup == [Raw EXCEPT !.pages = <<>>, !.iv_at = 51, !.sealed = <<k1>>, !.written = <<t1>>]
Backups ==
    {[Backup EXCEPT !.iv_at = n, !.intact = i, !.inflates = z] : n \in {8, 51, 60}, i \in BOOLEAN, z \in BOOLEAN}

Dump(contents) == [readable |-> TRUE, parses |-> TRUE, named |-> TRUE, secrets |-> contents]

Case(profiles, contents, entries) ==
    [no_decrypt |-> FALSE, scope |-> None, has_profiles |-> TRUE, profiles |-> profiles,
     keyfiles |-> <<Dump(contents)>>, beside |-> <<>>, entries |-> entries]

Orders(S) == {order \in UNION {[1 .. n -> S] : n \in 0 .. 3} : \A i, j \in DOMAIN order : order[i] = order[j] => i = j}

(* One profile, one entry, the secrets in every order. *)
Openings ==
    {Case({Profile("sqlcipher", encoding)}, contents, <<e>>) :
        encoding \in {"raw", "base64", "passphrase"}, contents \in Orders({Right, Wrong, Odd, Broken}),
        e \in {Raw, Stretched}}
    \cup {Case({Profile("sqlcipher", "raw")}, contents, <<e>>) :
        contents \in {<<Wrong, Right>>, <<Keyspec, Right>>, <<Right, Keyspec>>},
        e \in Damaged(Raw) \cup Damaged(OwnSalt) \cup Foreign(Raw)}
    \cup {Case({Profile("sqlcipher", "passphrase")}, <<Wrong, Right>>, <<e>>) : e \in Damaged(Stretched)}
    \cup {Case({Unauthenticated}, contents, <<e>>) : contents \in {<<Right>>, <<Wrong, Right>>}, e \in Damaged(Raw)}
    \cup {Case({Profile("whatsapp", encoding)}, contents, <<e>>) :
        encoding \in {"raw", "base64"}, contents \in Orders({Right, Wrong, Broken}), e \in Backups}

(* Two profiles for one path, and several entries. *)
Several ==
    {Case({Profile("sqlcipher", "raw"), Profile("whatsapp", "raw")}, <<Stranger, Right>>, entries) :
        entries \in {<<Raw, Backup>>, <<Raw, [Raw EXCEPT !.path = "note"], OwnSalt>>}}

(* What is given on the command line and what lies about. *)
Beside == {Dump(<<Right>>), [Dump(<<Keyspec>>) EXCEPT !.named = FALSE], [Dump(<<Wrong>>) EXCEPT !.parses = FALSE],
           [Dump(<<Broken>>) EXCEPT !.readable = FALSE], [Dump(<<>>) EXCEPT !.named = TRUE]}

Setups ==
    {[Case({}, <<>>, <<Raw>>) EXCEPT
          !.no_decrypt = n, !.has_profiles = h, !.scope = s, !.profiles = profiles,
          !.keyfiles = keyfiles, !.beside = beside] :
        n \in BOOLEAN, h \in BOOLEAN, s \in {None, "ios", "android"},
        profiles \in {{}, {Profile("sqlcipher", "raw")},
                      {Profile("sqlcipher", "raw"), [Profile("sqlcipher", "hex") EXCEPT !.valid = FALSE]},
                      {[Profile("sqlcipher", "raw") EXCEPT !.folder = "android"]}},
        keyfiles \in {<<>>, <<Dump(<<>>)>>, <<Dump(<<Wrong>>), [Dump(<<Right>>) EXCEPT !.parses = FALSE]>>,
                      <<[Dump(<<Right>>) EXCEPT !.readable = FALSE]>>, <<Dump(<<Wrong>>), Dump(<<Right>>)>>},
        beside \in {<<>>, <<{}, Beside>>, <<{[Dump(<<Right>>) EXCEPT !.named = FALSE]}>>}}

MCCases == Openings \cup Several \cup Setups

=============================================================================
