----------------------------- MODULE Decryption -----------------------------
(***************************************************************************)
(* The decryption of app databases: the context put together from profiles *)
(* and key dumps, and each matching entry opened with one candidate key    *)
(* after the other, page by page (SQLCipher) or offset by offset (WhatsApp *)
(* crypt).                                                                 *)
(*                                                                         *)
(* A page carries what it was sealed with: its MAC verifies under these    *)
(* and no others, and only under its key is its text its own.  Key bytes   *)
(* are sequences: of 32 bytes one element stands, of a salt another.       *)
(***************************************************************************)
EXTENDS Naturals, Sequences, SequencesExt

CONSTANTS
    Cases,       \* the command lines and what they meet, see CaseType
    None,        \* an attribute that is absent, no scope
    Undecodable, \* what data decode to under an encoding that they do not follow
    Garbage      \* the text that a wrong key or a damaged page gives

Encodings == {"raw", "hex", "base64", "passphrase"}
Fields == {"account", "service"}  \* access_group and label are matched alike

IsSecret(s) == DOMAIN s.attrs = Fields /\ DOMAIN s.data = Encodings

IsDump(d) ==
    /\ d.readable \in BOOLEAN /\ d.parses \in BOOLEAN
    /\ d.secrets \in Seq(Range(d.secrets)) /\ \A i \in DOMAIN d.secrets : IsSecret(d.secrets[i])

IsProfile(p) ==
    /\ p.valid \in BOOLEAN                 \* it reads as YAML
    /\ p.platform \in STRING /\ p.folder \in STRING
    /\ DOMAIN p.wants = Fields             \* None is a wildcard
    /\ p.encoding \in Encodings
    /\ p.scheme \in {"sqlcipher", "whatsapp"}
    /\ p.use_hmac \in BOOLEAN
    /\ p.iv_offsets \in Seq(Nat)

IsPage(pg) == pg.number \in Nat /\ pg.damage \in {"none", "mac", "text"}

(* A MAC is not forged: what it covers unchanged is one of the pages written. *)
IsGenuine(pg, written) ==
    pg.damage = "none" => pg.number \in DOMAIN written /\ pg.text = written[pg.number]

ASSUME CaseAssumption ==
    \A c \in Cases :
        /\ c.no_decrypt \in BOOLEAN /\ c.has_profiles \in BOOLEAN
        /\ \A p \in c.profiles : IsProfile(p)
        /\ c.keyfiles \in Seq(Range(c.keyfiles)) /\ c.beside \in Seq(Range(c.beside))
        /\ \A i \in DOMAIN c.keyfiles : IsDump(c.keyfiles[i])
        /\ \A i \in DOMAIN c.beside : \A d \in c.beside[i] : IsDump(d) /\ d.named \in BOOLEAN
        /\ c.entries \in Seq(Range(c.entries))
        /\ \A e \in DOMAIN c.entries :
              /\ c.entries[e].whole \in BOOLEAN
              /\ c.entries[e].pages \in Seq(Range(c.entries[e].pages))
              /\ c.entries[e].written \in Seq(Range(c.entries[e].written)) \ {<<>>}
              /\ \A n \in DOMAIN c.entries[e].pages :
                    IsPage(c.entries[e].pages[n]) /\ IsGenuine(c.entries[e].pages[n], c.entries[e].written)

VARIABLES
    case,     \* the arguments, the files on disk, the entries searched
    phase,    \* "profiles", "keyfiles", "beside", "entry", "key", "page", "offset",
              \* "off" (no decryption), "failed" (the command) or "done"
    unread,   \* profile files, or files of a directory, not looked at
    registry, \* the profiles, in the order of the directory
    secrets,  \* the secret store
    at,       \* the keyfile, the directory or the entry
    profile,  \* the profile that matches the entry
    turn,     \* the place in the store of the candidate in use, 0 when none is left
    opening,  \* the encryption key and the salt in use
    out,      \* the plaintext pages so far
    verified, \* all_verified
    offset,   \* the offset tried
    audit     \* one record for each entry that a profile matches

setupVars == <<unread, registry, secrets>>
keyVars == <<profile, turn>>
cipherVars == <<opening, out, verified, offset>>
vars == <<case, phase, at, setupVars, keyVars, cipherVars, audit>>

-----------------------------------------------------------------------------
Init ==
    /\ case \in Cases
    /\ phase = "profiles"
    /\ unread = case.profiles /\ registry = <<>> /\ secrets = <<>>
    /\ at = 1
    /\ profile = None /\ turn = 0
    /\ opening = None /\ out = <<>> /\ verified = FALSE /\ offset = 1
    /\ audit = <<>>

(* --no-decrypt, or no profiles/ beside the binary. *)
SwitchedOff ==
    /\ phase = "profiles"
    /\ case.no_decrypt \/ ~case.has_profiles
    /\ phase' = "off"
    /\ UNCHANGED <<case, at, setupVars, keyVars, cipherVars, audit>>

LoadingProfiles == phase = "profiles" /\ ~case.no_decrypt /\ case.has_profiles

(* from_dir(): in the order in which the file system lists them. *)
LoadProfile ==
    /\ LoadingProfiles
    /\ \E p \in unread :
          /\ p.valid /\ p.platform = p.folder
          /\ unread' = unread \ {p}
          /\ registry' = Append(registry, p)
    /\ UNCHANGED <<case, phase, secrets, at, keyVars, cipherVars, audit>>

RefuseProfile ==
    /\ LoadingProfiles
    /\ \E p \in unread : ~(p.valid /\ p.platform = p.folder)
    /\ phase' = "failed"
    /\ UNCHANGED <<case, at, setupVars, keyVars, cipherVars, audit>>

EndProfiles ==
    /\ LoadingProfiles /\ unread = {}
    /\ phase' = IF registry = <<>> THEN "off" ELSE "keyfiles"
    /\ UNCHANGED <<case, at, setupVars, keyVars, cipherVars, audit>>

AtKeyfile == phase = "keyfiles" /\ at <= Len(case.keyfiles)

(* load_dump() of a --keyfile. *)
LoadKeyfile ==
    /\ AtKeyfile /\ case.keyfiles[at].readable /\ case.keyfiles[at].parses
    /\ secrets' = secrets \o case.keyfiles[at].secrets
    /\ at' = at + 1
    /\ UNCHANGED <<case, phase, unread, registry, keyVars, cipherVars, audit>>

(* The operator named this file: that it cannot be used is an error. *)
RefuseKeyfile ==
    /\ AtKeyfile /\ ~(case.keyfiles[at].readable /\ case.keyfiles[at].parses)
    /\ phase' = "failed"
    /\ UNCHANGED <<case, at, setupVars, keyVars, cipherVars, audit>>

FilesOf(dir) == IF dir \in DOMAIN case.beside THEN case.beside[dir] ELSE {}

EndKeyfiles ==
    /\ phase = "keyfiles" /\ at > Len(case.keyfiles)
    /\ phase' = "beside"
    /\ at' = 1 /\ unread' = FilesOf(1)
    /\ UNCHANGED <<case, registry, secrets, keyVars, cipherVars, audit>>

(* autodetect_in_dir(): a file called a keychain that reads as one. *)
LookBeside ==
    /\ phase = "beside" /\ at <= Len(case.beside)
    /\ \E file \in unread :
          /\ unread' = unread \ {file}
          /\ secrets' = IF file.named /\ file.readable /\ file.parses
                        THEN secrets \o file.secrets ELSE secrets
    /\ UNCHANGED <<case, phase, registry, at, keyVars, cipherVars, audit>>

NextDirectory ==
    /\ phase = "beside" /\ at <= Len(case.beside) /\ unread = {}
    /\ at' = at + 1 /\ unread' = FilesOf(at + 1)
    /\ UNCHANGED <<case, phase, registry, secrets, keyVars, cipherVars, audit>>

EndSetup ==
    /\ phase = "beside" /\ at > Len(case.beside)
    /\ phase' = IF secrets = <<>> THEN "off" ELSE "entry"
    /\ at' = 1
    /\ UNCHANGED <<case, setupVars, keyVars, cipherVars, audit>>

-----------------------------------------------------------------------------
(* One entry: try_decrypt() *)

entry == case.entries[at]

InScope(p) == case.scope \in {None, p.platform}

(* profile_for(): the index of the first profile, or 0. *)
profile_for(path) == SelectInSeq(registry, LAMBDA p : InScope(p) /\ path \in p.db)

secret_matches(s, p) == \A f \in Fields : p.wants[f] \in {None, s.attrs[f]}

(* Of the secrets that match, in the order of the store, the first from there on. *)
candidates(p, from) == SelectInSubSeq(secrets, from, Len(secrets), LAMBDA s : secret_matches(s, p))

AtEntry == phase = "entry" /\ at <= Len(case.entries)

NotATarget ==
    /\ AtEntry /\ profile_for(entry.path) = 0
    /\ at' = at + 1
    /\ UNCHANGED <<case, phase, setupVars, keyVars, cipherVars, audit>>

Target ==
    /\ AtEntry /\ profile_for(entry.path) # 0
    /\ profile' = registry[profile_for(entry.path)]
    /\ turn' = candidates(profile', 1)
    /\ phase' = "key"
    /\ UNCHANGED <<case, at, setupVars, cipherVars, audit>>

Conclude(status, text, ok) ==
    /\ audit' = Append(audit, [entry |-> at, profile |-> profile, status |-> status, plaintext |-> text,
                               verified |-> ok, secret |-> IF turn = 0 THEN None ELSE secrets[turn]])
    /\ at' = at + 1 /\ phase' = "entry"
    /\ UNCHANGED <<case, setupVars, keyVars, cipherVars>>

(* No secret matches, or none of them opened it. *)
GiveUp ==
    /\ phase = "key" /\ turn = 0
    /\ Conclude("failed", <<>>, FALSE)

(* An error with this candidate: on to the next. *)
NextCandidate ==
    /\ turn' = candidates(profile, turn + 1)
    /\ phase' = "key"
    /\ UNCHANGED <<case, at, setupVars, profile, cipherVars, audit>>

material == secrets[turn].data[profile.encoding]

(* Mutant of SkipSecret: the loop ends with the first error. *)
SkipSecretForGood ==
    /\ phase = "key" /\ turn # 0
    /\ material = Undecodable
    /\ Conclude("failed", <<>>, FALSE)

(* key_material() fails. *)
SkipSecret ==
    /\ phase = "key" /\ turn # 0
    /\ material = Undecodable
    /\ NextCandidate

Trying(scheme) == phase = "key" /\ turn # 0 /\ material # Undecodable /\ profile.scheme = scheme

(* decrypt_db() needs a whole number of pages, at least one. *)
InPages == entry.whole /\ entry.pages # <<>>

(* derive_key(): a passphrase is stretched over the file's salt, 48 raw bytes
   bring a salt of their own. *)
derive_key(bytes, file_salt) ==
    CASE profile.encoding = "passphrase" -> [key |-> <<bytes, file_salt>>, salt |-> file_salt]
      [] profile.encoding # "passphrase" /\ Len(bytes) = 1 -> [key |-> bytes[1], salt |-> file_salt]
      [] profile.encoding # "passphrase" /\ Len(bytes) = 2 -> [key |-> bytes[1], salt |-> bytes[2]]

HasLength(bytes) == profile.encoding = "passphrase" \/ Len(bytes) \in {1, 2}

RefuseSqlcipher ==
    /\ Trying("sqlcipher")
    /\ ~(profile.usable /\ InPages /\ HasLength(material))
    /\ NextCandidate

BeginSqlcipher ==
    /\ Trying("sqlcipher")
    /\ profile.usable /\ InPages /\ HasLength(material)
    /\ opening' = derive_key(material, entry.salt)
    /\ out' = <<>> /\ verified' = profile.use_hmac
    /\ phase' = "page"
    /\ UNCHANGED <<case, at, setupVars, keyVars, offset, audit>>

Number == Len(out) + 1
Page == entry.pages[Number]

(* Mutant of hmac_ok: the page's number is not authenticated. *)
hmac_ok_anywhere(pg, number) ==
    pg.damage = "none" /\ pg.sealed = opening /\ pg.params = profile.params

hmac_ok(pg, number) ==
    pg.damage = "none" /\ pg.sealed = opening /\ pg.params = profile.params /\ pg.number = number

(* aes_cbc_decrypt() *)
Text(pg) ==
    IF pg.sealed.key = opening.key /\ pg.params = profile.params /\ pg.damage # "text"
    THEN pg.text ELSE Garbage

AtPage == phase = "page" /\ Number <= Len(entry.pages)

WrongKey ==
    /\ AtPage /\ Number = 1
    /\ profile.use_hmac /\ ~hmac_ok(Page, 1)
    /\ NextCandidate

(* A later page that does not verify is damaged, and decrypted all the same. *)
DecryptPage ==
    /\ AtPage
    /\ Number = 1 /\ profile.use_hmac => hmac_ok(Page, 1)
    /\ verified' = (verified /\ hmac_ok(Page, Number))
    /\ out' = Append(out, Text(Page))
    /\ UNCHANGED <<case, phase, at, setupVars, keyVars, opening, offset, audit>>

EndPages ==
    /\ phase = "page" /\ Number > Len(entry.pages)
    /\ Conclude("decrypted", out, verified)

BeginWhatsapp ==
    /\ Trying("whatsapp")
    /\ offset' = 1
    /\ phase' = "offset"
    /\ UNCHANGED <<case, at, setupVars, keyVars, opening, out, verified, audit>>

AtOffset == phase = "offset" /\ offset <= Len(profile.iv_offsets)
iv_off == profile.iv_offsets[offset]

(* The tag verifies, which no file does that is too short for this offset. *)
Authentic == entry.intact /\ iv_off = entry.iv_at /\ material = entry.sealed

WrongOffset ==
    /\ AtOffset /\ ~Authentic
    /\ offset' = offset + 1
    /\ UNCHANGED <<case, phase, at, setupVars, keyVars, opening, out, verified, audit>>

Inflate ==
    /\ AtOffset /\ Authentic /\ entry.inflates
    /\ Conclude("decrypted", entry.written, TRUE)

InflateError ==
    /\ AtOffset /\ Authentic /\ ~entry.inflates
    /\ NextCandidate

NoOffset ==
    /\ phase = "offset" /\ offset > Len(profile.iv_offsets)
    /\ NextCandidate

Finish ==
    /\ phase = "entry" /\ at > Len(case.entries)
    /\ phase' = "done"
    /\ UNCHANGED <<case, at, setupVars, keyVars, cipherVars, audit>>

Next ==
    \/ SwitchedOff \/ LoadProfile \/ RefuseProfile \/ EndProfiles
    \/ LoadKeyfile \/ RefuseKeyfile \/ EndKeyfiles
    \/ LookBeside \/ NextDirectory \/ EndSetup
    \/ NotATarget \/ Target \/ SkipSecret \/ GiveUp
    \/ RefuseSqlcipher \/ BeginSqlcipher \/ WrongKey \/ DecryptPage \/ EndPages
    \/ BeginWhatsapp \/ WrongOffset \/ Inflate \/ InflateError \/ NoOffset
    \/ Finish

Spec == Init /\ [][Next]_vars

-----------------------------------------------------------------------------
(* Properties *)

(* What the audit trail calls verified is what the app wrote, from the first page
   on and in its order, whatever was done to the pages and whichever key was
   tried first: decrypt_db(), decrypt_crypt().  (Of a file that was cut between
   two pages that is the beginning.) *)
VerifiedIsWritten ==
    \A i \in DOMAIN audit :
        audit[i].verified =>
            /\ audit[i].status = "decrypted"
            /\ audit[i].plaintext # <<>>
            /\ \A n \in DOMAIN audit[i].plaintext :
                  LET written == case.entries[audit[i].entry].written
                  IN  n \in DOMAIN written /\ audit[i].plaintext[n] = written[n]

(* A secret that opens a file under a profile, independently of the loop. *)
Opens(s, p, e) ==
    LET bytes == s.data[p.encoding]
    IN  /\ secret_matches(s, p)
        /\ bytes # Undecodable
        /\ IF p.scheme = "whatsapp"
           THEN e.intact /\ e.inflates /\ e.iv_at \in Range(p.iv_offsets) /\ bytes = e.sealed
           ELSE /\ p.usable /\ e.whole /\ e.pages # <<>>
                /\ e.pages[1].damage = "none" /\ e.pages[1].number = 1 /\ e.pages[1].params = p.params
                /\ e.pages[1].sealed \in
                     IF p.encoding = "passphrase" THEN {[key |-> <<bytes, e.salt>>, salt |-> e.salt]}
                     ELSE {[key |-> bytes[n], salt |-> e.salt] : n \in {1} \cap {Len(bytes)}}
                          \cup {[key |-> bytes[1], salt |-> bytes[n]] : n \in {2} \cap {Len(bytes)}}

FoundIn(files) == UNION {Range(d.secrets) : d \in {d \in files : d.named /\ d.readable /\ d.parses}}

(* The secrets of every dump that can be used. *)
Offered ==
    (UNION {Range(case.keyfiles[i].secrets) : i \in DOMAIN case.keyfiles})
    \cup (UNION {FoundIn(case.beside[i]) : i \in DOMAIN case.beside})

(* Where the cipher authenticates, an entry is decrypted exactly when some secret
   of all the dumps, the named ones and those beside the archives, opens it, and
   by such a one: no dump is dropped without a word, no wrong candidate wins, and
   none that cannot be used keeps a right one from its turn ("each is tried until
   one decrypts and verifies"): try_decrypt(). *)
RightKeyWins ==
    \A i \in DOMAIN audit :
        LET record == audit[i]
            e == case.entries[record.entry]
            right == {s \in Offered : Opens(s, record.profile, e)}
        IN  record.profile.scheme = "whatsapp" \/ record.profile.use_hmac =>
                /\ record.status = "decrypted" <=> right # {}
                /\ right # {} => record.secret \in right

=============================================================================
