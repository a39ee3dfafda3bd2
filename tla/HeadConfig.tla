----------------------------- MODULE HeadConfig -----------------------------
(***************************************************************************)
(* What a head makes of its environment, its settings file and the name of *)
(* the account before it starts the agent: settings.rs, the first half of  *)
(* start_host in the Windows head, main of the console head, and the user  *)
(* id derived from a Windows username.  No state; StartHost uses it.       *)
(*                                                                         *)
(* An optional value is a set of at most one element.  A setting's text is *)
(* a record: the text between outer white space, and whether there is any, *)
(* so that [text |-> "", padded |-> TRUE] is a blank value.                *)
(***************************************************************************)
EXTENDS Naturals, Sequences, FiniteSetsExt

CONSTANTS HttpsUrls,       \* the texts that start with "https://"
          ValidDirectives, \* the texts EnvFilter::try_new accepts
          Digest(_)        \* the first 32 bits of SHA-256: any function

None == {}
Some(v) == {v}
Text(t) == [text |-> t, padded |-> FALSE]

(* The fields of struct Settings, and NOTIFY_USER_ID, which has no field.  *)
SettingsFields ==
    {"nats_url", "subject_template", "ack_subject", "nats_creds_file",
     "nats_auth_service_url", "nats_auth_service_scope", "aad_client_id",
     "aad_tenant_id", "device_id", "log_level"}
Variables == SettingsFields \cup {"user_id"}

(* Settings::default().                                                    *)
DefaultSettings == [f \in SettingsFields |-> None]

trim(v) == [v EXCEPT !.padded = FALSE]
NonBlank(o) == {v \in o : v.text # ""}
NonEmpty(o) == {v \in o : v # Text("")}
unwrap_or(o, default) == IF o = None THEN default ELSE CHOOSE v \in o : TRUE

-----------------------------------------------------------------------------
(* settings.rs *)

(* A file that is missing, unreadable or malformed, or cannot be looked    *)
(* for, counts as an empty one.                                            *)
load(launch) ==
    IF launch.local_app_data /\ launch.file.state = "ok"
    THEN launch.file.settings
    ELSE DefaultSettings

resolved_opt(env, file) ==
    LET trimmed(o) == NonBlank({trim(v) : v \in o})
    IN  IF trimmed(env) # None THEN trimmed(env) ELSE trimmed(file)

resolved_str(env, file, default) == unwrap_or(resolved_opt(env, file), Text(default))

agent_config(env, settings) ==
    [nats_url |-> resolved_str(env.nats_url, settings.nats_url, "default url"),
     subject_template |-> resolved_str(env.subject_template,
                                       settings.subject_template, "default subject"),
     ack_subject |-> resolved_str(env.ack_subject, settings.ack_subject, "default ack")]

(* env.log_level is RUST_LOG.                                              *)
resolve_log_directive(env, settings) ==
    resolved_str(env.log_level, settings.log_level, "info")

resolve_log_filter(env, settings) ==
    LET directive == resolve_log_directive(env, settings)
    IN  IF directive.text \in ValidDirectives THEN directive ELSE Text("info")

-----------------------------------------------------------------------------
(* nats_auth.rs: validate_auth_service_config *)

\* Mutated form of validate_auth_service_config: no scope asked for.
validate_NoScope(url, scope, has_aad_identity) ==
    \/ url = None
    \/ /\ has_aad_identity
       /\ \A u \in url : u.text \in HttpsUrls

validate_auth_service_config(url, scope, has_aad_identity) ==
    \/ url = None
    \/ /\ has_aad_identity
       /\ scope # None
       /\ \A u \in url : u.text \in HttpsUrls

-----------------------------------------------------------------------------
(* What the heads hand to AgentHost::start.  "valid" is FALSE where they   *)
(* return an error before anything was awaited.                            *)

(* Without a path for the image cache or the device id there is no start,  *)
(* although the settings alone would do without LOCALAPPDATA.              *)
WindowsConfig(launch) ==
    LET settings == load(launch)
        opt(f)   == resolved_opt(launch.env[f], settings[f])
        url      == opt("nats_auth_service_url")
        scope    == opt("nats_auth_service_scope")
        client   == opt("aad_client_id")
    IN  [valid      |-> /\ launch.local_app_data
                        /\ validate_auth_service_config(url, scope, client # None),
         agent      |-> agent_config(launch.env, settings),
         log_filter |-> resolve_log_filter(launch.env, settings),
         identity   |-> IF client # None THEN "device-code" ELSE "windows-username",
         client_id  |-> client,
         tenant     |-> resolved_str(launch.env.aad_tenant_id, settings.aad_tenant_id,
                                     "organizations"),
         extra_scopes |-> IF url # None THEN scope ELSE None,
         sink       |-> TRUE,
         user       |-> IF client # None THEN None ELSE Some(launch.username),
         device_id  |-> opt("device_id"),
         auth       |-> IF url # None THEN "external"
                        ELSE IF opt("nats_creds_file") # None THEN "creds" ELSE "none",
         auth_url   |-> url,
         auth_scope |-> scope]

(* AgentConfig::from_env and main of the console head: the environment     *)
(* only, nothing trimmed, an empty variable is as good as none.            *)
ConsoleConfig(launch) ==
    LET env    == launch.env
        var(f, default) == unwrap_or(NonEmpty(env[f]), Text(default))
        client == NonBlank(env.aad_client_id)
    IN  [valid      |-> TRUE,
         agent      |-> [nats_url |-> var("nats_url", "default url"),
                         subject_template |-> var("subject_template", "default subject"),
                         ack_subject |-> var("ack_subject", "default ack")],
         identity   |-> IF client # None THEN "device-code" ELSE "env",
         client_id  |-> client,
         tenant     |-> unwrap_or(env.aad_tenant_id, Text("organizations")),
         extra_scopes |-> None,
         sink       |-> FALSE,
         user       |-> IF client # None THEN None ELSE NonBlank(env.user_id),
         device_id  |-> IF client # None THEN NonEmpty(env.device_id)
                                         ELSE NonBlank(env.device_id),
         auth       |-> IF NonBlank(env.nats_creds_file) # None THEN "creds" ELSE "none",
         auth_url   |-> None,
         auth_scope |-> None]

Config(launch) ==
    IF launch.head = "windows" THEN WindowsConfig(launch) ELSE ConsoleConfig(launch)

-----------------------------------------------------------------------------
(* windows_identity.rs: a username is a sequence of the characters         *)
(* "a" "A" "_" "." " " "\\": a letter in both cases, one that is allowed,  *)
(* one that is not, white space and the end of a domain.                   *)

Space == " "
Backslash == "\\"
Alphabet == {"a", "A", "_", ".", Space, Backslash}
Allowed == {"a", "_"}

trimmed_name(s) ==
    LET ink == {i \in DOMAIN s : s[i] # Space}
    IN  IF ink = {} THEN <<>> ELSE SubSeq(s, Min(ink), Max(ink))

strip_domain_prefix(s) ==
    LET separators == {i \in DOMAIN s : s[i] = Backslash}
    IN  IF separators = {} THEN s ELSE SubSeq(s, Max(separators) + 1, Len(s))

to_lowercase(s) == [i \in DOMAIN s |-> IF s[i] = "A" THEN "a" ELSE s[i]]

\* Mutated form of normalized: blanks between domain and name are kept.
normalized_TrimmedOnce(raw) == to_lowercase(strip_domain_prefix(trimmed_name(raw)))

normalized(raw) == to_lowercase(trimmed_name(strip_domain_prefix(trimmed_name(raw))))

sanitized(name) == [i \in DOMAIN name |-> IF name[i] \in Allowed THEN name[i] ELSE "_"]

(* The first 8 hex digits of SHA-256.  Names may collide.                  *)
hash_prefix8(name) == Digest(name)

(* Defined for names that are not empty once normalised; the others are    *)
(* refused.                                                                *)
user_id_from_username(raw) ==
    [prefix |-> sanitized(normalized(raw)),
     hash8  |-> hash_prefix8(normalized(raw))]

(* EnvIdentity takes NOTIFY_USER_ID as it is.                              *)
user_id_from_env(v) ==
    [prefix |-> IF v.padded THEN <<" ", v.text, " ">> ELSE <<v.text>>, hash8 |-> <<>>]

(* DeviceCodeIdentity: u_{oid}.                                            *)
user_id_from_oid == [prefix |-> <<"oid">>, hash8 |-> <<>>]
=============================================================================
