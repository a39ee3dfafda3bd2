----------------------------- MODULE MCStartHost ----------------------------
EXTENDS StartHost

(* A digest with collisions: of "." and "..." for one.                     *)
MCDigest(name) == Cardinality({i \in DOMAIN name : name[i] = "."}) % 2

Padded(t) == [text |-> t, padded |-> TRUE]
Blank == Padded("")

Unset(fields) == [f \in fields |-> None]
File(settings) == [state |-> "ok", settings |-> settings]

(* Combinations of the fields that decide on identity and authentication.  *)
AuthEnv ==
    {[Unset(Variables) EXCEPT !.aad_client_id = c, !.nats_auth_service_url = u,
                              !.nats_auth_service_scope = s, !.nats_creds_file = f] :
       c \in {None, Some(Blank), Some(Padded("app"))},
       u \in {None, Some(Text("http")), Some(Padded("https"))},
       s \in {None, Some(Blank)},
       f \in {None, Some(Text("file"))}}

AuthFile ==
    {File([Unset(SettingsFields) EXCEPT !.aad_client_id = c,
                                        !.nats_auth_service_url = u,
                                        !.nats_auth_service_scope = s]) :
       c \in {None, Some(Text("app"))},
       u \in {None, Some(Text("https"))},
       s \in {None, Some(Text("scope"))}}
    \cup {[state |-> "malformed"]}

Windows(env, file, local, name) ==
    [head |-> "windows", env |-> env, file |-> file, local_app_data |-> local,
     username |-> name]

AuthLaunches ==
    {Windows(e, f, TRUE, <<"a">>) : e \in AuthEnv, f \in AuthFile}
    \cup {Windows(e, [state |-> "missing"], FALSE, <<"a">>) : e \in AuthEnv}

(* The fields that are texts for others to use.                            *)
TextLaunches ==
    {Windows([Unset(Variables) EXCEPT !.nats_url = v, !.log_level = v, !.device_id = v],
             File([Unset(SettingsFields) EXCEPT !.nats_url = w, !.ack_subject = w,
                                                !.log_level = w, !.aad_tenant_id = w]),
             TRUE, <<"a">>) :
       v \in {None, Some(Blank), Some(Padded("debug"))},
       w \in {None, Some(Blank), Some(Text("]"))}}

(* One name in two domains, and longer ones with blanks in them.           *)
LongNames ==
    {<<"a", "\\", "A", " ", "a">>, <<"_", "\\", "a", " ", "a", " ">>,
     <<" ", "a", ".", "\\", " ", ".", "a">>, <<"A", "\\", "a", "\\", "_", "a">>}

(* All names of up to three characters.                                    *)
UserLaunches ==
    {Windows(Unset(Variables), [state |-> "missing"], TRUE, name) :
       name \in LongNames \cup UNION {[1..n -> Alphabet] : n \in 0..3}}

ConsoleLaunches ==
    {[head |-> "console",
      env |-> [Unset(Variables) EXCEPT !.aad_client_id = c, !.user_id = u,
                                       !.device_id = d, !.nats_creds_file = f]] :
       c \in {None, Some(Blank), Some(Padded("app"))},
       u \in {None, Some(Blank), Some(Padded("u"))},
       d \in {None, Some(Blank)},
       f \in {None, Some(Text("file"))}}

MCLaunches == AuthLaunches \cup TextLaunches \cup UserLaunches \cup ConsoleLaunches
=============================================================================
