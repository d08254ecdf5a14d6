----------------------------- MODULE MCServices -----------------------------
EXTENDS Services

MCCalls == {[asked |-> <<"A", "B">>, force |-> "no"],
            [asked |-> <<"B">>, force |-> "reason"],
            [asked |-> <<"C">>, force |-> "no reason"]}
MCOverrides == [s \in {"A", "B"} |-> [class |-> "equity", aum |-> 2]]

MCSymbols == 1..5
MCClassMaps == {<<"equity", "equity", "gold", "gold", "bond">>,
                <<"equity", "equity", "gold", Unclassified, "equity">>,
                <<"equity", "gold", "gold", "equity", Unclassified>>}
(* Three volatilities in every order, and three classes of almost .6, .4   *)
(* and nothing, whose weight moves to the last ETF very slowly.            *)
MCInverseVols ==
  {v \in [MCSymbols -> {0, 1, 6}] : v[5] < 6} \cup {<<300, 300, 200, 199, 1>>}
(* The defaults, a class cap so tight that the loop cannot settle, and one *)
(* that it comes close to within its rounds.                               *)
MCConstraints == {[etf |-> 16000, class |-> cap] : cap \in {24000, 18000, 19960}}
MCPortfolios == {<<0, 0, 0, 0, 0>>, <<20000, 4000, 0, 0, 0>>}
MCPriceLists == {<<10, 30, 7, 20, 15>>, <<10, 0, 7, 50, 15>>}

MCRate == [b \in {"per_second", "per_minute"} |-> IF b = "per_second" THEN 2 ELSE 1]
MCCapacity == [b \in {"per_second", "per_minute"} |-> IF b = "per_second" THEN 2 ELSE 6]

(* The keys the validation looks at, and what the repository's files say   *)
(* of them.                                                                *)
MCDefaults ==
  [app |-> [environment |-> "dev"],
   data_engine |-> [primary_provider |-> "nse", secondary_provider |-> "kite",
                    storage_backend |-> "auto", calls_per_second |-> 2],
   database |-> [sqlite_path |-> "platform.db", busy_timeout_seconds |-> 30],
   secrets |-> [provider |-> "local", local_key_env_var |-> "KEY",
                aws_secret_name |-> "", aws_region |-> "south"],
   logging |-> [level |-> "INFO"]]
MCInstalled ==
  [base |-> [secrets |-> [provider |-> "local"], data_engine |-> [calls_per_second |-> 2]],
   live |-> [secrets |-> [provider |-> "aws", aws_secret_name |-> "live"]],
   paper |-> [secrets |-> [provider |-> "local"], logging |-> [level |-> "INFO"]]]
(* Also: a limit of 0, a section left empty, a misspelt key, a lost name.  *)
MCLayers ==
  [base |-> {[secrets |-> [provider |-> "local"], data_engine |-> [calls_per_second |-> 0]],
             [secrets |-> [aws_secret_name |-> "base"]]},
   live |-> {[secrets |-> [provider |-> "aws"]], [secrets |-> [region |-> "south"]]},
   paper |-> {[secrets |-> Null], [data_engine |-> [calls_per_second |-> 1]],
              [logging |-> [level |-> "LOUD"]]}]
MCExports ==
  {{}, {[section |-> "data_engine", key |-> "calls_per_second", value |-> 3]},
   {[section |-> "app", key |-> "environment", value |-> "live"]},
   {[section |-> "secrets", key |-> "provider", value |-> "local"]}}

MCRequired == <<"api_key", "access_token">>
MCTagOf == [r \in {"r1", "r2"} |-> IF r = "r1" THEN "t1" ELSE "t2"]
=============================================================================
