--------------------------- MODULE MCToolExposure ---------------------------
(* ToolExposure with one tool of every sort. *)
EXTENDS ToolExposure

MCNames == {"get_balance", "send_transaction", "dry_run_transaction",
            "import_private_key", "mint_nft", "list_nfts", "compass_status"}
MCRegistered == {"get_balance", "send_transaction"}
MCDefaultAllow == {"get_balance"}
MCUnsupported == {"dry_run_transaction"}
MCKeyNames == {"import_private_key"}
MCDangerNames == {"mint_nft"}
MCMetaNames == {"compass_status"}

=============================================================================
