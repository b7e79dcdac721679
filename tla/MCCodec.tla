------------------------------ MODULE MCCodec -------------------------------
(* A small instance of CompactChain for TLC.                               *)
EXTENDS CompactChain

GenesisOwners == <<"alice", "bob">>
Versioned == {"hybrid"}

Input(txid, owner) == [txid |-> txid, index |-> 0, owner |-> owner]
Output(address) == [address |-> address, amount |-> 1]
Unattested == [signatures |-> <<>>, burns |-> <<>>, burns2 |-> <<>>]

CodecBody(miner, reward, proof, transactions, envelopes, section) ==
    [numbers |-> 13, miner |-> miner, reward |-> reward,
     mode |-> IF proof = None THEN Recovery ELSE Ticket, proof |-> proof,
     transactions |-> transactions, envelopes |-> envelopes,
     signatures |-> section.signatures, burns |-> section.burns, burns2 |-> section.burns2]

GenesisBurn == Burn(<<Input(<<"genesis output">>, "alice")>>, <<>>, None, <<"genesis burn">>)

GenesisBody == CodecBody("genesis", None, None, <<GenesisBurn>>, <<>>, Unattested)

SignatureOf(h, n) == <<"signature", h, n>>

\* Blocks after a chain: burns with and without change and anchor, a transfer to
\* a new address and the burn that spends it in the same block, a mine, and
\* blocks of the later versions, inputs of two owners; outputs spent are those of the last block.
CodecBodies(blocks) ==
    IF blocks = <<>> THEN {GenesisBody}
    ELSE
    LET h == Len(blocks)
        tip == Last(blocks)
        spent == Last(tip.body.transactions).id
        proof == [ticket |-> blocks[2].body.transactions[1].id, key |-> "alice"]
        anchored == Burn(<<Input(spent, "alice")>>, <<>>, tip.hash, SignatureOf(h, 1))
        returned == Burn(<<Input(<<"reward", h>>, "bob"), Input(spent, "bob")>>,
                         <<Output("bob")>>, None, SignatureOf(h, 2))
        mine == Mine("carol", tip.hash, <<"mine", h>>)
        transfer == Transfer(<<Input(spent, "alice")>>, <<Output("carol"), Output("alice")>>,
                             SignatureOf(h, 3))
        respent == Burn(<<Input(SignatureOf(h, 3), "carol")>>, <<Output("dave")>>, None, SignatureOf(h, 4))
        mixed == Transfer(<<Input(spent, "alice"), Input(<<"reward", h>>, "bob")>>,
                          <<Output("carol")>>, SignatureOf(h, 5))
        envelope == [name |-> h, bytes |-> 40]
        attested == [signatures |-> <<[slot |-> 0, member |-> "bob", reward |-> None]>>,
                     burns |-> <<[index |-> 0, mask |-> 1]>>, burns2 |-> <<>>]
        attested2 == [signatures |-> <<[slot |-> 0, member |-> "bob", reward |-> "hybrid"]>>,
                      burns |-> <<>>, burns2 |-> <<[index |-> 0, mask |-> 1]>>]
    IN  {CodecBody("alice", None, None, <<anchored>>, <<>>, Unattested),
         CodecBody("bob", None, None, <<returned, mine>>, <<>>, attested),
         CodecBody("alice", None, None, <<transfer, respent>>, <<>>, Unattested),
         CodecBody("bob", None, None, <<mixed>>, <<>>, Unattested),
         CodecBody("bob", "hybrid", None, <<anchored>>, <<envelope>>, attested2)}
        \cup (IF h < 2 THEN {}
              ELSE {CodecBody("alice", "hybrid", proof, <<anchored, mine>>, <<>>, Unattested),
                    CodecBody("alice", None, proof, <<returned>>, <<envelope>>, attested)})
=============================================================================
