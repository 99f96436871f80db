------------------------ MODULE MCWebhookDeliveries ------------------------
EXTENDS WebhookDeliveries
=============================================================================
