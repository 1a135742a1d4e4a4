\* The queues as docker-compose.yml and the Kubernetes manifests start them.
CONSTANTS
    Invoices = {i1, i2}
    Queues = {"celery", "billing", "notifications"}
    BeatQueue = "celery"
    WorkerQueues = {"billing", "notifications"}
    QueueCap = 2
SPECIFICATION Spec
PROPERTIES NoInvoiceStaysSent
